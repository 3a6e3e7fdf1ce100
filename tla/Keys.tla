--------------------------------- MODULE Keys ---------------------------------
(***************************************************************************)
(* Field encryption: the key manager of a region, the sources it loads       *)
(* keys from, and the way of an encrypted field from a row of this region    *)
(* over the outbox and the wire into the row of a peer.                      *)
(*                                                                         *)
(* A key is its material, a positive number; 0 is the absence of a key id.   *)
(* A field of a row is a JSON value, described by what Encrypt and Decrypt   *)
(* tell apart: null, "" , a string that is not base64 ("text"), one that is  *)
(* but holds no ciphertext ("code"), no string at all ("number"), and a      *)
(* ciphertext with its key and plaintext.  Ciphers are perfect: a ciphertext *)
(* opens with its own key only (AEAD).  All secret fields are one field.     *)
(***************************************************************************)
EXTENDS Integers, Sequences, Functions

CONSTANTS
  KeyIDs, FieldKeyID,   \* the ids, and the id the field's transformer names
  Sources,              \* the possible contents of each source, in merge order
  PeerKey,              \* the peer's own key
  RetryAttempts,        \* attempts of one load
  MaxChanges, MaxFaults, MaxWrites  \* bounds: changed sources, failing loads, written rows

ASSUME KeysAssumption ==
  /\ FieldKeyID \in KeyIDs /\ RetryAttempts \in Nat \ {0}
  /\ Sources \in Seq(Range(Sources)) /\ Len(Sources) > 0
  /\ MaxChanges \in Nat /\ MaxFaults \in Nat /\ MaxWrites \in Nat

VARIABLES
  content,             \* what each source holds
  snapshot, lastErr,   \* KeyManager: its key snapshot; did the last refresh fail
  load,                \* the running load: next source, attempt, merged so far
  up,                  \* "starting", "running" or "failed"
  pending,             \* the field in the staged batches the peer has not got, oldest first
  wire, copy,          \* the message on its way, the peer's field
  origin,              \* the value that was sent last
  changes, faults, writes

vars == <<content, snapshot, lastErr, load, up, pending, wire, copy, origin, changes, faults, writes>>
manager == <<content, snapshot, lastErr, load, up, changes, faults>>
data == <<pending, wire, copy, origin, writes>>

None == [kind |-> "none"]
NoKeys == [active |-> "", keys |-> [k \in KeyIDs |-> 0]]
NoLoad == [at |-> 0, attempt |-> 0, merged |-> NoKeys]

-----------------------------------------------------------------------------
(* MergeProvider: later sources win, key by key.                            *)
Merge(left, right) ==
  [active |-> IF right.active # "" THEN right.active ELSE left.active,
   keys |-> [k \in KeyIDs |-> IF right.keys[k] # 0 THEN right.keys[k] ELSE left.keys[k]]]

Current ==
  LET merged[n \in 0..Len(content)] == IF n = 0 THEN NoKeys ELSE Merge(merged[n - 1], content[n])
  IN  merged[Len(content)]

\* Deliberately wrong variant of validateSnapshot: the ids of the transformers are not asked for.
ValidateActiveOnly(s) == s.active # "" /\ s.keys[s.active] # 0
validateSnapshot(s) ==
  /\ s.active # "" /\ s.keys[s.active] # 0
  /\ s.keys[FieldKeyID] # 0

(* The field: pkg/crypto, and the JSON around it in service/crypto.          *)
Nothing == "nothing"   \* no bytes
Failed == "failed"     \* an error
Plain == [kind : {"null", "empty", "text", "code", "number"}]
Cipher(k, p) == [kind |-> "cipher", key |-> k, plain |-> p]

\* Deliberately wrong variant of Encrypt: only what is not there stays as it is.
EncryptStrings(k, p) ==
  IF p = Nothing THEN [kind |-> "empty"]
  ELSE IF p = "number" THEN [kind |-> "number"] ELSE Cipher(k, p)
Encrypt(k, p) == IF p = Nothing THEN [kind |-> "empty"] ELSE Cipher(k, p)

Decrypt(k, v) ==
  CASE v.kind \in {"null", "empty"} -> Nothing
    [] v.kind \in {"text", "number"} -> v.kind
    [] v.kind = "code" -> Failed
    [] v.kind = "cipher" -> IF v.key = k THEN v.plain ELSE Failed

\* The transformers: the opened field travels as transit metadata and is encrypted again.
PrepareOutbound(k, v) == [kind |-> "message", transit |-> Decrypt(k, v)]
PrepareInbound(k, m) == Encrypt(k, m.transit)

-----------------------------------------------------------------------------
Init ==
  /\ content \in {f \in [DOMAIN Sources -> UNION Range(Sources)] :
                    \A i \in DOMAIN Sources : f[i] \in Sources[i]}
  /\ snapshot = NoKeys /\ lastErr = FALSE /\ up = "starting"
  /\ load = [NoLoad EXCEPT !.at = 1, !.attempt = 1]
  /\ pending = <<>> /\ wire = None /\ copy = None /\ origin = None
  /\ changes = 0 /\ faults = 0 /\ writes = 0

\* An operator changes a source at any time, also between two of a load's requests.
ChangeSource(i, c) ==
  /\ changes < MaxChanges /\ c \in Sources[i] \ {content[i]}
  /\ content' = [content EXCEPT ![i] = c] /\ changes' = changes + 1
  /\ UNCHANGED <<snapshot, lastErr, load, up, faults, data>>

\* Deliberately wrong variant of Refresh: a healthy manager keeps what it has.
RefreshOnError ==
  /\ up = "running" /\ load.at = 0 /\ lastErr
  /\ load' = [NoLoad EXCEPT !.at = 1, !.attempt = 1]
  /\ UNCHANGED <<content, snapshot, lastErr, up, changes, faults, data>>

\* The ticker of Run.
Refresh ==
  /\ up = "running" /\ load.at = 0
  /\ load' = [NoLoad EXCEPT !.at = 1, !.attempt = 1]
  /\ UNCHANGED <<content, snapshot, lastErr, up, changes, faults, data>>

\* Deliberately wrong variant of LoadSource: the keys in use are merged in place.
LoadSourceInPlace ==
  /\ load.at \in DOMAIN Sources
  /\ load' = [load EXCEPT !.at = @ + 1, !.merged = Merge(@, content[load.at])]
  /\ snapshot' = Merge(snapshot, content[load.at])
  /\ UNCHANGED <<content, lastErr, up, changes, faults, data>>

\* One provider's Load, merged into the result (MergeProvider.Load).
LoadSource ==
  /\ load.at \in DOMAIN Sources
  /\ load' = [load EXCEPT !.at = @ + 1, !.merged = Merge(@, content[load.at])]
  /\ UNCHANGED <<content, snapshot, lastErr, up, changes, faults, data>>

\* A load that fails for good: no first snapshot, no start; later the old one stays.
GiveUp ==
  /\ load' = NoLoad
  /\ up' = IF up = "starting" THEN "failed" ELSE up
  /\ lastErr' = (up # "starting")
  /\ UNCHANGED snapshot

\* Deliberately wrong variant of SourceFails: one attempt too many.
SourceFailsOnceMore ==
  /\ load.at \in DOMAIN Sources /\ faults < MaxFaults /\ faults' = faults + 1
  /\ IF load.attempt > RetryAttempts
       THEN GiveUp
       ELSE load' = [NoLoad EXCEPT !.at = 1, !.attempt = load.attempt + 1]
            /\ UNCHANGED <<snapshot, lastErr, up>>
  /\ UNCHANGED <<content, changes, data>>

\* One source fails: the load starts again from the first, unless this was the last attempt.
SourceFails ==
  /\ load.at \in DOMAIN Sources /\ faults < MaxFaults /\ faults' = faults + 1
  /\ IF load.attempt = RetryAttempts
       THEN GiveUp
       ELSE load' = [NoLoad EXCEPT !.at = 1, !.attempt = load.attempt + 1]
            /\ UNCHANGED <<snapshot, lastErr, up>>
  /\ UNCHANGED <<content, changes, data>>

\* Deliberately wrong variant of EndLoad: keys that did not change end the refresh early.
EndLoadIfChanged ==
  /\ load.at = Len(Sources) + 1
  /\ IF validateSnapshot(load.merged)
       THEN snapshot' = load.merged /\ up' = "running" /\ load' = NoLoad
            /\ lastErr' = (lastErr /\ load.merged = snapshot)
       ELSE GiveUp
  /\ UNCHANGED <<content, changes, faults, data>>

EndLoad ==
  /\ load.at = Len(Sources) + 1
  /\ IF validateSnapshot(load.merged)
       THEN snapshot' = load.merged /\ lastErr' = FALSE /\ up' = "running" /\ load' = NoLoad
       ELSE GiveUp
  /\ UNCHANGED <<content, changes, faults, data>>

-----------------------------------------------------------------------------
\* The application writes the row, with the key its region has now or without encrypting, and
\* the change is staged.
WriteRow ==
  /\ writes < MaxWrites /\ writes' = writes + 1
  /\ \E v \in Plain \cup {Cipher(k, "secret") : k \in {Current.keys[FieldKeyID]} \ {0}} :
       pending' = Append(pending, v)
  /\ UNCHANGED <<manager, wire, copy, origin>>

\* The sender: pending batches in the order of their ids.  One whose field does not decrypt
\* ends the stream; the next one starts with it again, and what is behind it waits.
Send ==
  /\ up = "running" /\ wire = None /\ pending # <<>>
  /\ LET m == PrepareOutbound(snapshot.keys[FieldKeyID], Head(pending)) IN
     IF m.transit = Failed THEN UNCHANGED <<pending, wire, origin>>
     ELSE wire' = m /\ origin' = Head(pending) /\ pending' = Tail(pending)
  /\ UNCHANGED <<manager, copy, writes>>

\* The receiver.
Receive ==
  /\ wire # None
  /\ copy' = PrepareInbound(PeerKey, wire)
  /\ wire' = None
  /\ UNCHANGED <<manager, pending, origin, writes>>

Next ==
  \/ \E i \in DOMAIN Sources : \E c \in Sources[i] : ChangeSource(i, c)
  \/ Refresh \/ LoadSource \/ SourceFails \/ EndLoad
  \/ WriteRow \/ Send \/ Receive

\* The ticker ticks, requests are answered, streams are opened again.
Spec ==
  /\ Init /\ [][Next]_vars
  /\ WF_vars(Refresh \/ LoadSource \/ EndLoad) /\ WF_vars(Send) /\ WF_vars(Receive)

-----------------------------------------------------------------------------
\* What a key id can stand for: nothing, or what some source has for it.
Materials(k) == {0} \cup {c.keys[k] : c \in UNION Range(Sources)}

TypeOK ==
  /\ DOMAIN content = DOMAIN Sources /\ \A i \in DOMAIN Sources : content[i] \in Sources[i]
  /\ \A k \in KeyIDs : snapshot.keys[k] \in Materials(k)
  /\ lastErr \in BOOLEAN /\ up \in {"starting", "running", "failed"}
  /\ load.at \in 0..Len(Sources) + 1 /\ load.attempt \in 0..RetryAttempts

\* From the start on the manager holds the active key and the field's key, whatever the
\* sources hold and however a change of two sources falls between a load's requests
\* (validateSnapshot in NewCachedManager and refresh): GetKey cannot fail for the field.
SnapshotIsUsable ==
  up = "running" => /\ snapshot.active # "" /\ snapshot.keys[snapshot.active] # 0
                    /\ snapshot.keys[FieldKeyID] # 0

\* The keys in use change only by a refresh that succeeded as a whole, which also makes the
\* process ready again (docs: refresh failures leave the last successful snapshot in place).
RefreshIsAllOrNothing ==
  [][snapshot' # snapshot => ~lastErr' /\ load.at = Len(Sources) + 1]_<<snapshot, lastErr, load>>

\* The peer stores no plaintext, and what it stores opens, with its own key, to what the
\* sender's row held (the transformers, Encrypt and Decrypt).
CopyOpensAlike ==
  copy # None /\ wire = None =>
    /\ copy.kind \in {"cipher", "empty"}
    /\ Decrypt(PeerKey, copy) = Decrypt(IF origin.kind = "cipher" THEN origin.key ELSE 0, origin)

\* The next batch is sent in the end if its field opens with the key its region now has: keys
\* that the manager has not loaded yet only delay it.  One that was encrypted with a key no
\* source holds any more is never sent, nor is any batch behind it (refresh, and the replay
\* after a failed batch).
StaleKeysOnlyDelay ==
  []<>(\/ pending = <<>> \/ up # "running"
       \/ Decrypt(Current.keys[FieldKeyID], Head(pending)) = Failed \/ ~validateSnapshot(Current))

\* When the sources hold usable keys, the manager ends up with them and ready.
ReadyAgain ==
  []<>(up # "running" \/ ~validateSnapshot(Current) \/ (snapshot = Current /\ ~lastErr))
=============================================================================
