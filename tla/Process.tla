-------------------------------- MODULE Process --------------------------------
(***************************************************************************)
(* The life of one transmogr process, after its init job (Migrations): load  *)
(* and validate the configuration, set up the components one after the other, *)
(* run them as a group, stop.                                                *)
(*                                                                         *)
(* A configuration has the fields that decide which components there are and *)
(* how they run: the source, its mode, the tables, the timing of the leases   *)
(* (durations are numbers, 0 is what applyDefaults replaces).  What Validate  *)
(* asks of the rest (the region, TLS, Vault, the transformers, the peers) is   *)
(* one flag, accepted.  Remote peers open and close Consume streams at will    *)
(* (Stream): the server stops gracefully, so it waits for them.              *)
(***************************************************************************)
EXTENDS Migrations, Sequences, FiniteSets, Functions

CONSTANTS
  Configs,               \* the configurations tried
  InitJob,               \* the init container of this process
  Peers,                 \* remote processes that open a stream
  MaxFailures            \* bound: components that fail

ASSUME ProcessAssumption == InitJob \in Jobs \ DownJobs /\ MaxFailures \in Nat

VARIABLES
  config, phase,
  runners,      \* the components that run: "ready", "running", "ended"
  closers,      \* what closeAll has to close, in the order of appending
  pool,         \* database pool: "none", "open", "closed"
  cancelled,    \* runCtx
  draining,     \* GracefulStop was called
  streams,      \* peers with an open stream
  failures

pvars == <<config, phase, runners, closers, pool, cancelled, draining, streams, failures>>
processVars == <<mvars, pvars>>

ProcessInit ==
  /\ MInit
  /\ config \in Configs /\ phase = "init" /\ runners = <<>> /\ closers = <<>>
  /\ pool = "none" /\ cancelled = FALSE /\ draining = FALSE /\ streams = {} /\ failures = 0

-----------------------------------------------------------------------------
(* Configuration.                                                           *)
Default(value, default) == IF value <= 0 THEN default ELSE value

applyDefaults(c) == [c EXCEPT !.ttl = Default(@, 15), !.renew = Default(@, 5),
                              !.source = IF @ = "" THEN "cdc" ELSE @]

\* The type of the source is read in three ways: without blanks and case, without case, and
\* as it is written.
Trimmed(source) == IF source = " polling" THEN "polling" ELSE source
Folded(source) == CASE source = "Polling" -> "polling" [] source = "CDC" -> "cdc"
                    [] OTHER -> source

\* Deliberately wrong variant of validateTable: updated_at_field is not asked for.
ValidateTableUnstamped(c, t) == t.keyed
validateTable(c, t) == t.keyed /\ (Folded(c.source) = "polling" => t.stamped)

Validate(c) ==
  /\ c.accepted
  /\ Folded(Trimmed(c.source)) \in {"cdc", "polling"}
  /\ ~(c.diff /\ Folded(Trimmed(c.source)) = "polling")
  /\ c.renew < c.ttl
  /\ c.tables # {} /\ \A t \in c.tables : validateTable(c, t)

newChangefeedAdapter(c) == IF c.source = "polling" THEN "polling" ELSE "cdc"

-----------------------------------------------------------------------------
(* Starting: main and New.  A component that fails ends New, whose deferred  *)
(* function closes what there is.                                           *)
Add(names) == runners' = [r \in names \cup DOMAIN runners |-> "ready"]

StartApp ==
  /\ phase = "init" /\ job[InitJob].at = "done"
  /\ phase' = "load"
  /\ UNCHANGED <<mvars, config, runners, closers, pool, cancelled, draining, streams, failures>>

Load ==
  /\ phase = "load"
  /\ config' = applyDefaults(config)
  /\ phase' = IF Validate(config') THEN "repository" ELSE "exited"
  /\ UNCHANGED <<mvars, runners, closers, pool, cancelled, draining, streams, failures>>

InitRepository ==
  /\ phase = "repository"
  /\ phase' = "crypto" /\ pool' = "open" /\ closers' = <<"repo">>
  /\ Add({"leases"})
  /\ UNCHANGED <<mvars, config, cancelled, draining, streams, failures>>

\* The first load of the keys is in Keys; no transformer, no manager to run.
InitCrypto ==
  /\ phase = "crypto"
  /\ phase' = "replication"
  /\ Add(IF config.encrypted THEN {"keys"} ELSE {})
  /\ UNCHANGED <<mvars, config, closers, pool, cancelled, draining, streams, failures>>

\* "outbox" are its two periodic loops.
InitReplication ==
  /\ phase = "replication"
  /\ phase' = "transport"
  /\ Add({"outbox", newChangefeedAdapter(config)})
  /\ UNCHANGED <<mvars, config, closers, pool, cancelled, draining, streams, failures>>

InitTransport ==
  /\ phase = "transport"
  /\ phase' = "running"
  /\ LET http == IF config.metrics THEN <<"metrics">> ELSE <<>> IN
     /\ runners' = [r \in DOMAIN runners \cup {"server", "client"} \cup Range(http) |-> "running"]
     /\ closers' = closers \o <<"server", "client">> \o http
  /\ UNCHANGED <<mvars, config, pool, cancelled, draining, streams, failures>>

\* Deliberately wrong variant of InitFails: New returns without its deferred function.
InitFailsOpen ==
  /\ phase \in {"repository", "crypto", "replication", "transport"}
  /\ failures < MaxFailures /\ failures' = failures + 1
  /\ phase' = "exited" /\ runners' = <<>>
  /\ UNCHANGED <<mvars, config, closers, pool, cancelled, draining, streams>>

InitFails ==
  /\ phase \in {"repository", "crypto", "replication", "transport"}
  /\ failures < MaxFailures /\ failures' = failures + 1
  /\ phase' = "closing" /\ runners' = <<>>
  /\ UNCHANGED <<mvars, config, closers, pool, cancelled, draining, streams>>

-----------------------------------------------------------------------------
(* Running and stopping: Run.                                               *)

\* A component returns before it was asked to, with an error or without.
RunnerFails(r) ==
  /\ phase = "running" /\ runners[r] = "running"
  /\ failures < MaxFailures /\ failures' = failures + 1
  /\ runners' = [runners EXCEPT ![r] = "ended"]
  /\ UNCHANGED <<mvars, config, phase, closers, pool, cancelled, draining, streams>>

\* The signal, or the first result in errCh: the context of the group is cancelled.
Stop ==
  /\ phase = "running"
  /\ phase' = "closing" /\ cancelled' = TRUE
  /\ UNCHANGED <<mvars, config, runners, closers, pool, draining, streams, failures>>

\* GracefulStop, by the server's own goroutine or by Close: no new streams.
Drain ==
  /\ phase = "closing" /\ ~draining
  /\ cancelled \/ (closers # <<>> /\ closers[Len(closers)] = "server")
  /\ draining' = TRUE
  /\ UNCHANGED <<mvars, config, phase, runners, closers, pool, cancelled, streams, failures>>

\* A cancelled component returns; Serve does when GracefulStop has seen the last stream end.
RunnerStops(r) ==
  /\ cancelled /\ runners[r] = "running" /\ (r = "server" => draining /\ streams = {})
  /\ runners' = [runners EXCEPT ![r] = "ended"]
  /\ UNCHANGED <<mvars, config, phase, closers, pool, cancelled, draining, streams, failures>>

\* Deliberately wrong variant of CloseNext: in the order of appending.
CloseFirst ==
  /\ phase = "closing" /\ closers # <<>>
  /\ Head(closers) = "server" => draining /\ streams = {}
  /\ closers' = Tail(closers)
  /\ pool' = IF Head(closers) = "repo" THEN "closed" ELSE pool
  /\ UNCHANGED <<mvars, config, phase, runners, cancelled, draining, streams, failures>>

\* closeAll: from the last to the first, each Close waited for.
CloseNext ==
  /\ phase = "closing" /\ closers # <<>>
  /\ closers[Len(closers)] = "server" => draining /\ streams = {}
  /\ closers' = SubSeq(closers, 1, Len(closers) - 1)
  /\ pool' = IF closers[Len(closers)] = "repo" THEN "closed" ELSE pool
  /\ UNCHANGED <<mvars, config, phase, runners, cancelled, draining, streams, failures>>

\* Deliberately wrong variant of Exit: it waits for as many results as there are components,
\* one of which Run may have taken already.
ExitCounting ==
  /\ phase = "closing" /\ closers = <<>> /\ \A r \in DOMAIN runners : runners[r] = "ended"
  /\ failures = 0
  /\ phase' = "exited"
  /\ UNCHANGED <<mvars, config, runners, closers, pool, cancelled, draining, streams, failures>>

\* collectRunnerErrors reads until every component has returned.
Exit ==
  /\ phase = "closing" /\ closers = <<>> /\ \A r \in DOMAIN runners : runners[r] = "ended"
  /\ phase' = "exited"
  /\ UNCHANGED <<mvars, config, runners, closers, pool, cancelled, draining, streams, failures>>

PeerOpens(p) ==
  /\ phase \in {"running", "closing"} /\ "server" \in DOMAIN runners /\ runners["server"] = "running"
  /\ ~draining /\ p \notin streams
  /\ streams' = streams \cup {p}
  /\ UNCHANGED <<mvars, config, phase, runners, closers, pool, cancelled, draining, failures>>

PeerLeaves(p) ==
  /\ p \in streams
  /\ streams' = streams \ {p}
  /\ UNCHANGED <<mvars, config, phase, runners, closers, pool, cancelled, draining, failures>>

-----------------------------------------------------------------------------
Own == Drain \/ CloseNext \/ Exit \/ \E r \in DOMAIN runners : RunnerStops(r)

ProcessNext ==
  \/ MNext /\ UNCHANGED pvars
  \/ StartApp \/ Load \/ InitRepository \/ InitCrypto \/ InitReplication \/ InitTransport
  \/ InitFails \/ Stop \/ Own
  \/ \E r \in DOMAIN runners : RunnerFails(r)
  \/ \E p \in Peers : PeerOpens(p) \/ PeerLeaves(p)

\* A process that stops goes on stopping; nothing is asked of the peers, jobs or signals.
ProcessSpec == ProcessInit /\ [][ProcessNext]_processVars /\ WF_processVars(Own)

ProcessTypeOK ==
  /\ MTypeOK
  /\ phase \in {"init", "load", "repository", "crypto", "replication", "transport", "running",
                "closing", "exited"}
  /\ Range(runners) \subseteq {"ready", "running", "ended"}
  /\ pool \in {"none", "open", "closed"} /\ cancelled \in BOOLEAN /\ draining \in BOOLEAN
  /\ streams \subseteq Peers /\ failures \in 0..MaxFailures

\* No Consume handler is left without a database: the pool is closed after the last stream
\* has ended (closeAll goes backwards, and Close of the server waits).
PoolOutlivesStreams == pool = "closed" => streams = {}

\* A process that exits, also out of a start that failed half-way, leaves no pool open and no
\* component running (New's deferred function, closeAll, collectRunnerErrors).
ExitIsClean ==
  phase = "exited" => /\ pool # "open" /\ closers = <<>>
                      /\ \A r \in DOMAIN runners : runners[r] = "ended"

\* The polling adapter runs only if every table has the column it orders by, although one
\* check ignores the case of the source and the other does not (validateTable,
\* newChangefeedAdapter).
PollingTablesAreStamped ==
  "polling" \in DOMAIN runners => \A t \in config.tables : t.stamped

\* A process that was told to stop exits, unless a peer keeps its stream open: the server
\* waits for such a stream without limit (GracefulStop).
StopCompletes == cancelled ~> (phase = "exited" \/ streams # {})
=============================================================================
