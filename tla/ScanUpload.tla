----------------------------- MODULE ScanUpload -----------------------------
(***************************************************************************)
(* The upload of a plugin scan: the plugin-scanner command walks the disk, *)
(* leaves out what the backend excludes and posts the rest, with retries   *)
(* and a deadline (app/plugin_scanner); the backend's POST /scanner/scan   *)
(* stores it (routers/scanner_ingest.py).                                  *)
(*                                                                         *)
(* The agent does not know what became of an attempt it gave up: the       *)
(* backend may answer later, or store the scan and never be heard.  The    *)
(* backend reads exclusions and links before its transaction, so an        *)
(* administrator's decisions interleave.                                   *)
(***************************************************************************)
EXTENDS Naturals, Sequences

CONSTANTS
    Runs,        \* runs of the plugin-scanner command
    Plugins,     \* fingerprints "{vendor} {name}"
    MaxRetries,  \* client.go's maxRetries
    MaxScans     \* bound: rows of plugin_scans

ASSUME UploadAssumption == MaxRetries \in Nat \ {0} /\ MaxScans \in Nat

Attempts == 1 .. MaxRetries

VARIABLES
    run,      \* where each run of the agent is
    call,     \* the POSTs of each run, as the backend handles them
    scans,    \* plugin_scans, with the plugins of their results
    links,    \* scanner_plugin_links: plugins bound to a catalog record
    excl,     \* scanner_exclusions
    revoked   \* the agent's API key is revoked

vars == <<run, call, scans, links, excl, revoked>>
tables == <<scans, links, excl, revoked>>

-----------------------------------------------------------------------------
\* disk: what is installed where the walk can read; found: what the walk saw; kept: what is uploaded.
Run == [phase : {"idle", "walk", "filter", "post", "done", "failed"},
        expired : BOOLEAN, disk : SUBSET Plugins, found : SUBSET Plugins,
        kept : SUBSET Plugins, attempt : 0 .. MaxRetries, waiting : BOOLEAN, scan : Nat]
NoRun == [phase |-> "idle", expired |-> FALSE, disk |-> {}, found |-> {}, kept |-> {},
          attempt |-> 0, waiting |-> FALSE, scan |-> 0]

Call == [state : {"none", "sent", "authorized", "loading", "loaded", "answered", "over"},
         excl : SUBSET Plugins, links : SUBSET Plugins,
         code : {0, 200, 401, 500}, scan : Nat]
NoCall == [state |-> "none", excl |-> {}, links |-> {}, code |-> 0, scan |-> 0]

Scan == [run : Runs, attempt : Attempts, payload : SUBSET Plugins, rows : SUBSET Plugins]

\* Earlier scans, purged since, have left links and exclusions.
Init ==
    /\ run = [a \in Runs |-> NoRun]
    /\ call = [a \in Runs |-> [n \in Attempts |-> NoCall]]
    /\ scans = <<>>
    /\ links \in SUBSET Plugins
    /\ excl \in SUBSET Plugins
    /\ revoked = FALSE

-----------------------------------------------------------------------------
(***************************************************************************)
(* The agent.                                                              *)
(***************************************************************************)
Start(a, D) ==
    /\ run[a].phase = "idle"
    /\ run' = [run EXCEPT ![a] = [NoRun EXCEPT !.phase = "walk", !.disk = D]]
    /\ UNCHANGED <<call, tables>>

\* The deadline of the whole operation passes.
Expire(a) ==
    /\ run[a].phase \in {"walk", "filter", "post"} /\ ~run[a].expired
    /\ run' = [run EXCEPT ![a].expired = TRUE]
    /\ UNCHANGED <<call, tables>>

\* A walk that the deadline cuts short is not an error: the rest is not seen.
Discover(a, F) ==
    /\ run[a].phase = "walk"
    /\ F \subseteq run[a].disk
    /\ ~run[a].expired => F = run[a].disk
    /\ run' = [run EXCEPT ![a].phase = "filter", ![a].found = F]
    /\ UNCHANGED <<call, tables>>

\* GET /scanner/exclusions; when it fails everything is uploaded.
FilterExclusions(a) ==
    /\ run[a].phase = "filter"
    /\ \/ /\ ~run[a].expired
          /\ run' = [run EXCEPT ![a].phase = "post", ![a].kept = run[a].found \ excl]
       \/ run' = [run EXCEPT ![a].phase = "post", ![a].kept = run[a].found]
    /\ UNCHANGED <<call, tables>>

\* Mutants of Attempt: the deadline is not looked at; one attempt too many.
AttemptLate(a) ==
    LET n == run[a].attempt + 1 IN
    /\ run[a].phase = "post" /\ ~run[a].waiting
    /\ n <= MaxRetries
    /\ run' = [run EXCEPT ![a].attempt = n, ![a].waiting = TRUE]
    /\ call' = [call EXCEPT ![a][n].state = "sent"]
    /\ UNCHANGED tables
AttemptTooMany(a) ==
    LET n == run[a].attempt + 1 IN
    /\ run[a].phase = "post" /\ ~run[a].waiting /\ ~run[a].expired
    /\ n <= MaxRetries + 1
    /\ run' = [run EXCEPT ![a].attempt = n, ![a].waiting = TRUE]
    /\ call' = [call EXCEPT ![a][(n % MaxRetries) + 1].state = "sent"]
    /\ UNCHANGED tables

\* withRetry: the next attempt, after its backoff.
Attempt(a) ==
    LET n == run[a].attempt + 1 IN
    /\ run[a].phase = "post" /\ ~run[a].waiting /\ ~run[a].expired
    /\ n <= MaxRetries
    /\ run' = [run EXCEPT ![a].attempt = n, ![a].waiting = TRUE]
    /\ call' = [call EXCEPT ![a][n].state = "sent"]
    /\ UNCHANGED tables

\* No connection, the attempt's own timeout, the deadline, a lost answer: the
\* agent stops listening, whatever the backend is doing.
AttemptFails(a) ==
    /\ run[a].phase = "post" /\ run[a].waiting
    /\ run' = [run EXCEPT ![a].waiting = FALSE]
    /\ UNCHANGED <<call, tables>>

\* Mutant of ReceiveAnswer: a 5xx does not count as an attempt.
ReceiveAnswerUncounted(a) ==
    LET c == call[a][run[a].attempt] IN
    /\ run[a].phase = "post" /\ run[a].waiting /\ ~run[a].expired
    /\ c.state = "answered"
    /\ run' = [run EXCEPT ![a].waiting = FALSE, ![a].scan = c.scan,
                          ![a].attempt = IF c.code = 500 THEN @ - 1 ELSE @,
                          ![a].phase = CASE c.code = 200 -> "done"
                                         [] c.code = 401 -> "failed"
                                         [] c.code = 500 -> "post"]
    /\ UNCHANGED <<call, tables>>

\* 200 ends the run, so does any 4xx; a 5xx is tried again.
ReceiveAnswer(a) ==
    LET c == call[a][run[a].attempt] IN
    /\ run[a].phase = "post" /\ run[a].waiting /\ ~run[a].expired
    /\ c.state = "answered"
    /\ run' = [run EXCEPT ![a].waiting = FALSE, ![a].scan = c.scan,
                          ![a].phase = CASE c.code = 200 -> "done"
                                         [] c.code = 401 -> "failed"
                                         [] c.code = 500 -> "post"]
    /\ UNCHANGED <<call, tables>>

GiveUp(a) ==
    /\ run[a].phase = "post" /\ ~run[a].waiting
    /\ run[a].expired \/ run[a].attempt = MaxRetries
    /\ run' = [run EXCEPT ![a].phase = "failed"]
    /\ UNCHANGED <<call, tables>>

-----------------------------------------------------------------------------
(***************************************************************************)
(* The backend's handler of one POST.                                      *)
(***************************************************************************)
Answer(a, n, code, i) ==
    call' = [call EXCEPT ![a][n] = [NoCall EXCEPT !.state = "answered", !.code = code,
                                                  !.scan = i]]

\* get_scanner_auth.  The idempotency key of the request is not read.
Authorize(a, n) ==
    /\ call[a][n].state = "sent"
    /\ IF revoked THEN Answer(a, n, 401, 0)
       ELSE call' = [call EXCEPT ![a][n].state = "authorized"]
    /\ UNCHANGED <<run, tables>>

LoadExclusions(a, n) ==
    /\ call[a][n].state = "authorized"
    /\ call' = [call EXCEPT ![a][n].state = "loading", ![a][n].excl = excl]
    /\ UNCHANGED <<run, tables>>

LoadLinks(a, n) ==
    /\ call[a][n].state = "loading"
    /\ call' = [call EXCEPT ![a][n].state = "loaded", ![a][n].links = links]
    /\ UNCHANGED <<run, tables>>

\* A link comes before an exclusion.
Resolved(payload, c) == {p \in payload : p \in c.links \/ p \notin c.excl}

\* A linked plugin that the payload lacks is stored as an orphan of format
\* 'unknown', which the CHECK of plugin_scan_results.format refuses.
OrphansOf(payload, c) == c.links \ payload

\* Mutant of Ingest: the answer is sent before the commit.
IngestUncommitted(a, n) ==
    /\ call[a][n].state = "loaded"
    /\ Answer(a, n, 200, Len(scans) + 1)
    /\ UNCHANGED <<run, tables>>

\* The transaction: all rows, or none and a 500.
Ingest(a, n) ==
    LET c == call[a][n]
        payload == run[a].kept
    IN
    /\ c.state = "loaded"
    /\ \/ /\ OrphansOf(payload, c) = {}
          /\ Len(scans) < MaxScans
          /\ scans' = Append(scans, [run |-> a, attempt |-> n, payload |-> payload,
                                     rows |-> Resolved(payload, c)])
          /\ Answer(a, n, 200, Len(scans) + 1)
       \/ /\ OrphansOf(payload, c) # {}
          /\ Answer(a, n, 500, 0)
          /\ UNCHANGED scans
    /\ UNCHANGED <<run, links, excl, revoked>>

\* The backend stops, or its database does: transactions roll back and the
\* calls it was handling are never answered.
BackendCrash ==
    /\ \E a \in Runs, n \in Attempts :
          call[a][n].state \notin {"none", "answered", "over"}
    /\ call' = [a \in Runs |-> [n \in Attempts |->
                  IF call[a][n].state \in {"none", "answered"} THEN call[a][n]
                  ELSE [NoCall EXCEPT !.state = "over"]]]
    /\ UNCHANGED <<run, tables>>

-----------------------------------------------------------------------------
(***************************************************************************)
(* The administrator's decisions that an ingest reads.                     *)
(***************************************************************************)
Scanned(p) == \E i \in 1 .. Len(scans) : p \in scans[i].rows

Confirm(p) ==
    /\ Scanned(p)
    /\ links' = links \cup {p}
    /\ UNCHANGED <<run, call, scans, excl, revoked>>

Ignore(p) ==
    /\ Scanned(p)
    /\ links' = links \ {p}
    /\ excl' = excl \cup {p}
    /\ UNCHANGED <<run, call, scans, revoked>>

AddExclusion(p) ==
    /\ excl' = excl \cup {p}
    /\ UNCHANGED <<run, call, scans, links, revoked>>

RemoveExclusion(p) ==
    /\ excl' = excl \ {p}
    /\ UNCHANGED <<run, call, scans, links, revoked>>

RevokeKey ==
    /\ ~revoked
    /\ revoked' = TRUE
    /\ UNCHANGED <<run, call, scans, links, excl>>

-----------------------------------------------------------------------------
AgentStep(a) ==
    \/ \E F \in SUBSET Plugins : Discover(a, F)
    \/ FilterExclusions(a)
    \/ Attempt(a)
    \/ AttemptFails(a)
    \/ ReceiveAnswer(a)
    \/ GiveUp(a)

BackendStep ==
    \/ \E a \in Runs, n \in Attempts :
          Authorize(a, n) \/ LoadExclusions(a, n) \/ LoadLinks(a, n) \/ Ingest(a, n)
    \/ BackendCrash

AdminStep ==
    \/ \E p \in Plugins :
          Confirm(p) \/ Ignore(p) \/ AddExclusion(p) \/ RemoveExclusion(p)
    \/ RevokeKey

Next ==
    \/ \E a \in Runs : (\E D \in SUBSET Plugins : Start(a, D)) \/ Expire(a) \/ AgentStep(a)
    \/ BackendStep
    \/ AdminStep

\* The agent is one process whose waits all have timers; nothing is asked of the
\* backend, of the network or of the administrator.
Spec == Init /\ [][Next]_vars /\ \A a \in Runs : WF_vars(AgentStep(a))

-----------------------------------------------------------------------------
(***************************************************************************)
(* Properties.                                                             *)
(***************************************************************************)
\* Every variable keeps its type.
TypeOK ==
    /\ run \in [Runs -> Run]
    /\ call \in [Runs -> [Attempts -> Call]]
    /\ scans \in Seq(Scan)
    /\ links \subseteq Plugins /\ excl \subseteq Plugins
    /\ revoked \in BOOLEAN

Ids == 1 .. Len(scans)

\* A run that reports success names a scan that is stored, its own, of all that
\* was uploaded: no answer of an earlier attempt is taken for it.
DoneIsStored ==
    \A a \in Runs : run[a].phase = "done" =>
        /\ run[a].scan \in Ids
        /\ scans[run[a].scan].run = a
        /\ scans[run[a].scan].attempt = run[a].attempt
        /\ scans[run[a].scan].payload = run[a].kept

\* No scan is the upload of a walk that the deadline cut short: what a scan lacks
\* was excluded or is not on the disk.
ScansAreComplete ==
    \A i \in Ids : run[scans[i].run].found = run[scans[i].run].disk

\* An attempt is stored at most once: a run is stored again only by sending it again.
StoredOncePerAttempt ==
    \A i, j \in Ids :
        scans[i].run = scans[j].run /\ scans[i].attempt = scans[j].attempt => i = j

\* Each step of a run is one of a number that its retries set: what is left to it.
StepsLeft(r) ==
    CASE r.phase = "idle" -> 2 * MaxRetries + 5
      [] r.phase \in {"done", "failed"} -> 0
      [] OTHER -> (CASE r.phase = "walk" -> 3 [] r.phase = "filter" -> 2 [] r.phase = "post" -> 1)
                  + 2 * (MaxRetries - r.attempt)
                  + (IF r.waiting THEN 1 ELSE 0) + (IF r.expired THEN 0 ELSE 1)

RunsAdvance ==
    [][\A a \in Runs : run'[a] # run[a] => StepsLeft(run[a])' < StepsLeft(run[a])]_vars

\* A run that has started ends, whatever the backend does.
RunsEnd ==
    \A a \in Runs : run[a].phase = "walk" ~> run[a].phase \in {"done", "failed"}

=============================================================================
