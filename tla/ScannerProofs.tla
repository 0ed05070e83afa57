--------------------------- MODULE ScannerProofs ----------------------------
(***************************************************************************)
(* Proofs about what feeds the scanner's tables and what shows them.       *)
(* ScanUpload, the agent's uploads: their types, that an upload reported as *)
(* done is stored, and that only complete walks are stored.  ScanDesk, the *)
(* workbench page: its types, and that the list shown is what the backend  *)
(* would answer.                                                           *)
(***************************************************************************)
EXTENDS ScanUpload, ScanDesk, FiniteSetTheorems, TLAPS

\* A run that has made an attempt is past its walk, and the walk was complete; so
\* it is in a run that may still make one, unless the deadline has passed.
RunOK(r) ==
    /\ r.waiting => r.attempt > 0
    /\ r.attempt > 0 => r.phase \in {"post", "done", "failed"} /\ r.found = r.disk
    /\ r.phase \in {"filter", "post"} /\ ~r.expired => r.found = r.disk

\* A POST belongs to an attempt that was made, and an answer says what became of
\* that very attempt.
CallOK(a, n) ==
    LET c == call[a][n] IN
    /\ c.state # "none" => n <= run[a].attempt
    /\ c.state = "answered" =>
          /\ c.code # 0
          /\ c.code = 200 => /\ c.scan \in Ids
                             /\ scans[c.scan].run = a
                             /\ scans[c.scan].attempt = n
                             /\ scans[c.scan].payload = run[a].kept

\* A stored scan belongs to an attempt that was made.
ScanOK(i) == run[scans[i].run].attempt >= scans[i].attempt

IInv ==
    /\ TypeOK
    /\ \A a \in Runs : RunOK(run[a])
    /\ \A a \in Runs, n \in Attempts : CallOK(a, n)
    /\ \A i \in Ids : ScanOK(i)
    /\ DoneIsStored

-----------------------------------------------------------------------------
\* What the table of scans holds is a scan.
LEMMA ScanTyped ==
    ASSUME TypeOK, NEW i \in Ids
    PROVE  scans[i] \in Scan
BY DEF TypeOK, Ids

\* Only complete walks are uploaded: the attempt a scan names was made.
LEMMA CompleteWhenSound == IInv => ScansAreComplete
<1> SUFFICES ASSUME IInv, NEW i \in Ids
             PROVE  run[scans[i].run].found = run[scans[i].run].disk
  BY DEF ScansAreComplete
<1>1. scans[i].run \in Runs /\ scans[i].attempt \in Attempts
  BY ScanTyped DEF IInv, Scan
<1>2. run[scans[i].run] \in Run
  BY <1>1 DEF IInv, TypeOK
<1>3. run[scans[i].run].attempt > 0
  BY <1>1, <1>2, UploadAssumption DEF IInv, ScanOK, Attempts, Run
<1> QED BY <1>1, <1>3 DEF IInv, RunOK

-----------------------------------------------------------------------------
\* A run of which no attempt was made has no call.
LEMMA NoCallYet ==
    ASSUME IInv, NEW a \in Runs, NEW n \in Attempts, run[a].attempt = 0
    PROVE  call[a][n].state = "none"
BY UploadAssumption DEF IInv, CallOK, Attempts

\* A step of the agent: one run changes, at most the call of its attempt is sent.
LEMMA AgentKeeps ==
    ASSUME IInv, NEW a \in Runs, NEW r \in Run,
           run' = [run EXCEPT ![a] = r],
           RunOK(r), r.attempt >= run[a].attempt,
           run[a].attempt > 0 => r.kept = run[a].kept,
           r.phase = "done" => /\ r.scan \in Ids
                               /\ scans[r.scan].run = a
                               /\ scans[r.scan].attempt = r.attempt
                               /\ scans[r.scan].payload = r.kept,
           call' \in [Runs -> [Attempts -> Call]],
           \A b \in Runs, n \in Attempts :
               \/ call'[b][n] = call[b][n]
               \/ b = a /\ n = r.attempt /\ call'[b][n].state = "sent",
           UNCHANGED tables
    PROVE  IInv'
<1> USE DEF tables
<1>0. TypeOK /\ scans' = scans /\ Ids' = Ids
  BY DEF IInv, Ids
<1>1. /\ run'[a] = r
      /\ \A b \in Runs : b # a => run'[b] = run[b]
      /\ \A b \in Runs : run'[b] \in Run /\ run[b] \in Run
      /\ run' \in [Runs -> Run]
  BY <1>0 DEF TypeOK
<1>2. \A b \in Runs : run'[b].attempt >= run[b].attempt
  BY <1>1 DEF Run
<1>3. TypeOK'
  BY <1>0, <1>1 DEF TypeOK
<1>4. ASSUME NEW b \in Runs PROVE RunOK(run'[b])
  BY <1>1 DEF IInv
<1>5. ASSUME NEW b \in Runs, NEW n \in Attempts PROVE CallOK(b, n)'
  <2>0. n \in Nat /\ n > 0
    BY UploadAssumption DEF Attempts
  <2>1. CASE call'[b][n] = call[b][n]
    <3>1. call[b][n].state # "none" => n <= run'[b].attempt
      BY <1>1, <1>2, <2>0 DEF IInv, CallOK, Run
    <3>2. call[b][n].state # "none" => run'[b].kept = run[b].kept
      BY <1>1, <2>0 DEF IInv, CallOK, Run
    <3>3. CallOK(b, n)
      BY DEF IInv
    <3> QED BY <2>1, <3>1, <3>2, <3>3, <1>0 DEF CallOK
  <2>2. CASE b = a /\ n = r.attempt /\ call'[b][n].state = "sent"
    BY <2>0, <2>2, <1>1 DEF CallOK
  <2> QED BY <2>1, <2>2
<1>6. ASSUME NEW i \in Ids PROVE ScanOK(i)'
  <2>1. scans[i].run \in Runs /\ scans[i].attempt \in Nat
    BY <1>0, ScanTyped, UploadAssumption DEF Scan, Attempts
  <2>2. ScanOK(i)
    BY DEF IInv
  <2> QED BY <2>1, <2>2, <1>0, <1>1, <1>2 DEF ScanOK, Run
<1>7. DoneIsStored'
  BY <1>0, <1>1 DEF IInv, DoneIsStored
<1> QED BY <1>0, <1>3, <1>4, <1>5, <1>6, <1>7 DEF IInv

\* A step of the backend that stores nothing: a call goes on, is refused, fails
\* or is lost.
LEMMA BackendKeeps ==
    ASSUME IInv,
           call' \in [Runs -> [Attempts -> Call]],
           \A b \in Runs, n \in Attempts :
               \/ call'[b][n] = call[b][n]
               \/ /\ call[b][n].state # "none"
                  /\ call'[b][n].state = "answered" => call'[b][n].code \in {401, 500},
           UNCHANGED run, UNCHANGED tables
    PROVE  IInv'
<1> USE DEF tables
<1>1. TypeOK /\ Ids' = Ids
  BY DEF IInv, Ids
<1>2. TypeOK'
  BY <1>1 DEF TypeOK
<1>3. ASSUME NEW b \in Runs, NEW n \in Attempts PROVE CallOK(b, n)'
  <2>1. CallOK(b, n)
    BY DEF IInv
  <2>2. CASE call'[b][n] = call[b][n]
    BY <2>1, <2>2, <1>1 DEF CallOK
  <2>3. CASE /\ call[b][n].state # "none"
             /\ call'[b][n].state = "answered" => call'[b][n].code \in {401, 500}
    BY <2>1, <2>3 DEF CallOK
  <2> QED BY <2>2, <2>3
<1>4. (\A a \in Runs : RunOK(run[a]))' /\ (\A i \in Ids : ScanOK(i))' /\ DoneIsStored'
  BY <1>1 DEF IInv, ScanOK, DoneIsStored
<1> QED BY <1>2, <1>3, <1>4 DEF IInv

\* A step of the administrator, and a stuttering step.
LEMMA AdminKeeps ==
    ASSUME IInv, UNCHANGED <<run, call, scans>>,
           links' \subseteq Plugins, excl' \subseteq Plugins, revoked' \in BOOLEAN
    PROVE  IInv'
<1>1. TypeOK' /\ Ids' = Ids
  BY DEF IInv, TypeOK, Ids
<1>2. ASSUME NEW b \in Runs, NEW n \in Attempts PROVE CallOK(b, n)'
  BY <1>1 DEF IInv, CallOK
<1>3. (\A a \in Runs : RunOK(run[a]))' /\ (\A i \in Ids : ScanOK(i))' /\ DoneIsStored'
  BY <1>1 DEF IInv, ScanOK, DoneIsStored
<1> QED BY <1>1, <1>2, <1>3 DEF IInv

-----------------------------------------------------------------------------
LEMMA InitSound == Init => IInv
<1> SUFFICES ASSUME Init PROVE IInv
  OBVIOUS
<1>1. NoRun \in Run /\ NoCall \in Call
  BY UploadAssumption DEF NoRun, Run, NoCall, Call
<1>2. scans \in Seq(Scan) /\ Ids = {}
  BY DEF Init, Ids
<1>3. TypeOK
  BY <1>1, <1>2 DEF Init, TypeOK
<1>4. \A a \in Runs : run[a] = NoRun /\ \A n \in Attempts : call[a][n] = NoCall
  BY DEF Init
<1> QED BY <1>2, <1>3, <1>4 DEF IInv, RunOK, CallOK, NoRun, NoCall, DoneIsStored

-----------------------------------------------------------------------------
(***************************************************************************)
(* The agent's steps.                                                      *)
(***************************************************************************)
LEMMA RunTyped ==
    ASSUME IInv, NEW a \in Runs
    PROVE  /\ run[a] \in Run /\ RunOK(run[a])
           /\ run \in [Runs -> Run] /\ call \in [Runs -> [Attempts -> Call]]
BY DEF IInv, TypeOK

LEMMA StartSound ==
    ASSUME IInv, NEW a \in Runs, NEW D \in SUBSET Plugins, Start(a, D)
    PROVE  IInv'
<1> DEFINE r == [NoRun EXCEPT !.phase = "walk", !.disk = D]
<1>0. NoRun \in Run /\ NoRun.attempt = 0 /\ ~NoRun.waiting
  BY UploadAssumption DEF NoRun, Run
<1>1. r \in Run /\ r.attempt = 0 /\ ~r.waiting /\ r.phase = "walk"
  BY <1>0 DEF Run
<1>2. run[a].attempt = 0
  BY RunTyped DEF Start, RunOK, Run
<1>3. run' = [run EXCEPT ![a] = r] /\ call' = call /\ UNCHANGED tables
  BY DEF Start
<1> HIDE DEF r
<1>4. RunOK(r)
  BY <1>1 DEF RunOK
<1>5. r.attempt >= run[a].attempt /\ (run[a].attempt > 0 => r.kept = run[a].kept)
  BY <1>1, <1>2
<1> QED BY <1>1, <1>3, <1>4, <1>5, RunTyped, AgentKeeps

LEMMA ExpireSound ==
    ASSUME IInv, NEW a \in Runs, Expire(a)
    PROVE  IInv'
<1> DEFINE r == [run[a] EXCEPT !.expired = TRUE]
<1>1. run[a] \in Run /\ RunOK(run[a]) /\ run[a].phase # "done"
  BY RunTyped DEF Expire
<1>2. /\ r \in Run /\ r.waiting = run[a].waiting /\ r.attempt = run[a].attempt
      /\ r.phase = run[a].phase /\ r.expired
      /\ r.found = run[a].found /\ r.disk = run[a].disk /\ r.kept = run[a].kept
  BY <1>1 DEF Run
<1>3. run' = [run EXCEPT ![a] = r] /\ call' = call /\ UNCHANGED tables
  BY DEF Expire
<1> HIDE DEF r
<1>4. RunOK(r) /\ r.attempt >= run[a].attempt
  BY <1>1, <1>2 DEF RunOK, Run
<1> QED BY <1>1, <1>2, <1>3, <1>4, RunTyped, AgentKeeps

LEMMA DiscoverSound ==
    ASSUME IInv, NEW a \in Runs, NEW F \in SUBSET Plugins, Discover(a, F)
    PROVE  IInv'
<1> DEFINE r == [run[a] EXCEPT !.phase = "filter", !.found = F]
<1>1. run[a] \in Run /\ RunOK(run[a]) /\ run[a].phase = "walk"
  BY RunTyped DEF Discover
<1>2. run[a].attempt = 0
  BY <1>1 DEF RunOK, Run
<1>3. ~run[a].expired => F = run[a].disk
  BY DEF Discover
<1>4. /\ r \in Run /\ r.attempt = 0 /\ r.phase = "filter" /\ r.found = F
      /\ r.disk = run[a].disk /\ r.expired = run[a].expired /\ r.waiting = run[a].waiting
  BY <1>1, <1>2 DEF Run
<1>5. run' = [run EXCEPT ![a] = r] /\ call' = call /\ UNCHANGED tables
  BY DEF Discover
<1> HIDE DEF r
<1>6. RunOK(r)
  BY <1>1, <1>2, <1>3, <1>4 DEF RunOK
<1>7. r.attempt >= run[a].attempt /\ (run[a].attempt > 0 => r.kept = run[a].kept)
  BY <1>2, <1>4
<1> QED BY <1>4, <1>5, <1>6, <1>7, RunTyped, AgentKeeps

LEMMA FilterSound ==
    ASSUME IInv, NEW a \in Runs, FilterExclusions(a)
    PROVE  IInv'
<1>1. run[a] \in Run /\ RunOK(run[a]) /\ run[a].phase = "filter"
  BY RunTyped DEF FilterExclusions
<1>2. run[a].attempt = 0
  BY <1>1 DEF RunOK, Run
<1>3. run[a].found \in SUBSET Plugins /\ run[a].found \ excl \in SUBSET Plugins
  BY <1>1 DEF Run
<1>4. PICK K \in SUBSET Plugins :
         run' = [run EXCEPT ![a].phase = "post", ![a].kept = K]
  BY <1>3 DEF FilterExclusions
<1> DEFINE r == [run[a] EXCEPT !.phase = "post", !.kept = K]
<1>6. run' = [run EXCEPT ![a] = r]
  BY <1>4
<1>7. /\ r \in Run /\ r.attempt = 0 /\ r.phase = "post" /\ r.found = run[a].found
      /\ r.disk = run[a].disk /\ r.expired = run[a].expired /\ r.waiting = run[a].waiting
  BY <1>1, <1>2 DEF Run
<1>5. call' = call /\ UNCHANGED tables
  BY DEF FilterExclusions
<1> HIDE DEF r
<1>8. RunOK(r)
  BY <1>1, <1>2, <1>7 DEF RunOK
<1>9. r.attempt >= run[a].attempt /\ (run[a].attempt > 0 => r.kept = run[a].kept)
  BY <1>2, <1>7
<1> QED BY <1>5, <1>6, <1>7, <1>8, <1>9, RunTyped, AgentKeeps

LEMMA AttemptSound ==
    ASSUME IInv, NEW a \in Runs, Attempt(a)
    PROVE  IInv'
<1> DEFINE n == run[a].attempt + 1
           r == [run[a] EXCEPT !.attempt = n, !.waiting = TRUE]
<1>1. /\ run[a] \in Run /\ RunOK(run[a])
      /\ run[a].phase = "post" /\ ~run[a].expired /\ n <= MaxRetries
  BY RunTyped DEF Attempt
<1>2. n \in Attempts /\ n \in 0 .. MaxRetries /\ n >= run[a].attempt /\ n > 0
  BY <1>1, UploadAssumption DEF Run, Attempts
<1>3. r \in Run /\ RunOK(r) /\ r.attempt = n /\ r.phase = "post" /\ r.kept = run[a].kept
  BY <1>1, <1>2 DEF Run, RunOK
<1>4. /\ run' = [run EXCEPT ![a] = r] /\ UNCHANGED tables
      /\ call' = [call EXCEPT ![a][n].state = "sent"]
  BY DEF Attempt
<1> HIDE DEF n, r
<1>0. call[a][n] \in Call
  BY <1>2, RunTyped
<1>5. [call[a][n] EXCEPT !.state = "sent"] \in Call
  BY <1>0 DEF Call
<1>6. call' \in [Runs -> [Attempts -> Call]]
  BY <1>4, <1>5, <1>2, RunTyped
<1>7. \A b \in Runs, m \in Attempts :
         \/ call'[b][m] = call[b][m]
         \/ b = a /\ m = r.attempt /\ call'[b][m].state = "sent"
  BY <1>4, <1>5, <1>2, <1>3, RunTyped DEF Call
<1>8. r.attempt >= run[a].attempt /\ r.phase # "done"
  BY <1>2, <1>3
<1> QED BY <1>3, <1>4, <1>6, <1>7, <1>8, AgentKeeps

LEMMA AttemptFailsSound ==
    ASSUME IInv, NEW a \in Runs, AttemptFails(a)
    PROVE  IInv'
<1> DEFINE r == [run[a] EXCEPT !.waiting = FALSE]
<1>1. run[a] \in Run /\ RunOK(run[a]) /\ run[a].phase = "post"
  BY RunTyped DEF AttemptFails
<1>2. /\ r \in Run /\ ~r.waiting /\ r.attempt = run[a].attempt /\ r.phase = "post"
      /\ r.found = run[a].found /\ r.disk = run[a].disk /\ r.expired = run[a].expired
      /\ r.kept = run[a].kept
  BY <1>1 DEF Run
<1>3. run' = [run EXCEPT ![a] = r] /\ call' = call /\ UNCHANGED tables
  BY DEF AttemptFails
<1> HIDE DEF r
<1>4. RunOK(r) /\ r.attempt >= run[a].attempt
  BY <1>1, <1>2 DEF RunOK, Run
<1> QED BY <1>2, <1>3, <1>4, RunTyped, AgentKeeps

LEMMA GiveUpSound ==
    ASSUME IInv, NEW a \in Runs, GiveUp(a)
    PROVE  IInv'
<1> DEFINE r == [run[a] EXCEPT !.phase = "failed"]
<1>1. run[a] \in Run /\ RunOK(run[a])
  BY RunTyped
<1>2. r \in Run /\ RunOK(r) /\ r.attempt >= run[a].attempt /\ r.phase # "done"
      /\ r.kept = run[a].kept
  BY <1>1 DEF Run, RunOK
<1>3. run' = [run EXCEPT ![a] = r] /\ call' = call /\ UNCHANGED tables
  BY DEF GiveUp
<1> HIDE DEF r
<1> QED BY <1>2, <1>3, RunTyped, AgentKeeps

\* The answer read is that of the attempt that waits: its scan is stored.
LEMMA ReceiveAnswerSound ==
    ASSUME IInv, NEW a \in Runs, ReceiveAnswer(a)
    PROVE  IInv'
<1> DEFINE n == run[a].attempt
           c == call[a][n]
           p == CASE c.code = 200 -> "done" [] c.code = 401 -> "failed" [] c.code = 500 -> "post"
           r == [run[a] EXCEPT !.waiting = FALSE, !.scan = c.scan, !.phase = p]
<1>1. /\ run[a] \in Run /\ RunOK(run[a]) /\ run[a].waiting
      /\ c.state = "answered" /\ run[a].phase = "post" /\ ~run[a].expired
  BY RunTyped DEF ReceiveAnswer
<1>2. n \in Attempts /\ n > 0
  BY <1>1, UploadAssumption DEF RunOK, Run, Attempts
<1>3. c \in Call /\ CallOK(a, n)
  BY <1>2, RunTyped DEF IInv
<1>4. c.code \in {200, 401, 500}
  BY <1>1, <1>3 DEF CallOK, Call
<1>5. p \in {"done", "failed", "post"} /\ (p = "done" => c.code = 200)
  BY <1>4
<1>6. /\ run' = [run EXCEPT ![a].waiting = FALSE, ![a].scan = c.scan, ![a].phase = p]
      /\ call' = call /\ UNCHANGED tables
  BY DEF ReceiveAnswer
<1> HIDE DEF p
<1>7. /\ r \in Run /\ r.attempt = n /\ r.kept = run[a].kept
      /\ r.scan = c.scan /\ r.phase = p /\ ~r.waiting
      /\ r.found = run[a].found /\ r.disk = run[a].disk
  BY <1>1, <1>2, <1>3, <1>5 DEF Run, Call
<1>10. run' = [run EXCEPT ![a] = r]
  BY <1>6
<1>11. RunOK(r)
  BY <1>1, <1>2, <1>5, <1>7 DEF RunOK
<1>8. r.attempt >= run[a].attempt
  BY <1>7, <1>1 DEF Run
<1>9. p = "done" => /\ c.scan \in Ids
                    /\ scans[c.scan].run = a
                    /\ scans[c.scan].attempt = n
                    /\ scans[c.scan].payload = run[a].kept
  BY <1>1, <1>3, <1>5 DEF CallOK
<1> HIDE DEF r, c, n
<1> QED BY <1>6, <1>7, <1>8, <1>9, <1>10, <1>11, RunTyped, AgentKeeps

-----------------------------------------------------------------------------
(***************************************************************************)
(* The backend's steps.                                                    *)
(***************************************************************************)
\* What a call becomes, with the others as they were.
LEMMA OneCall ==
    ASSUME IInv, NEW a \in Runs, NEW n \in Attempts, NEW c \in Call,
           call[a][n].state # "none",
           call' = [call EXCEPT ![a][n] = c],
           c.state = "answered" => c.code \in {401, 500},
           UNCHANGED run, UNCHANGED tables
    PROVE  IInv'
<1>1. call' \in [Runs -> [Attempts -> Call]]
  BY RunTyped
<1>2. \A b \in Runs, m \in Attempts :
         \/ call'[b][m] = call[b][m]
         \/ b = a /\ m = n /\ call'[b][m] = c
  BY RunTyped
<1> QED BY <1>1, <1>2, BackendKeeps

Returned(code, i) ==
    [NoCall EXCEPT !.state = "answered", !.code = code, !.scan = i]

LEMMA AnswerTyped ==
    ASSUME NEW code \in {0, 200, 401, 500}, NEW i \in Nat, NEW a \in Runs, NEW n \in Attempts,
           Answer(a, n, code, i)
    PROVE  /\ Returned(code, i) \in Call
           /\ Returned(code, i).code = code
           /\ Returned(code, i).scan = i
           /\ Returned(code, i).state = "answered"
           /\ call' = [call EXCEPT ![a][n] = Returned(code, i)]
<1>1. NoCall \in Call
  BY DEF NoCall, Call
<1>2. Returned(code, i) \in Call
  <2> DEFINE b == [NoCall EXCEPT !.state = "answered"]
             c == [b EXCEPT !.code = code]
  <2>1. b \in Call
    BY <1>1 DEF Call
  <2>2. Returned(code, i) = [c EXCEPT !.scan = i]
    BY DEF Returned
  <2> HIDE DEF b
  <2>3. c \in Call
    BY <2>1 DEF Call
  <2> HIDE DEF c
  <2> QED BY <2>2, <2>3 DEF Call
<1>3. /\ Returned(code, i).code = code
      /\ Returned(code, i).scan = i
      /\ Returned(code, i).state = "answered"
  BY <1>1 DEF Returned, Call
<1> QED BY <1>2, <1>3 DEF Returned, Answer

LEMMA AuthorizeSound ==
    ASSUME IInv, NEW a \in Runs, NEW n \in Attempts, Authorize(a, n)
    PROVE  IInv'
<1>1. call[a][n] \in Call /\ call[a][n].state = "sent" /\ UNCHANGED run /\ UNCHANGED tables
  BY RunTyped DEF Authorize
<1>2. CASE revoked
  <2>1. Answer(a, n, 401, 0)
    BY <1>2 DEF Authorize
  <2> QED BY <1>1, <2>1, AnswerTyped, OneCall
<1>3. CASE ~revoked
  <2> DEFINE c == [call[a][n] EXCEPT !.state = "authorized"]
  <2>1. c \in Call /\ c.state = "authorized"
    BY <1>1 DEF Call
  <2>2. call' = [call EXCEPT ![a][n] = c]
    BY <1>3, RunTyped DEF Authorize
  <2> HIDE DEF c
  <2> QED BY <1>1, <2>1, <2>2, OneCall
<1> QED BY <1>2, <1>3

LEMMA LoadExclusionsSound ==
    ASSUME IInv, NEW a \in Runs, NEW n \in Attempts, LoadExclusions(a, n)
    PROVE  IInv'
<1> DEFINE c == [call[a][n] EXCEPT !.state = "loading", !.excl = excl]
<1>1. /\ call[a][n] \in Call /\ call[a][n].state = "authorized"
      /\ UNCHANGED run /\ UNCHANGED tables
  BY RunTyped DEF LoadExclusions
<1>2. c \in Call /\ c.state = "loading"
  BY <1>1 DEF Call, IInv, TypeOK
<1>3. call' = [call EXCEPT ![a][n] = c]
  BY RunTyped DEF LoadExclusions
<1> HIDE DEF c
<1> QED BY <1>1, <1>2, <1>3, OneCall

LEMMA LoadLinksSound ==
    ASSUME IInv, NEW a \in Runs, NEW n \in Attempts, LoadLinks(a, n)
    PROVE  IInv'
<1> DEFINE c == [call[a][n] EXCEPT !.state = "loaded", !.links = links]
<1>1. /\ call[a][n] \in Call /\ call[a][n].state = "loading"
      /\ UNCHANGED run /\ UNCHANGED tables
  BY RunTyped DEF LoadLinks
<1>2. c \in Call /\ c.state = "loaded"
  BY <1>1 DEF Call, IInv, TypeOK
<1>3. call' = [call EXCEPT ![a][n] = c]
  BY RunTyped DEF LoadLinks
<1> HIDE DEF c
<1> QED BY <1>1, <1>2, <1>3, OneCall

LEMMA CrashSound ==
    ASSUME IInv, BackendCrash
    PROVE  IInv'
<1>1. [NoCall EXCEPT !.state = "over"] \in Call /\ [NoCall EXCEPT !.state = "over"].state = "over"
  BY DEF NoCall, Call
<1>2. /\ UNCHANGED run /\ UNCHANGED tables
      /\ call' = [a \in Runs |-> [n \in Attempts |->
                    IF call[a][n].state \in {"none", "answered"} THEN call[a][n]
                    ELSE [NoCall EXCEPT !.state = "over"]]]
  BY DEF BackendCrash
<1>3. call' \in [Runs -> [Attempts -> Call]]
  BY <1>1, <1>2 DEF IInv, TypeOK
<1>4. ASSUME NEW b \in Runs, NEW n \in Attempts
      PROVE  \/ call'[b][n] = call[b][n]
             \/ call[b][n].state # "none" /\ call'[b][n].state # "answered"
  BY <1>1, <1>2
<1> QED BY <1>2, <1>3, <1>4, BackendKeeps

\* The scan that an ingest stores is the last: those before it keep their numbers.
LEMMA Appended ==
    ASSUME TypeOK, NEW s \in Scan, scans' = Append(scans, s)
    PROVE  /\ scans' \in Seq(Scan)
           /\ Ids' = Ids \cup {Len(scans) + 1}
           /\ Len(scans) + 1 \in Nat
           /\ \A i \in Ids : scans'[i] = scans[i]
           /\ scans'[Len(scans) + 1] = s
BY DEF TypeOK, Ids

LEMMA IngestSound ==
    ASSUME IInv, NEW a \in Runs, NEW n \in Attempts, Ingest(a, n)
    PROVE  IInv'
<1> DEFINE c == call[a][n]
           s == [run |-> a, attempt |-> n, payload |-> run[a].kept,
                 rows |-> Resolved(run[a].kept, c)]
           id == Len(scans) + 1
           done == Returned(200, id)
<1>1. /\ TypeOK /\ c \in Call /\ c.state = "loaded" /\ run[a] \in Run
      /\ UNCHANGED <<run, links, excl, revoked>>
  BY RunTyped DEF Ingest, IInv
<1>2. CASE Answer(a, n, 500, 0) /\ UNCHANGED scans
  BY <1>1, <1>2, AnswerTyped, OneCall DEF tables
<1>3. CASE scans' = Append(scans, s) /\ Answer(a, n, 200, id)
  <2>1. s \in Scan /\ s.run = a /\ s.attempt = n /\ s.payload = run[a].kept
    BY <1>1 DEF Scan, Run, Resolved
  <2> HIDE DEF s
  <2>2. /\ scans' \in Seq(Scan) /\ Ids' = Ids \cup {id} /\ id \in Nat
        /\ \A i \in Ids : scans'[i] = scans[i]
        /\ scans'[id] = s
    BY <1>1, <1>3, <2>1, Appended
  <2> HIDE DEF id
  <2>3. done \in Call /\ done.code = 200 /\ done.scan = id
    BY <1>3, <2>2, AnswerTyped
  <2>4. call' = [call EXCEPT ![a][n] = done]
    BY <1>3, <2>2, AnswerTyped
  <2> HIDE DEF done
  <2>5. call' \in [Runs -> [Attempts -> Call]]
    BY <2>3, <2>4, RunTyped
  <2>6. TypeOK'
    BY <1>1, <2>2, <2>5 DEF TypeOK
  <2>7. ASSUME NEW b \in Runs PROVE RunOK(run'[b])
    BY <1>1 DEF IInv
  <2>8. n <= run[a].attempt
    BY <1>1 DEF IInv, CallOK
  <2>9. ASSUME NEW b \in Runs, NEW m \in Attempts PROVE CallOK(b, m)'
    <3>1. CASE b = a /\ m = n
      <4>1. call'[b][m] = done
        BY <3>1, <2>4, RunTyped
      <4> QED BY <3>1, <4>1, <2>1, <2>2, <2>3, <2>8, <1>1 DEF CallOK
    <3>2. CASE ~(b = a /\ m = n)
      <4>1. call'[b][m] = call[b][m]
        BY <3>2, <2>4, RunTyped
      <4>2. CallOK(b, m)
        BY DEF IInv
      <4> QED BY <4>1, <4>2, <2>2, <1>1 DEF CallOK
    <3> QED BY <3>1, <3>2
  <2>10. ASSUME NEW i \in Ids' PROVE ScanOK(i)'
    <3>1. CASE i = id
      BY <3>1, <2>1, <2>2, <2>8, <1>1 DEF ScanOK, Run, Attempts
    <3>2. CASE i \in Ids
      BY <3>2, <2>2, <1>1 DEF IInv, ScanOK
    <3> QED BY <3>1, <3>2, <2>2
  <2>11. DoneIsStored'
    BY <1>1, <2>2 DEF IInv, DoneIsStored
  <2> QED BY <2>6, <2>7, <2>9, <2>10, <2>11 DEF IInv
<1> QED BY <1>2, <1>3 DEF Ingest

-----------------------------------------------------------------------------
LEMMA StepSound == IInv /\ [Next]_vars => IInv'
<1> SUFFICES ASSUME IInv, [Next]_vars PROVE IInv'
  OBVIOUS
<1>1. ASSUME NEW a \in Runs, AgentStep(a) PROVE IInv'
  BY <1>1, DiscoverSound, FilterSound, AttemptSound, AttemptFailsSound,
     ReceiveAnswerSound, GiveUpSound DEF AgentStep
<1>2. ASSUME BackendStep PROVE IInv'
  BY <1>2, AuthorizeSound, LoadExclusionsSound, LoadLinksSound, IngestSound, CrashSound
     DEF BackendStep
<1>3. ASSUME AdminStep PROVE IInv'
  BY <1>3, AdminKeeps
     DEF AdminStep, Confirm, Ignore, AddExclusion, RemoveExclusion, RevokeKey, IInv, TypeOK
<1>4. CASE UNCHANGED vars
  BY <1>4, AdminKeeps DEF vars, IInv, TypeOK
<1> QED BY <1>1, <1>2, <1>3, <1>4, StartSound, ExpireSound DEF Next

\* The inductive invariant holds of every behaviour.
THEOREM SoundAlways == Spec => []IInv
BY InitSound, StepSound, PTL DEF Spec

\* Every variable keeps its type, for any runs, plugins and number of retries.
THEOREM TypeCorrect == Spec => []TypeOK
<1>1. IInv => TypeOK
  BY DEF IInv
<1> QED BY <1>1, SoundAlways, PTL

\* A run that reports success (client.go: UploadResult of a 200) names a scan that
\* the backend stored, of this attempt, with all that was uploaded.
THEOREM DoneStored == Spec => []DoneIsStored
<1>1. IInv => DoneIsStored
  BY DEF IInv
<1> QED BY <1>1, SoundAlways, PTL

\* No scan that is stored comes from a walk that the deadline cut short.
THEOREM CompleteStored == Spec => []ScansAreComplete
BY CompleteWhenSound, SoundAlways, PTL

-----------------------------------------------------------------------------
(***************************************************************************)
(* Attempts: what is stored of one, and how many there are.                *)
(***************************************************************************)
\* The call that stored a scan is answered with its number, and calls answered stay so.
Acknowledged ==
    \A i \in Ids : LET c == call[scans[i].run][scans[i].attempt]
                   IN  c.state = "answered" /\ c.scan = i

LEMMA StoredStays ==
    ASSUME IInv, Acknowledged, [Next]_vars
    PROVE  Acknowledged'
<1>0. TypeOK /\ call \in [Runs -> [Attempts -> Call]]
  BY DEF IInv, TypeOK
<1>1. \A i \in Ids : scans[i].run \in Runs /\ scans[i].attempt \in Attempts
  BY <1>0, ScanTyped DEF Scan
<1>2. ASSUME scans' = scans,
             \A b \in Runs, m \in Attempts :
                 call[b][m].state = "answered" /\ (\E i \in Ids : scans[i].run = b /\ scans[i].attempt = m)
                     => call'[b][m] = call[b][m]
      PROVE  Acknowledged'
  BY <1>1, <1>2 DEF Acknowledged, Ids
<1>3. ASSUME NEW a \in Runs, Attempt(a) PROVE Acknowledged'
  <2> DEFINE n == run[a].attempt + 1
  <2>1. /\ call' = [call EXCEPT ![a][n].state = "sent"] /\ scans' = scans
        /\ run[a] \in Run
    BY <1>3, RunTyped DEF Attempt, tables
  <2>2. \A i \in Ids : ~(scans[i].run = a /\ scans[i].attempt = n)
    BY <1>1, <2>1, UploadAssumption DEF IInv, ScanOK, Run, Attempts
  <2> HIDE DEF n
  <2>3. \A b \in Runs, m \in Attempts : ~(b = a /\ m = n) => call'[b][m] = call[b][m]
    BY <1>0, <2>1
  <2> QED BY <1>2, <2>1, <2>2, <2>3
<1>4. ASSUME NEW a \in Runs, NEW n \in Attempts, NEW c, scans' = scans,
             call[a][n].state # "answered", call' = [call EXCEPT ![a][n] = c]
      PROVE  Acknowledged'
  BY <1>0, <1>2, <1>4
<1>5. ASSUME NEW a \in Runs, NEW n \in Attempts,
             Authorize(a, n) \/ LoadExclusions(a, n) \/ LoadLinks(a, n)
      PROVE  Acknowledged'
  <2>1. scans' = scans /\ call[a][n].state # "answered"
    BY <1>5 DEF Authorize, LoadExclusions, LoadLinks, tables
  <2>2. \E c : call' = [call EXCEPT ![a][n] = c]
    <3>1. CASE Answer(a, n, 401, 0)
      BY <3>1 DEF Answer
    <3>2. CASE call' = [call EXCEPT ![a][n].state = "authorized"]
      BY <3>2
    <3>3. CASE LoadExclusions(a, n)
      BY <3>3 DEF LoadExclusions
    <3>4. CASE LoadLinks(a, n)
      BY <3>4 DEF LoadLinks
    <3> QED BY <1>5, <3>1, <3>2, <3>3, <3>4 DEF Authorize
  <2> QED BY <1>4, <2>1, <2>2
<1>6. ASSUME NEW a \in Runs, NEW n \in Attempts, Ingest(a, n) PROVE Acknowledged'
  <2> DEFINE s == [run |-> a, attempt |-> n, payload |-> run[a].kept,
                   rows |-> Resolved(run[a].kept, call[a][n])]
             id == Len(scans) + 1
  <2>0. call[a][n].state = "loaded" /\ call[a][n] \in Call /\ run[a] \in Run
    BY <1>0, <1>6, RunTyped DEF Ingest
  <2>1. CASE Answer(a, n, 500, 0) /\ UNCHANGED scans
    <3>1. \E c : call' = [call EXCEPT ![a][n] = c]
      BY <2>1 DEF Answer
    <3> QED BY <1>4, <2>0, <2>1, <3>1
  <2>2. CASE scans' = Append(scans, s) /\ Answer(a, n, 200, id)
    <3>1. s \in Scan /\ s.run = a /\ s.attempt = n
      BY <2>0 DEF Scan, Run, Resolved
    <3> HIDE DEF s
    <3>2. /\ Ids' = Ids \cup {id} /\ id \in Nat /\ scans'[id] = s
          /\ \A i \in Ids : scans'[i] = scans[i]
      BY <1>0, <2>2, <3>1, Appended
    <3> HIDE DEF id
    <3>3. /\ call' = [call EXCEPT ![a][n] = Returned(200, id)]
          /\ Returned(200, id).state = "answered" /\ Returned(200, id).scan = id
      BY <2>2, <3>2, AnswerTyped
    <3>4. call'[a][n].state = "answered" /\ call'[a][n].scan = id
      BY <1>0, <3>3
    <3>5. ASSUME NEW i \in Ids
          PROVE  call'[scans[i].run][scans[i].attempt] = call[scans[i].run][scans[i].attempt]
      <4>1. ~(scans[i].run = a /\ scans[i].attempt = n)
        BY <2>0 DEF Acknowledged
      <4> QED BY <1>0, <1>1, <3>3, <4>1
    <3> QED BY <3>1, <3>2, <3>4, <3>5 DEF Acknowledged
  <2> QED BY <1>6, <2>1, <2>2 DEF Ingest
<1>7. ASSUME BackendCrash PROVE Acknowledged'
  <2>1. scans' = scans
    BY <1>7 DEF BackendCrash, tables
  <2>2. \A b \in Runs, m \in Attempts :
           call[b][m].state = "answered" => call'[b][m] = call[b][m]
    BY <1>7 DEF BackendCrash
  <2> QED BY <1>2, <2>1, <2>2
<1>8. ASSUME UNCHANGED <<call, scans>> PROVE Acknowledged'
  BY <1>2, <1>8
<1>9. \/ UNCHANGED <<call, scans>>
      \/ \E a \in Runs : Attempt(a)
      \/ \E a \in Runs, n \in Attempts :
            Authorize(a, n) \/ LoadExclusions(a, n) \/ LoadLinks(a, n) \/ Ingest(a, n)
      \/ BackendCrash
  BY DEF Next, vars, AgentStep, BackendStep, AdminStep, tables, Start, Expire, Discover,
     FilterExclusions, AttemptFails, ReceiveAnswer, GiveUp, Confirm, Ignore,
     AddExclusion, RemoveExclusion, RevokeKey
<1> QED BY <1>3, <1>5, <1>6, <1>7, <1>8, <1>9

\* The retries of client.go carry an idempotency key that the backend does not read.
\* Even so no attempt is stored twice, so that a run leaves at most MaxRetries scans.
THEOREM OncePerAttempt == Spec => []StoredOncePerAttempt
<1>1. Init => Acknowledged
  BY DEF Init, Acknowledged, Ids
<1>2. Acknowledged => StoredOncePerAttempt
  BY DEF Acknowledged, StoredOncePerAttempt
<1> QED BY <1>1, <1>2, StoredStays, SoundAlways, PTL DEF Spec

\* What is left to a run is a number.
LEMMA LeftTyped ==
    ASSUME NEW r \in Run
    PROVE  StepsLeft(r) \in Nat
BY UploadAssumption DEF Run, StepsLeft

\* A step of one run: the others have as much left as before.
LEMMA OneAdvances ==
    ASSUME TypeOK, NEW a \in Runs, NEW r, run' = [run EXCEPT ![a] = r],
           StepsLeft(r) < StepsLeft(run[a])
    PROVE  \A b \in Runs : run'[b] # run[b] => StepsLeft(run[b])' < StepsLeft(run[b])
<1>1. \A b \in Runs : run'[b] = IF b = a THEN r ELSE run[b]
  BY DEF TypeOK
<1>2. \A b \in Runs : StepsLeft(run[b])' = StepsLeft(run'[b])
  BY DEF StepsLeft
<1> QED BY <1>1, <1>2

\* A run takes at most 2 * MaxRetries + 5 steps (withRetry counts its attempts, each
\* of which is waited for once): what is left to it is a number, and every step makes
\* it less.
THEOREM RunsAreBounded == Spec => RunsAdvance /\ [](\A a \in Runs : StepsLeft(run[a]) \in Nat)
<1> DEFINE Less == \A a \in Runs : run'[a] # run[a] => StepsLeft(run[a])' < StepsLeft(run[a])
<1>1. ASSUME IInv, [Next]_vars PROVE Less
  <2>0. TypeOK
    BY <1>1 DEF IInv
  <2>1. ASSUME NEW a \in Runs, NEW D \in SUBSET Plugins, Start(a, D) PROVE Less
    <3> DEFINE r == [NoRun EXCEPT !.phase = "walk", !.disk = D]
    <3>1. StepsLeft(r) < StepsLeft(run[a])
      BY <2>1, UploadAssumption DEF Start, NoRun, StepsLeft
    <3> QED BY <2>0, <2>1, <3>1, OneAdvances DEF Start
  <2>2. ASSUME NEW a \in Runs, Expire(a) PROVE Less
    <3> DEFINE r == [run[a] EXCEPT !.expired = TRUE]
    <3>1. StepsLeft(r) < StepsLeft(run[a])
      BY <1>1, <2>2, RunTyped, UploadAssumption DEF Expire, Run, StepsLeft
    <3> QED BY <2>0, <2>2, <3>1, OneAdvances DEF Expire
  <2>3. ASSUME NEW a \in Runs, NEW F \in SUBSET Plugins, Discover(a, F) PROVE Less
    <3> DEFINE r == [run[a] EXCEPT !.phase = "filter", !.found = F]
    <3>1. StepsLeft(r) < StepsLeft(run[a])
      BY <1>1, <2>3, RunTyped, UploadAssumption DEF Discover, Run, StepsLeft
    <3>2. run' = [run EXCEPT ![a] = r]
      BY <2>3 DEF Discover
    <3> QED BY <2>0, <3>1, <3>2, OneAdvances
  <2>4. ASSUME NEW a \in Runs, FilterExclusions(a) PROVE Less
    <3>1. PICK K : run' = [run EXCEPT ![a] = [run[a] EXCEPT !.phase = "post", !.kept = K]]
      BY <2>4 DEF FilterExclusions
    <3> DEFINE r == [run[a] EXCEPT !.phase = "post", !.kept = K]
    <3>2. StepsLeft(r) < StepsLeft(run[a])
      BY <1>1, <2>4, RunTyped, UploadAssumption DEF FilterExclusions, Run, StepsLeft
    <3> QED BY <2>0, <3>1, <3>2, OneAdvances
  <2>5. ASSUME NEW a \in Runs, Attempt(a) PROVE Less
    <3> DEFINE r == [run[a] EXCEPT !.attempt = run[a].attempt + 1, !.waiting = TRUE]
    <3>1. StepsLeft(r) < StepsLeft(run[a])
      BY <1>1, <2>5, RunTyped, UploadAssumption DEF Attempt, Run, StepsLeft
    <3>2. run' = [run EXCEPT ![a] = r]
      BY <2>5 DEF Attempt
    <3> QED BY <2>0, <3>1, <3>2, OneAdvances
  <2>6. ASSUME NEW a \in Runs, AttemptFails(a) PROVE Less
    <3> DEFINE r == [run[a] EXCEPT !.waiting = FALSE]
    <3>1. StepsLeft(r) < StepsLeft(run[a])
      BY <1>1, <2>6, RunTyped, UploadAssumption DEF AttemptFails, Run, StepsLeft
    <3> QED BY <2>0, <2>6, <3>1, OneAdvances DEF AttemptFails
  <2>7. ASSUME NEW a \in Runs, ReceiveAnswer(a) PROVE Less
    <3> DEFINE n == run[a].attempt
               c == call[a][n]
               p == CASE c.code = 200 -> "done" [] c.code = 401 -> "failed"
                      [] c.code = 500 -> "post"
               r == [run[a] EXCEPT !.waiting = FALSE, !.scan = c.scan, !.phase = p]
    <3>1. /\ run[a] \in Run /\ RunOK(run[a]) /\ run[a].waiting /\ run[a].phase = "post"
          /\ c.state = "answered"
      BY <1>1, <2>7, RunTyped DEF ReceiveAnswer
    <3>2. n \in Attempts
      BY <3>1, UploadAssumption DEF RunOK, Run, Attempts
    <3>3. c.code \in {200, 401, 500}
      BY <1>1, <3>1, <3>2 DEF IInv, TypeOK, CallOK, Call
    <3>4. p \in {"done", "failed", "post"}
      BY <3>3
    <3>5. run' = [run EXCEPT ![a].waiting = FALSE, ![a].scan = c.scan, ![a].phase = p]
      BY <2>7 DEF ReceiveAnswer
    <3> HIDE DEF n, c, p
    <3>7. run' = [run EXCEPT ![a] = r]
      BY <3>5
    <3>6. StepsLeft(r) < StepsLeft(run[a])
      BY <3>1, <3>4, UploadAssumption DEF Run, StepsLeft
    <3> QED BY <2>0, <3>6, <3>7, OneAdvances
  <2>8. ASSUME NEW a \in Runs, GiveUp(a) PROVE Less
    <3> DEFINE r == [run[a] EXCEPT !.phase = "failed"]
    <3>1. StepsLeft(r) < StepsLeft(run[a])
      BY <1>1, <2>8, RunTyped, UploadAssumption DEF GiveUp, Run, StepsLeft
    <3> QED BY <2>0, <2>8, <3>1, OneAdvances DEF GiveUp
  <2>9. CASE run' = run
    BY <2>9
  <2>10. \/ run' = run
         \/ \E a \in Runs : (\E D \in SUBSET Plugins : Start(a, D)) \/ Expire(a) \/ AgentStep(a)
    <3>1. BackendStep => run' = run
      BY DEF BackendStep, Authorize, LoadExclusions, LoadLinks, Ingest, BackendCrash
    <3>2. AdminStep => run' = run
      BY DEF AdminStep, Confirm, Ignore, AddExclusion, RemoveExclusion, RevokeKey
    <3> QED BY <1>1, <3>1, <3>2 DEF Next, vars
  <2> QED BY <2>1, <2>2, <2>3, <2>4, <2>5, <2>6, <2>7, <2>8, <2>9, <2>10 DEF AgentStep
<1>2. IInv => \A a \in Runs : StepsLeft(run[a]) \in Nat
  BY RunTyped, LeftTyped
<1>3. IInv /\ [Next]_vars => [Less]_vars
  BY <1>1
<1> HIDE DEF Less
<1>4. Spec => [][Less]_vars
  BY <1>3, SoundAlways, PTL DEF Spec
<1>5. Spec => [](\A a \in Runs : StepsLeft(run[a]) \in Nat)
  BY <1>2, SoundAlways, PTL
<1> USE DEF Less
<1> QED BY <1>4, <1>5, PTL DEF RunsAdvance

-----------------------------------------------------------------------------
(***************************************************************************)
(* The workbench on what the scans brought.                                *)
(***************************************************************************)
Lists == UNION {[R -> Item] : R \in SUBSET Row}
Cached == [rows : Lists, valid : BOOLEAN, calm : BOOLEAN]
Load == [first : BOOLEAN, read : Lists \cup {None}, calm : BOOLEAN]
Opened(m) ==
    /\ m = [type |-> m.type, row |-> m.row, error |-> m.error, request |-> m.request,
            copies |-> m.copies]
    /\ m.row \in Row /\ m.copies \subseteq Row

CachesTyped ==
    /\ DOMAIN cache \cup DOMAIN flight \subseteq Key
    /\ \A k \in DOMAIN cache : cache[k] \in Cached
    /\ \A k \in DOMAIN flight : flight[k] \in Load

Looped(u) ==
    /\ u = [id |-> u.id, kind |-> u.kind, left |-> u.left]
    /\ u.kind \in Kind \ {"update"} /\ u.left \subseteq Row

Sent(q) ==
    /\ q = [id |-> q.id, what |-> q.what, rows |-> q.rows, keep |-> q.keep,
            dialog |-> q.dialog, state |-> q.state]
    /\ q.what \in What /\ q.rows \subseteq Row /\ q.keep \subseteq Row

RunsTyped == (\A u \in runs : Looped(u)) /\ (\A q \in sent : Sent(q))

\* A list that is calm and need not be read again, and an answer that was read
\* since the last write, are what the backend answers.
Current ==
    /\ \A k \in DOMAIN cache :
          cache[k].valid /\ cache[k].calm => cache[k].rows = Listing(server, k)
    /\ \A k \in DOMAIN flight :
          flight[k].calm /\ flight[k].read # None => flight[k].read = Listing(server, k)

\* A bulk loop, or a request that was served and not answered: the lists are loaded
\* anew when it ends.
Busy == runs # {} \/ \E q \in sent : q.state # "sent"

Controls ==
    /\ server \in Server /\ failed \in BOOLEAN
    /\ bucket \in Key /\ sub \in {"all", "mismatch", "unconfirmed"}
    /\ sub # "all" => bucket = "needs_review"
    /\ selected \subseteq Row /\ (last = None \/ last \in 1 .. Cardinality(Row))
    /\ confirm # None => confirm.kind \in Kind /\ confirm.rows \subseteq Row
    /\ queue \subseteq Row /\ (modal # None => Opened(modal))

DeskInv == Controls /\ CachesTyped /\ RunsTyped /\ (Busy \/ Current)

\* An answer is a list, and a list is one of rows.
LEMMA ListsTyped ==
    /\ \A s, k : Listing(s, k) \in Lists
    /\ \A rows \in Lists : List(rows)
<1>1. ASSUME NEW s, NEW k PROVE Listing(s, k) \in Lists
  <2> DEFINE R == DOMAIN Listing(s, k)
  <2>1. \A r : BucketOf(s, r) \in Bucket
    BY DEF BucketOf, Bucket
  <2>2. R \subseteq Row
    BY DEF Listing
  <2>3. Listing(s, k) \in [R -> Item]
    BY <2>1 DEF Listing, Item
  <2> HIDE DEF R
  <2> QED BY <2>2, <2>3 DEF Lists
<1>2. ASSUME NEW rows \in Lists PROVE List(rows)
  BY DEF Lists, List
<1> QED BY <1>1, <1>2

LEMMA ShownTyped ==
    ASSUME CachesTyped
    PROVE  DOMAIN Held \subseteq Row /\ Visible \subseteq Row /\ Chosen \subseteq Row
<1>1. CASE bucket \in DOMAIN cache
  <2>1. cache[bucket].rows \in Lists
    BY <1>1 DEF CachesTyped, Cached
  <2> QED BY <1>1, <2>1, ListsTyped
          DEF Held, List, Visible, Chosen, WithSiblings
<1>2. CASE bucket \notin DOMAIN cache
  <2>1. DOMAIN Held = {}
    BY <1>2 DEF Held
  <2> QED BY <2>1 DEF Visible, Chosen, WithSiblings
<1> QED BY <1>1, <1>2

\* A list that is asked for has not been read.
LEMMA Asked ==
    ASSUME NEW c, NEW f, NEW k \in Key,
           DOMAIN f \subseteq Key, \A j \in DOMAIN f : f[j] \in Load
    PROVE  /\ DOMAIN Ask(c, f, k) \subseteq Key
           /\ \A j \in DOMAIN Ask(c, f, k) :
                 /\ Ask(c, f, k)[j] \in Load
                 /\ \/ j \in DOMAIN f /\ Ask(c, f, k)[j] = f[j]
                    \/ Ask(c, f, k)[j].read = None
<1> DEFINE q == Request(k \notin DOMAIN c)
<1>1. q \in Load /\ q.read = None
  BY DEF Request, Load
<1> HIDE DEF q
<1>2. CASE Ask(c, f, k) = f
  BY <1>2
<1>3. CASE Ask(c, f, k) = Put(f, k, q)
  BY <1>1, <1>3 DEF Put
<1> QED BY <1>2, <1>3 DEF Ask, q

\* After an invalidation no list is valid, and what is still on its way and was read
\* is no longer calm.
LEMMA Invalidated ==
    ASSUME CachesTyped, bucket \in Key, Invalidate
    PROVE  CachesTyped' /\ Current' /\ failed' = failed
<1> DEFINE kept == {k \in DOMAIN flight : flight[k].first \/ k # bucket}
           f == [k \in kept |-> [flight[k] EXCEPT !.calm = @ /\ flight[k].read = None]]
<1>1. /\ cache' = [k \in DOMAIN cache |-> [cache[k] EXCEPT !.valid = FALSE]]
      /\ flight' = Ask(cache', f, bucket) /\ failed' = failed
  BY DEF Invalidate
<1>2. \A k \in DOMAIN cache : /\ [cache[k] EXCEPT !.valid = FALSE] \in Cached
                              /\ [cache[k] EXCEPT !.valid = FALSE].valid = FALSE
  BY DEF CachesTyped, Cached
<1>3. \A k \in kept : /\ flight[k] \in Load
                      /\ f[k] = [flight[k] EXCEPT !.calm = @ /\ flight[k].read = None]
  BY DEF CachesTyped
<1>4. \A k \in kept : f[k] \in Load /\ (f[k].read = None \/ f[k].calm = FALSE)
  BY <1>3 DEF Load
<1>5. DOMAIN f = kept /\ kept \subseteq Key
  BY DEF CachesTyped
<1> HIDE DEF f, kept
<1>6. /\ DOMAIN flight' \subseteq Key
      /\ \A j \in DOMAIN flight' :
            flight'[j] \in Load /\ (flight'[j].read = None \/ flight'[j].calm = FALSE)
  BY <1>1, <1>4, <1>5, Asked
<1>7. /\ DOMAIN cache' = DOMAIN cache
      /\ \A k \in DOMAIN cache : cache'[k] \in Cached /\ cache'[k].valid = FALSE
  BY <1>1, <1>2
<1> QED BY <1>1, <1>6, <1>7 DEF CachesTyped, Current

\* What somebody else wrote leaves no list calm that was read before.
LEMMA Disturbed ==
    ASSUME CachesTyped, Disturb
    PROVE  CachesTyped' /\ Current' /\ failed' = failed
<1>1. /\ cache' = [k \in DOMAIN cache |-> [cache[k] EXCEPT !.calm = FALSE]]
      /\ flight' = [k \in DOMAIN flight |->
                       [flight[k] EXCEPT !.calm = @ /\ flight[k].read = None]]
      /\ failed' = failed
  BY DEF Disturb
<1>2. \A k \in DOMAIN cache : /\ [cache[k] EXCEPT !.calm = FALSE] \in Cached
                              /\ [cache[k] EXCEPT !.calm = FALSE].calm = FALSE
  BY DEF CachesTyped, Cached
<1>3. \A k \in DOMAIN flight : /\ flight[k] \in Load
                               /\ flight'[k] = [flight[k] EXCEPT !.calm = @ /\ flight[k].read = None]
  BY <1>1 DEF CachesTyped
<1>4. \A k \in DOMAIN flight : /\ flight'[k] \in Load
                               /\ flight'[k].read = None \/ flight'[k].calm = FALSE
  BY <1>3 DEF Load
<1>5. /\ DOMAIN cache' = DOMAIN cache /\ DOMAIN flight' = DOMAIN flight
      /\ \A k \in DOMAIN cache : cache'[k] \in Cached /\ cache'[k].calm = FALSE
  BY <1>1, <1>2
<1> QED BY <1>1, <1>4, <1>5 DEF CachesTyped, Current

\* Whatever is not the lists or the service leaves them as they are.
LEMMA ListsKept ==
    ASSUME CachesTyped, UNCHANGED <<server, cache, flight>>
    PROVE  CachesTyped' /\ (Current => Current')
BY DEF CachesTyped, Current

LEMMA DeskTypes == DeskInv => DeskTypeOK
<1> SUFFICES ASSUME DeskInv PROVE DeskTypeOK
  OBVIOUS
<1>1. \A k \in DOMAIN cache : /\ List(cache[k].rows)
                              /\ {cache[k].valid, cache[k].calm} \subseteq BOOLEAN
  BY ListsTyped DEF DeskInv, CachesTyped, Cached
<1>2. \A k \in DOMAIN flight : flight[k].read = None \/ List(flight[k].read)
  BY ListsTyped DEF DeskInv, CachesTyped, Load
<1>3. /\ \A u \in runs : u.kind \in Kind \ {"update"} /\ u.left \subseteq Row
      /\ \A q \in sent : q.what \in What /\ q.rows \cup q.keep \subseteq Row
  BY DEF DeskInv, RunsTyped, Looped, Sent
<1> QED BY <1>1, <1>2, <1>3 DEF DeskInv, Controls, CachesTyped, DeskTypeOK

\* What the service keeps stays of its type.
LEMMA ServerTyped ==
    ASSUME server \in Server, NEW R
    PROVE  /\ Reject(server, R) \in Server
           /\ Update(server, R) \in Server
           /\ R \subseteq Row => Exclude(server, R) \in Server
           /\ R \subseteq Row => [server EXCEPT !.confirmed = @ \cup R] \in Server
<1>1. \A r \in Row : Disk(r) \in Fingerprint
  BY DEF Disk, Fingerprint
<1>2. Reject(server, R) \in Server
  BY <1>1 DEF Reject, Server
<1>3. R \subseteq Row => Exclude(server, R) \in Server
  BY <1>1 DEF Exclude, Server
<1>4. Update(server, R) \in Server
  BY DEF Update, Server
<1>5. R \subseteq Row => [server EXCEPT !.confirmed = @ \cup R] \in Server
  BY DEF Server
<1> QED BY <1>2, <1>3, <1>4, <1>5

LEMMA DoesTyped ==
    ASSUME server \in Server, NEW q, Sent(q)
    PROVE  Does(server, q) \in Server
<1>1. CASE q.what \in {"reject", "exclude", "update"}
  BY <1>1, ServerTyped DEF Sent, Does
<1>2. CASE q.what = "keep"
  <2>1. Does(server, q) = [server EXCEPT !.confirmed = @ \cup q.keep,
                                         !.dismissed = @ \cup (q.rows \ q.keep)]
    BY <1>2 DEF Does
  <2> QED BY <2>1 DEF Sent, Server
<1>3. CASE q.what = "soft"
  <2>1. Does(server, q) = [server EXCEPT !.rules = FALSE]
    BY <1>3 DEF Does
  <2> QED BY <2>1 DEF Server
<1>4. CASE q.what = "hard"
  <2>1. Does(server, q) = [server EXCEPT !.scan = FALSE, !.rules = FALSE, !.stored = {},
                                         !.confirmed = {}, !.dismissed = {},
                                         !.excluded = {}, !.rejected = {}]
    BY <1>4 DEF Does
  <2> QED BY <2>1 DEF Server
<1> QED BY <1>1, <1>2, <1>3, <1>4 DEF Sent, What

\* A request that is sent is of its type, and makes nothing busy that was not.
LEMMA SendTyped ==
    ASSUME RunsTyped, NEW what \in What, NEW rows \in SUBSET Row, NEW keep \in SUBSET Row,
           NEW dialog, Send(what, rows, keep, dialog), runs' = runs
    PROVE  RunsTyped' /\ (Busy => Busy')
<1> DEFINE q == [id |-> NewId, what |-> what, rows |-> rows, keep |-> keep,
                 dialog |-> dialog, state |-> "sent"]
<1>1. sent' = sent \cup {q}
  BY DEF Send
<1>2. Sent(q)
  BY DEF Sent
<1> HIDE DEF q
<1> QED BY <1>1, <1>2 DEF RunsTyped, Busy

\* The lines of the rows shown are counted from one.
LEMMA LinesTyped ==
    ASSUME CachesTyped, NEW r \in Visible
    PROVE  Index(r) \in 1 .. Cardinality(Row)
<1> DEFINE above == {t \in Visible : t <= r}
<1>1. above \subseteq Row /\ r \in Row /\ IsFiniteSet(Row) /\ r \in Nat
  BY ShownTyped, DeskAssumption
<1>2. IsFiniteSet(above) /\ Cardinality(above) <= Cardinality(Row)
  BY <1>1, FS_Subset
<1>3. r \in above
  BY <1>1
<1>4. Cardinality(above) # 0
  BY <1>2, <1>3, FS_EmptySet
<1>5. Cardinality(above) \in Nat /\ Cardinality(Row) \in Nat
  BY <1>1, <1>2, FS_CardinalityType
<1> QED BY <1>2, <1>4, <1>5 DEF Index

\* A step of the service and the network for a list.
LEMMA LoadStep ==
    ASSUME DeskInv, NEW k \in DOMAIN flight,
           Serve(k) \/ Arrive(k) \/ LoadFails(k)
    PROVE  DeskInv'
<1>0. k \in Key /\ flight[k] \in Load
  BY DEF DeskInv, CachesTyped
<1>1. CASE Serve(k)
  <2> DEFINE answer == Listing(server, k)
  <2>1. answer \in Lists
    BY ListsTyped
  <2>2. /\ flight' = [flight EXCEPT ![k].read = answer]
        /\ UNCHANGED <<server, bucket, sub, cache, failed, selected, last, confirm, runs, sent, queue, modal>>
    BY <1>1 DEF Serve, choice
  <2>3. answer = Listing(server, k)
    OBVIOUS
  <2> HIDE DEF answer
  <2>4. flight'[k] \in Load /\ flight'[k].read = answer
    BY <1>0, <2>1, <2>2 DEF Load
  <2>5. DOMAIN flight' = DOMAIN flight /\ \A j \in DOMAIN flight : j # k => flight'[j] = flight[j]
    BY <2>2
  <2>6. CachesTyped'
    BY <2>2, <2>4, <2>5 DEF DeskInv, CachesTyped
  <2>7. Current => Current'
    BY <2>2, <2>3, <2>4, <2>5 DEF Current
  <2> QED BY <2>2, <2>6, <2>7 DEF DeskInv, Controls, RunsTyped, Busy
<1>2. CASE Arrive(k)
  <2> DEFINE held == [rows |-> flight[k].read, valid |-> TRUE, calm |-> flight[k].calm]
  <2>1. flight[k].read # None /\ held \in Cached
    BY <1>0, <1>2 DEF Arrive, Load, Cached
  <2>2. /\ cache' = Put(cache, k, held) /\ flight' = Without(flight, k)
        /\ failed' = (failed /\ k # bucket)
        /\ UNCHANGED <<server, bucket, sub, selected, last, confirm, runs, sent, queue, modal>>
    BY <1>2 DEF Arrive, choice
  <2>3. held.rows = flight[k].read /\ held.calm = flight[k].calm
    OBVIOUS
  <2> HIDE DEF held
  <2>4. /\ DOMAIN cache' = DOMAIN cache \cup {k} /\ cache'[k] = held
        /\ \A j \in DOMAIN cache : j # k => cache'[j] = cache[j]
    BY <2>2 DEF Put
  <2>5. DOMAIN flight' = DOMAIN flight \ {k} /\ \A j \in DOMAIN flight' : flight'[j] = flight[j]
    BY <2>2 DEF Without
  <2>6. CachesTyped'
    BY <1>0, <2>1, <2>4, <2>5 DEF DeskInv, CachesTyped
  <2>7. Current => Current'
    BY <2>1, <2>2, <2>3, <2>4, <2>5 DEF Current
  <2> QED BY <2>2, <2>6, <2>7 DEF DeskInv, Controls, RunsTyped, Busy
<1>3. CASE LoadFails(k)
  <2>1. /\ flight' = Without(flight, k) /\ failed' = (failed \/ k = bucket)
        /\ UNCHANGED <<server, bucket, sub, cache, selected, last, confirm, runs, sent, queue, modal>>
    BY <1>3 DEF LoadFails, choice
  <2>2. DOMAIN flight' = DOMAIN flight \ {k} /\ \A j \in DOMAIN flight' : flight'[j] = flight[j]
    BY <2>1 DEF Without
  <2>3. CachesTyped' /\ (Current => Current')
    BY <2>1, <2>2 DEF DeskInv, CachesTyped, Current
  <2> QED BY <2>1, <2>3 DEF DeskInv, Controls, RunsTyped, Busy
<1> QED BY <1>1, <1>2, <1>3

\* A filter is set, or the list shown again: a list is asked for, and none is read.
LEMMA FilterStep ==
    ASSUME DeskInv,
           \/ \E b \in Key : SetBucket(b)
           \/ \E v \in {"all", "mismatch", "unconfirmed"} : SetSubState(v)
           \/ Refetch
    PROVE  DeskInv'
<1>0. \A j \in DOMAIN flight : flight[j] \in Load
  BY DEF DeskInv, CachesTyped
<1>1. ASSUME NEW b \in Key, SetBucket(b) PROVE DeskInv'
  <2>1. /\ bucket' = b /\ sub' = IF b = "needs_review" THEN sub ELSE "all"
        /\ flight' = Ask(cache, flight, b) /\ failed' = FALSE
        /\ UNCHANGED <<server, cache, selected, last, confirm, runs, sent, queue, modal>>
    BY <1>1 DEF SetBucket, choice
  <2>2. /\ DOMAIN flight' \subseteq Key
        /\ \A j \in DOMAIN flight' : /\ flight'[j] \in Load
                                     /\ \/ j \in DOMAIN flight /\ flight'[j] = flight[j]
                                        \/ flight'[j].read = None
    BY <1>0, <2>1, Asked DEF DeskInv, CachesTyped
  <2>3. CachesTyped' /\ (Current => Current')
    BY <2>1, <2>2 DEF DeskInv, CachesTyped, Current
  <2> QED BY <2>1, <2>3 DEF DeskInv, Controls, RunsTyped, Busy
<1>2. ASSUME NEW v \in {"all", "mismatch", "unconfirmed"}, SetSubState(v) PROVE DeskInv'
  <2>1. /\ sub' = v /\ bucket = "needs_review"
        /\ UNCHANGED <<server, bucket, cache, flight, failed, selected, last, confirm, runs,
                       sent, queue, modal>>
    BY <1>2 DEF SetSubState, choice, list
  <2>2. CachesTyped' /\ (Current => Current')
    BY <2>1, ListsKept DEF DeskInv
  <2> QED BY <2>1, <2>2 DEF DeskInv, Controls, RunsTyped, Busy
<1>3. ASSUME Refetch PROVE DeskInv'
  <2> DEFINE q == Request(bucket \notin DOMAIN cache)
  <2>1. q \in Load /\ q.read = None
    BY DEF Request, Load
  <2>2. /\ flight' = Put(flight, bucket, q)
        /\ UNCHANGED <<server, bucket, sub, cache, failed, selected, last, confirm, runs,
                       sent, queue, modal>>
    BY <1>3 DEF Refetch, choice
  <2> HIDE DEF q
  <2>3. bucket \in Key
    BY DEF DeskInv, Controls
  <2>4. /\ DOMAIN flight' = DOMAIN flight \cup {bucket} /\ flight'[bucket] = q
        /\ \A j \in DOMAIN flight : j # bucket => flight'[j] = flight[j]
    BY <2>2 DEF Put
  <2>5. CachesTyped' /\ (Current => Current')
    BY <2>1, <2>2, <2>3, <2>4 DEF DeskInv, CachesTyped, Current
  <2> QED BY <2>2, <2>5 DEF DeskInv, Controls, RunsTyped, Busy
<1> QED BY <1>1, <1>2, <1>3

LEMMA SelectStep ==
    ASSUME DeskInv,
           \/ \E r \in Row : ToggleSelect(r) \/ ShiftSelect(r)
           \/ ToggleSelectAll \/ ClearSelection
    PROVE  DeskInv'
<1>0. CachesTyped /\ Visible \subseteq Row /\ selected \subseteq Row
  BY ShownTyped DEF DeskInv, Controls
<1>1. ASSUME NEW ids \in SUBSET Row, NEW i, Select(ids, i),
             i = None \/ i \in 1 .. Cardinality(Row)
      PROVE  DeskInv'
  <2>1. /\ selected' = ids /\ last' = i
        /\ UNCHANGED <<server, bucket, sub, cache, flight, failed, confirm, runs, sent, queue, modal>>
    BY <1>1 DEF Select, list
  <2>2. CachesTyped' /\ (Current => Current')
    BY <2>1, ListsKept DEF DeskInv
  <2> QED BY <1>1, <2>1, <2>2 DEF DeskInv, Controls, RunsTyped, Busy
<1>2. last = None \/ last \in 1 .. Cardinality(Row)
  BY DEF DeskInv, Controls
<1>3. ASSUME NEW r \in Row, ToggleSelect(r) PROVE DeskInv'
  <2>1. r \in Visible
    BY <1>3 DEF ToggleSelect
  <2>2. Index(r) \in 1 .. Cardinality(Row)
    BY <1>0, <2>1, LinesTyped
  <2>3. \E ids \in SUBSET Row : Select(ids, Index(r))
    BY <1>0, <1>3 DEF ToggleSelect
  <2> QED BY <1>1, <2>2, <2>3
<1>4. ASSUME NEW r \in Row, ShiftSelect(r) PROVE DeskInv'
  <2>1. PICK range : range \subseteq Visible /\ Select(selected \cup range, last)
    BY <1>4 DEF ShiftSelect
  <2> QED BY <1>0, <1>1, <1>2, <2>1
<1>5. ASSUME ToggleSelectAll PROVE DeskInv'
  BY <1>0, <1>1, <1>2, <1>5 DEF ToggleSelectAll
<1>6. ASSUME ClearSelection PROVE DeskInv'
  BY <1>1, <1>6 DEF ClearSelection
<1> QED BY <1>3, <1>4, <1>5, <1>6

LEMMA SingleStep ==
    ASSUME DeskInv,
           \/ \E r \in Row : HandleReject(r) \/ HandleExclude(r)
           \/ HandleSoftReset \/ HandleHardReset
    PROVE  DeskInv'
<1>1. PICK what \in What, rows \in SUBSET Row : Single(what, rows)
  BY DEF HandleReject, HandleExclude, HandleSoftReset, HandleHardReset, What
<1>2. /\ Send(what, rows, {}, FALSE)
      /\ UNCHANGED <<server, bucket, sub, cache, flight, failed, selected, last, confirm,
                     runs, queue, modal>>
  BY <1>1 DEF Single, list, choice
<1>3. RunsTyped' /\ (Busy => Busy')
  BY <1>2, SendTyped DEF DeskInv
<1>4. CachesTyped' /\ (Current => Current')
  BY <1>2, ListsKept DEF DeskInv
<1> QED BY <1>2, <1>3, <1>4 DEF DeskInv, Controls

\* A request is served, answered, or fails.
LEMMA RequestStep ==
    ASSUME DeskInv, NEW q \in sent,
           ServeRequest(q) \/ RequestAnswered(q) \/ RequestFails(q)
    PROVE  DeskInv'
<1>0. server \in Server /\ bucket \in Key /\ CachesTyped /\ RunsTyped /\ Sent(q)
  BY DEF DeskInv, Controls, RunsTyped
<1>1. CASE ServeRequest(q)
  <2>1. /\ \E state \in {"served", "broken"} :
              sent' = (sent \ {q}) \cup {[q EXCEPT !.state = state]}
        /\ \/ server' = Does(server, q)
           \/ \E R \in SUBSET q.rows : server' = Update(server, R)
        /\ UNCHANGED <<bucket, sub, cache, flight, failed, selected, last, confirm, runs,
                       queue, modal>>
    BY <1>1 DEF ServeRequest, Becomes, list, choice
  <2>2. PICK state \in {"served", "broken"} :
            sent' = (sent \ {q}) \cup {[q EXCEPT !.state = state]}
    BY <2>1
  <2>3. [q EXCEPT !.state = state] = [id |-> q.id, what |-> q.what, rows |-> q.rows,
            keep |-> q.keep, dialog |-> q.dialog, state |-> state]
    BY <1>0 DEF Sent
  <2>4. Sent([q EXCEPT !.state = state]) /\ [q EXCEPT !.state = state].state # "sent"
    BY <1>0, <2>3 DEF Sent
  <2>5. RunsTyped' /\ Busy'
    BY <1>0, <2>1, <2>2, <2>4 DEF RunsTyped, Busy
  <2>6. server' \in Server
    BY <1>0, <2>1, DoesTyped, ServerTyped DEF Sent
  <2>7. CachesTyped'
    BY <1>0, <2>1 DEF CachesTyped
  <2> QED BY <2>1, <2>5, <2>6, <2>7 DEF DeskInv, Controls
<1>2. ASSUME sent' = sent \ {q}, runs' = runs
      PROVE  RunsTyped' /\ (q.state = "sent" => (Busy => Busy'))
  BY <1>0, <1>2 DEF RunsTyped, Busy
<1>3. CASE RequestAnswered(q)
  <2>1. /\ sent' = sent \ {q} /\ Invalidate /\ modal' \in {None, modal}
        /\ (selected' = {} /\ last' = None) \/ UNCHANGED <<selected, last>>
        /\ UNCHANGED <<server, bucket, sub, confirm, runs, queue>>
    BY <1>3 DEF RequestAnswered, choice
  <2>2. CachesTyped' /\ Current' /\ failed' = failed
    BY <1>0, <2>1, Invalidated
  <2>3. RunsTyped'
    BY <1>2, <2>1
  <2> QED BY <2>1, <2>2, <2>3 DEF DeskInv, Controls
<1>4. CASE RequestFails(q)
  <2>1. /\ sent' = sent \ {q}
        /\ IF q.state = "sent" THEN UNCHANGED <<cache, flight, failed>> ELSE Disturb
        /\ modal' = IF modal # None /\ modal.request = q.id
                    THEN [modal EXCEPT !.error = TRUE, !.request = None] ELSE modal
        /\ UNCHANGED <<server, bucket, sub, selected, last, confirm, runs, queue>>
    BY <1>4 DEF RequestFails, list, choice
  <2>2. RunsTyped' /\ (q.state = "sent" => (Busy => Busy'))
    BY <1>2, <2>1
  <2>3. modal' # None => Opened(modal')
    <3>1. CASE modal' = modal
      BY <3>1 DEF DeskInv, Controls
    <3>2. CASE modal # None /\ modal' = [modal EXCEPT !.error = TRUE, !.request = None]
      <4>1. Opened(modal)
        BY <3>2 DEF DeskInv, Controls
      <4>2. modal' = [type |-> modal.type, row |-> modal.row, error |-> TRUE,
                      request |-> None, copies |-> modal.copies]
        BY <3>2, <4>1 DEF Opened
      <4> QED BY <4>1, <4>2 DEF Opened
    <3> QED BY <2>1, <3>1, <3>2
  <2>4. CASE q.state = "sent"
    <3>1. CachesTyped' /\ (Current => Current')
      BY <1>0, <2>1, <2>4, ListsKept
    <3> QED BY <2>1, <2>2, <2>3, <2>4, <3>1 DEF DeskInv, Controls
  <2>5. CASE q.state # "sent"
    <3>1. CachesTyped' /\ Current' /\ failed' = failed
      BY <1>0, <2>1, <2>5, Disturbed
    <3> QED BY <2>1, <2>2, <2>3, <3>1 DEF DeskInv, Controls
  <2> QED BY <2>4, <2>5
<1> QED BY <1>1, <1>3, <1>4

LEMMA DialogStep ==
    ASSUME DeskInv,
           \/ \E r \in Row, type \in DialogType : HandleRowClick(r, type)
           \/ HandleBulkResolve \/ CloseDialog \/ HandleSave \/ HandleCreate
           \/ HandleConfirmLink \/ ResolveCollision
    PROVE  DeskInv'
<1>0. /\ server \in Server /\ bucket \in Key /\ CachesTyped
      /\ DOMAIN Held \subseteq Row /\ Chosen \subseteq Row
  BY ShownTyped DEF DeskInv, Controls
<1>1. ASSUME NEW q \in SUBSET Row, NEW m, Dialog(q, m), m # None => Opened(m)
      PROVE  DeskInv'
  <2>1. /\ queue' = q /\ modal' = m
        /\ UNCHANGED <<server, bucket, sub, cache, flight, failed, selected, last, confirm, runs, sent>>
    BY <1>1 DEF Dialog, list, choice
  <2>2. CachesTyped' /\ (Current => Current')
    BY <2>1, ListsKept DEF DeskInv
  <2> QED BY <1>1, <2>1, <2>2 DEF DeskInv, Controls, RunsTyped, Busy
<1>2. ASSUME NEW r \in Row, NEW type \in DialogType, HandleRowClick(r, type)
      PROVE  DeskInv'
  <2> DEFINE C == {t \in DOMAIN Held \ Orphan : RecordOf[t] = RecordOf[r]}
             m == [type |-> type, row |-> r, error |-> FALSE, request |-> None,
                   copies |-> C]
  <2>1. C \subseteq Row
    BY <1>0
  <2>2. Dialog({}, m)
    BY <1>2 DEF HandleRowClick
  <2> HIDE DEF C
  <2>3. Opened(m)
    BY <2>1 DEF Opened
  <2> HIDE DEF m
  <2> QED BY <1>1, <2>2, <2>3
<1>3. ASSUME HandleBulkResolve PROVE DeskInv'
  <2>1. \E q \in SUBSET Chosen : Dialog(q, None)
    BY <1>3 DEF HandleBulkResolve
  <2> QED BY <1>0, <1>1, <2>1
<1>4. ASSUME CloseDialog PROVE DeskInv'
  BY <1>1, <1>4 DEF CloseDialog
<1>5. ASSUME HandleSave \/ HandleCreate PROVE DeskInv'
  <2>1. modal # None /\ Dialog({}, [modal EXCEPT !.error = TRUE])
    BY <1>5 DEF HandleSave, HandleCreate, SaveFails
  <2>2. PICK m : m = [modal EXCEPT !.error = TRUE] /\ Dialog({}, m)
    BY <2>1
  <2>3. Opened(modal)
    BY <2>1 DEF DeskInv, Controls
  <2>4. m = [type |-> modal.type, row |-> modal.row, error |-> TRUE,
             request |-> modal.request, copies |-> modal.copies]
    BY <2>2, <2>3 DEF Opened
  <2>5. Opened(m)
    BY <2>3, <2>4 DEF Opened
  <2> QED BY <1>1, <2>2, <2>5
<1>6. ASSUME HandleConfirmLink PROVE DeskInv'
  <2>1. /\ modal' = None /\ Invalidate
        /\ UNCHANGED <<server, bucket, sub, selected, last, confirm, runs, sent, queue>>
    BY <1>6 DEF HandleConfirmLink, choice
  <2>2. CachesTyped' /\ Current' /\ failed' = failed
    BY <1>0, <2>1, Invalidated
  <2> QED BY <2>1, <2>2 DEF DeskInv, Controls, RunsTyped
<1>7. ASSUME ResolveCollision PROVE DeskInv'
  <2>1. modal # None /\ Opened(modal)
    BY <1>7 DEF ResolveCollision, DeskInv, Controls
  <2>2. /\ \/ \E C \in {{t} : t \in modal.copies} \cup {modal.copies} :
                 Send("keep", modal.copies, C, TRUE)
           \/ Send("exclude", {modal.row}, {}, TRUE)
        /\ modal' = [modal EXCEPT !.error = FALSE, !.request = NewId]
        /\ UNCHANGED <<server, bucket, sub, cache, flight, failed, selected, last, confirm,
                       runs, queue>>
    BY <1>7 DEF ResolveCollision, list, choice
  <2>3. \A C \in {{t} : t \in modal.copies} \cup {modal.copies} : C \subseteq Row
    BY <2>1 DEF Opened
  <2>4. \E what \in What, rows \in SUBSET Row, keep \in SUBSET Row :
            Send(what, rows, keep, TRUE)
    BY <2>1, <2>2, <2>3 DEF Opened, What
  <2>5. RunsTyped' /\ (Busy => Busy')
    BY <2>2, <2>4, SendTyped DEF DeskInv
  <2>6. modal' = [type |-> modal.type, row |-> modal.row, error |-> FALSE,
                  request |-> NewId, copies |-> modal.copies]
    BY <2>1, <2>2 DEF Opened
  <2>7. Opened(modal')
    BY <2>1, <2>6 DEF Opened
  <2>8. CachesTyped' /\ (Current => Current')
    BY <1>0, <2>2, ListsKept
  <2> QED BY <2>2, <2>5, <2>7, <2>8 DEF DeskInv, Controls
<1> QED BY <1>2, <1>3, <1>4, <1>5, <1>6, <1>7

LEMMA ConfirmStep ==
    ASSUME DeskInv,
           \/ \E kind \in Kind : RequestBulk(kind)
           \/ CancelConfirm \/ ConfirmPending
    PROVE  DeskInv'
<1>0. CachesTyped /\ \A kind \in Kind : Affected(kind) \subseteq Row
  BY ShownTyped DEF DeskInv, Affected
<1>1. ASSUME NEW c, Confirmation(c), c # None => c.kind \in Kind /\ c.rows \subseteq Row,
             RunsTyped', Busy => Busy'
      PROVE  DeskInv'
  <2>1. /\ confirm' = c
        /\ UNCHANGED <<server, bucket, sub, cache, flight, failed, selected, last, queue, modal>>
    BY <1>1 DEF Confirmation, list, choice
  <2>2. CachesTyped' /\ (Current => Current')
    BY <1>0, <2>1, ListsKept
  <2> QED BY <1>1, <2>1, <2>2 DEF DeskInv, Controls
<1>2. UNCHANGED <<runs, sent>> => RunsTyped' /\ (Busy => Busy')
  BY DEF DeskInv, RunsTyped, Busy
<1>3. ASSUME NEW kind \in Kind, RequestBulk(kind) PROVE DeskInv'
  <2> DEFINE c == [kind |-> kind, rows |-> Affected(kind)]
  <2>1. Confirmation(c) /\ UNCHANGED <<runs, sent>>
    BY <1>3 DEF RequestBulk
  <2>2. c.kind \in Kind /\ c.rows \subseteq Row
    BY <1>0
  <2> HIDE DEF c
  <2> QED BY <1>1, <1>2, <2>1, <2>2
<1>4. ASSUME CancelConfirm PROVE DeskInv'
  BY <1>1, <1>2, <1>4 DEF CancelConfirm
<1>5. ASSUME ConfirmPending PROVE DeskInv'
  <2>1. confirm # None /\ confirm.kind \in Kind /\ Confirmation(None)
    BY <1>5 DEF ConfirmPending, DeskInv, Controls
  <2>2. CASE confirm.kind = "update"
    <3>1. Send("update", Affected("update"), {}, FALSE) /\ runs' = runs
      BY <1>5, <2>2 DEF ConfirmPending
    <3>2. Affected("update") \in SUBSET Row /\ "update" \in What
      BY <1>0 DEF Kind, What
    <3>3. RunsTyped' /\ (Busy => Busy')
      BY <3>1, <3>2, SendTyped DEF DeskInv
    <3> QED BY <1>1, <2>1, <3>3
  <2>3. CASE confirm.kind # "update"
    <3> DEFINE u == [id |-> NewId, kind |-> confirm.kind, left |-> Affected(confirm.kind)]
    <3>1. runs' = runs \cup {u} /\ sent' = sent
      BY <1>5, <2>3 DEF ConfirmPending
    <3>2. Looped(u)
      BY <1>0, <2>1, <2>3 DEF Looped
    <3> HIDE DEF u
    <3>3. RunsTyped' /\ Busy'
      BY <3>1, <3>2 DEF DeskInv, RunsTyped, Busy
    <3> QED BY <1>1, <2>1, <3>3
  <2> QED BY <2>2, <2>3
<1> QED BY <1>3, <1>4, <1>5

\* Rejects and excludes go on: their lists are loaded anew when they end.
LEMMA BulkStep ==
    ASSUME DeskInv, NEW u \in runs,
           RejectNext(u) \/ \E r \in u.left : ExcludeOne(u, r)
    PROVE  DeskInv'
<1>0. server \in Server /\ RunsTyped /\ Looped(u)
  BY DEF DeskInv, Controls, RunsTyped
<1>1. ASSUME NEW rest \in SUBSET Row, runs' = (runs \ {u}) \cup {[u EXCEPT !.left = rest]},
             server' \in Server,
             UNCHANGED <<bucket, sub, cache, flight, failed, selected, last, confirm, sent,
                         queue, modal>>
      PROVE  DeskInv'
  <2>1. [u EXCEPT !.left = rest] = [id |-> u.id, kind |-> u.kind, left |-> rest]
    BY <1>0 DEF Looped
  <2>2. Looped([u EXCEPT !.left = rest])
    BY <1>0, <2>1 DEF Looped
  <2>3. RunsTyped' /\ Busy'
    BY <1>0, <1>1, <2>2 DEF RunsTyped, Busy
  <2>4. CachesTyped'
    BY <1>1 DEF DeskInv, CachesTyped
  <2> QED BY <1>1, <2>3, <2>4 DEF DeskInv, Controls
<1>2. CASE RejectNext(u)
  <2>1. \E rest \in SUBSET u.left : runs' = (runs \ {u}) \cup {[u EXCEPT !.left = rest]}
    BY <1>0, <1>2 DEF RejectNext, Looped
  <2>2. \E r : server' \in {server, Reject(server, {r})}
    BY <1>2 DEF RejectNext
  <2>3. server' \in Server /\ u.left \subseteq Row
    BY <1>0, <2>2, ServerTyped DEF Looped
  <2> QED BY <1>1, <1>2, <2>1, <2>3 DEF RejectNext, list, choice, Rest
<1>3. ASSUME NEW r \in u.left, ExcludeOne(u, r) PROVE DeskInv'
  <2>1. server' \in {server, Exclude(server, {r})} /\ u.left \subseteq Row
    BY <1>0, <1>3 DEF ExcludeOne, Looped
  <2>2. server' \in Server
    BY <1>0, <2>1, ServerTyped
  <2>3. \E rest \in SUBSET u.left : runs' = (runs \ {u}) \cup {[u EXCEPT !.left = rest]}
    BY <1>3 DEF ExcludeOne
  <2> QED BY <1>1, <1>3, <2>1, <2>2, <2>3 DEF ExcludeOne, list, choice, Rest
<1> QED BY <1>2, <1>3

\* A bulk action ends.
LEMMA EndStep ==
    ASSUME DeskInv, NEW u \in runs, RunEnds(u)
    PROVE  DeskInv'
<1>1. /\ runs' = runs \ {u} /\ Invalidate /\ selected' = {} /\ last' = None
      /\ UNCHANGED <<server, bucket, sub, confirm, sent, queue, modal>>
  BY DEF RunEnds, Rest
<1>2. CachesTyped' /\ Current' /\ failed' = failed
  BY <1>1, Invalidated DEF DeskInv, Controls
<1>3. RunsTyped'
  BY <1>1 DEF DeskInv, RunsTyped
<1> QED BY <1>1, <1>2, <1>3 DEF DeskInv, Controls

LEMMA OthersStep ==
    ASSUME DeskInv, OthersWrite
    PROVE  DeskInv'
<1>0. server \in Server /\ CachesTyped
  BY DEF DeskInv, Controls
<1>1. /\ server' \in {[server EXCEPT !.confirmed = @ \cup {r}] : r \in server.stored}
                     \cup {[server EXCEPT !.rules = ~@]}
      /\ Disturb
      /\ UNCHANGED <<bucket, sub, selected, last, confirm, runs, sent, queue, modal>>
  BY DEF OthersWrite, choice
<1>2. server' \in Server
  <2>1. server.stored \subseteq Row /\ [server EXCEPT !.rules = ~@] \in Server
    BY <1>0 DEF Server
  <2>2. \A r \in server.stored : [server EXCEPT !.confirmed = @ \cup {r}] \in Server
    BY <1>0, <2>1, ServerTyped
  <2> QED BY <1>1, <2>1, <2>2
<1>3. CachesTyped' /\ Current' /\ failed' = failed
  BY <1>0, <1>1, Disturbed
<1> QED BY <1>1, <1>2, <1>3 DEF DeskInv, Controls, RunsTyped

\* The inductive invariant of the workbench.
THEOREM DeskSound == DeskSpec => []DeskInv
<1>1. DeskInit => DeskInv
  <2> SUFFICES ASSUME DeskInit PROVE DeskInv
    OBVIOUS
  <2> DEFINE q == Request(TRUE)
  <2>1. q \in Load /\ q.read = None
    BY DEF Request, Load
  <2>2. cache = <<>> /\ flight = Put(<<>>, "all", q)
    BY DEF DeskInit
  <2> HIDE DEF q
  <2>3. DOMAIN cache = {} /\ DOMAIN flight = {"all"} /\ flight["all"] = q
    BY <2>2 DEF Put
  <2>4. CachesTyped /\ Current
    BY <2>1, <2>3, DeskAssumption DEF CachesTyped, Current
  <2>5. server \in Server
    BY DeskAssumption DEF DeskInit, Server
  <2> QED BY <2>4, <2>5, DeskAssumption DEF DeskInit, DeskInv, Controls, RunsTyped
<1>2. ASSUME DeskInv, [DeskNext]_deskVars PROVE DeskInv'
  <2>1. CASE DeskNext
    BY <1>2, <2>1, LoadStep, FilterStep, SelectStep, SingleStep, RequestStep, DialogStep,
       ConfirmStep, BulkStep, EndStep, OthersStep
       DEF DeskNext, Loads, Running
  <2>2. CASE UNCHANGED deskVars
    <3>1. UNCHANGED <<server, bucket, sub, cache, flight, failed, selected, last, confirm, runs,
                      sent, queue, modal>>
      BY <2>2 DEF deskVars, list, choice
    <3>2. CachesTyped' /\ (Current => Current')
      BY <1>2, <3>1, ListsKept DEF DeskInv
    <3> QED BY <1>2, <3>1, <3>2 DEF DeskInv, Controls, RunsTyped, Busy
  <2> QED BY <1>2, <2>1, <2>2
<1> QED BY <1>1, <1>2, PTL DEF DeskSpec

\* Every variable of the workbench keeps its type.
THEOREM DeskTypeCorrect == DeskSpec => []DeskTypeOK
BY DeskSound, DeskTypes, PTL

\* With no bulk action and no request at work, the list shown is what the backend would
\* answer, however many decisions overlapped and whichever bulk reject or exclude failed;
\* except where a list is not calm: others wrote, a request that was no bulk reject or
\* exclude lost its answer or broke off, or the load that brought the list had read
\* before an answered write and was not cancelled.
THEOREM DeskShowsWrites == DeskSpec => []OwnWritesShown
<1>1. DeskInv => OwnWritesShown
  BY DEF DeskInv, Busy, Current, OwnWritesShown, Quiet, Idle, Held
<1> QED BY <1>1, DeskSound, PTL

=============================================================================
