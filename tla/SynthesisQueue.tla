--------------------------- MODULE SynthesisQueue ---------------------------
(***************************************************************************)
(* SynthesisQueue (src/tts/synthesis.cpp): the bounded deque of replies    *)
(* waiting for a voice, urgent ones first, and the thread that makes their *)
(* speech sentence by sentence.  The flight loop reads a Speech while the  *)
(* thread appends to it; each lock of its mutex is a step.                 *)
(***************************************************************************)
EXTENDS Naturals, SequencesExt

CONSTANTS
    Speeches,      \* the speeches that may be asked for, as numbers
    MaxWaiting,    \* kMaxWaiting, 16 in the code
    MaxSentences   \* bound: sentences of a speech

ASSUME SynthesisAssumption ==
    /\ Speeches \subseteq Nat \ {0}
    /\ MaxWaiting \in Nat \ {0}
    /\ MaxSentences \in Nat

VARIABLES
    request,     \* what is asked for: urgent or not, how many sentences
    submitted,   \* the speeches that exist
    jobs,        \* jobs_
    saying,      \* the job run() took, 0 when it waits
    made,        \* Speech::audio_: how many sentences are ready
    finished,    \* the speeches with finished_ set
    failed,      \* the speeches with failed_ set
    stage        \* "open", "stopping", "joined", and "gone" once destroyed

vars == <<request, submitted, jobs, saying, made, finished, failed, stage>>

Requests == [urgent : BOOLEAN, sentences : 0..MaxSentences]

InitEmpty ==
    /\ submitted = {}
    /\ jobs = <<>>
    /\ saying = 0
    /\ made = [s \in Speeches |-> 0]
    /\ finished = {}
    /\ failed = {}
    /\ stage = "open"

Init == request \in [Speeches -> Requests] /\ InitEmpty
-----------------------------------------------------------------------------
\* Speech::finish: a failure is never taken back.
FinishSpeeches(S, failure) ==
    /\ finished' = finished \union S
    /\ failed' = IF failure THEN failed \union S ELSE failed

\* The job given up on when the deque is full: the oldest routine one, or the
\* one in front when every job is urgent.
Routine == {i \in DOMAIN jobs : ~request[jobs[i]].urgent}
Victim  == IF Routine = {} THEN 1 ELSE CHOOSE i \in Routine : \A j \in Routine : i <= j
Full    == Len(jobs) >= MaxWaiting

Kept    == IF Full THEN RemoveAt(jobs, Victim) ELSE jobs
GivenUp == IF Full THEN {jobs[Victim]} ELSE {}

\* push_front for an urgent job, push_back for a routine one.
Queued(s) == IF request[s].urgent THEN <<s>> \o Kept ELSE Append(Kept, s)

\* Bug: the speech of the job given up on is left as it is.
SubmitForgetting(s) ==
    /\ stage \in {"open", "stopping"}
    /\ s \notin submitted
    /\ submitted' = submitted \union {s}
    /\ jobs' = Queued(s)
    /\ UNCHANGED <<request, saying, made, finished, failed, stage>>

Submit(s) ==
    /\ stage \in {"open", "stopping"}
    /\ s \notin submitted
    /\ submitted' = submitted \union {s}
    /\ jobs' = Queued(s)
    /\ FinishSpeeches(GivenUp, TRUE)
    /\ UNCHANGED <<request, saying, made, stage>>

\* run: take the job in front, unless stopping.
WorkerTakes ==
    /\ stage = "open"
    /\ saying = 0
    /\ jobs # <<>>
    /\ saying' = Head(jobs)
    /\ jobs' = Tail(jobs)
    /\ UNCHANGED <<request, submitted, made, finished, failed, stage>>

\* One more sentence, or no audio for it, or all of them made.
WorkerAdds ==
    /\ saying # 0
    /\ made[saying] < request[saying].sentences
    /\ made' = [made EXCEPT ![saying] = @ + 1]
    /\ UNCHANGED <<request, submitted, jobs, saying, finished, failed, stage>>

WorkerFails ==
    /\ saying # 0
    /\ made[saying] < request[saying].sentences
    /\ FinishSpeeches({saying}, TRUE)
    /\ saying' = 0
    /\ UNCHANGED <<request, submitted, jobs, made, stage>>

WorkerFinishes ==
    /\ saying # 0
    /\ made[saying] = request[saying].sentences
    /\ FinishSpeeches({saying}, FALSE)
    /\ saying' = 0
    /\ UNCHANGED <<request, submitted, jobs, made, stage>>

\* The destructor: stopping_ is set, the thread leaves between two jobs and is
\* joined, and the jobs it left are finished as failed.
Stop ==
    /\ stage = "open"
    /\ stage' = "stopping"
    /\ UNCHANGED <<request, submitted, jobs, saying, made, finished, failed>>

WorkerExits ==
    /\ stage = "stopping"
    /\ saying = 0
    /\ stage' = "joined"
    /\ UNCHANGED <<request, submitted, jobs, saying, made, finished, failed>>

GiveUpWaiting ==
    /\ stage = "joined"
    /\ FinishSpeeches(ToSet(jobs), TRUE)
    /\ jobs' = <<>>
    /\ stage' = "gone"
    /\ UNCHANGED <<request, submitted, saying, made>>

WorkerStep == WorkerTakes \/ WorkerAdds \/ WorkerFails \/ WorkerFinishes \/ WorkerExits

Next == (\E s \in Speeches : Submit(s)) \/ WorkerStep \/ Stop \/ GiveUpWaiting

Spec == Init /\ [][Next]_vars
-----------------------------------------------------------------------------
TypeOK ==
    /\ request \in [Speeches -> Requests]
    /\ submitted \subseteq Speeches
    /\ jobs \in Seq(Speeches)
    /\ saying \in Speeches \union {0}
    /\ made \in [Speeches -> 0..MaxSentences]
    /\ finished \subseteq submitted
    /\ failed \subseteq finished
    /\ stage \in {"open", "stopping", "joined", "gone"}

\* Every speech that is not finished has somebody who will finish it, exactly
\* one: it waits in the deque once or is being said.  Eviction, a failing
\* sentence and the destructor each have to finish what they take away
\* (synthesis.cpp:246-254, 267-297, 224-236).
UnfinishedSpeechHasAWorker ==
    \A s \in submitted \ finished :
        Cardinality({i \in DOMAIN jobs : jobs[i] = s})
          + (IF saying = s THEN 1 ELSE 0) = 1

=============================================================================
