------------------------ MODULE OperatorController ------------------------
(***************************************************************************)
(* The host's operator controllers: threads and processes that start and    *)
(* stop motion producers (control CLI processes) and runtimes, and share    *)
(* nothing but files, signals and one transition lock.                      *)
(*                                                                          *)
(* A call is a small stack machine: pc is the step of the innermost method, *)
(* stack says where the methods that called it go on.  The transition lock  *)
(* is the RLock of the caller's controller and then the flock: whoever      *)
(* waits for either just waits, so they are one lock here, and the call     *)
(* that is "inside" has it.  That a bounded wait expires is a choice that    *)
(* is open while the thing waited for has not come.                         *)
(***************************************************************************)
EXTENDS Naturals, Sequences, FiniteSets

CONSTANTS
    Callers,    \* threads that make one call each (bound of the model)
    Producers,  \* control CLI processes that may be spawned (bound)
    Runtimes,   \* supervised runtimes that may be spawned (bound)
    Nobody,     \* no process
    Jobs        \* the calls considered

ASSUME OperatorAssumption ==
    /\ Nobody \notin Callers \cup Producers \cup Runtimes
    /\ Jobs \subseteq {"stop", "shutdown", "move", "teleop", "proba"}
    /\ {"STOP", "ABSENT"} \cap Producers = {}
    /\ Producers \cap Runtimes = {}

VARIABLES
    call,       \* each caller's call
    marker,     \* .r2b4_sequence_pid: the owner of the test sequence
    mail,       \* the mailbox: a producer's motion, a STOP, or no file
    producer,   \* the life of each producer process
    spawner,    \* history: who spawned a living producer
    term,       \* living processes that were sent SIGTERM
    runtime,    \* the life of each supervised runtime
    pidFile,    \* .r2b4_runtime_pid
    status,     \* the runtime's last status report
    abandoned,  \* history: supervisors whose starter gave up on them
    revoked     \* history: sequences that were running when a stop() succeeded

motion == <<mail, producer, spawner>>
session == <<runtime, pidFile, abandoned>>
vars == <<call, marker, motion, term, session, status, revoked>>

(* Where a method that called another one goes on: on return, on an error.  *)
OnReturn ==
    [stop |-> "stop.again", off |-> "off.find", old |-> "start.check",
     none |-> "start.spawn", unready |-> "raise", start |-> "preempt",
     motion |-> "move.prepare", slot |-> "move.prepare", undo |-> "raise",
     test |-> "seq.mark", rearm |-> "seq.mark", phase |-> "seq.clean", sequence |-> "seq.final",
     clean |-> "seq.zero", final |-> "over"]

OnRaise == [stop |-> "stop.again", off |-> "off.kill", clean |-> "seq.zero",
            phase |-> "seq.clean", sequence |-> "seq.final"]

Labels == {"idle", "over", "dead",
    "stop.first", "stop.again", "stop.lock", "stop.idle",
    "rev.marker", "rev.term", "rev.gone",
    "off.first", "off.lock", "off.kill", "off.find", "off.gone",
    "ensure", "preempt",
    "start.old", "start.check", "start.spawn", "start.pid", "start.ready",
    "move.lock", "move.prepare", "move.admit", "move.spawn", "move.allow",
    "seq.lock", "seq.mark", "seq.phase", "seq.spawn", "seq.watch",
    "seq.clean", "seq.zero", "seq.final"}

(* inside: it has the transition.  err: producer_error of its stop(), or its *)
(* phase raised.  pass: its stop() repeats the preemption.  budget: of its    *)
(* transition.  awaits: the process it waits for.  pid: the runtime it holds   *)
(* for the current one.                                                     *)
CallStates ==
    [pc : Labels, stack : Seq(DOMAIN OnReturn), inside : BOOLEAN, err : BOOLEAN,
     pass : BOOLEAN, budget : {"none", "open", "spent"},
     awaits : Producers \cup Runtimes \cup {Nobody}, pid : Runtimes \cup {Nobody}]

NoCall == [pc |-> "idle", stack |-> <<>>, inside |-> FALSE, err |-> FALSE,
           pass |-> FALSE, budget |-> "none", awaits |-> Nobody, pid |-> Nobody]

TypeOK ==
    /\ call \in [Callers -> CallStates]
    /\ marker \in Callers \cup {Nobody}
    /\ mail \in Producers \cup {"STOP", "ABSENT"}
    /\ producer \in [Producers -> {"NONE", "STARTING", "ADMITTED", "SUPERSEDED", "GONE"}]
    /\ spawner \in [Producers -> Callers \cup {Nobody}]
    /\ term \subseteq Producers \cup Runtimes
    /\ runtime \in [Runtimes -> {"NONE", "SPAWNED", "BOOTING", "READY", "GONE"}]
    /\ pidFile \in Runtimes \cup {Nobody}
    /\ status \in {"NONE", "IDLE", "BUSY", "CLOSED"}
    /\ abandoned \subseteq Runtimes
    /\ revoked \subseteq Callers

Init ==
    /\ call = [c \in Callers |-> NoCall]
    /\ marker = Nobody
    /\ mail = "ABSENT"
    /\ producer = [p \in Producers |-> "NONE"]
    /\ spawner = [p \in Producers |-> Nobody]
    /\ term = {}
    /\ runtime = [r \in Runtimes |-> "NONE"]
    /\ pidFile = Nobody
    /\ status = "NONE"
    /\ abandoned = {}
    /\ revoked = {}

-----------------------------------------------------------------------------
(* The stack machine: what becomes of a call k.                              *)
At(c, l) == call[c].pc = l

Become(c, k) == call' = [call EXCEPT ![c] = k]

Goto(k, l) == [k EXCEPT !.pc = l]

Push(k, l, f) == [k EXCEPT !.pc = l, !.stack = <<f>> \o @]

(* The outermost transition ends: the call is over.                         *)
Over == [NoCall EXCEPT !.pc = "over"]

(* Mutant: a call that fails keeps the transition. *)
MutUnwind(k, frames) == [Over EXCEPT !.inside = k.inside]

(* An error leaves the methods that do not handle it.  The sequence's own    *)
(* handlers stand outside its transition.                                   *)
Unwind(k, frames) ==
    LET handlers == {i \in DOMAIN frames : frames[i] \in DOMAIN OnRaise}
        i == CHOOSE j \in handlers : \A h \in handlers : j <= h
    IN  IF handlers = {} THEN Over
        ELSE [k EXCEPT !.pc = OnRaise[frames[i]], !.awaits = Nobody, !.pass = @ /\ frames[i] = "stop",
                       !.err = frames[i] \in {"stop", "clean", "phase"},
                       !.stack = SubSeq(frames, i + 1, Len(frames)),
                       !.inside = @ /\ frames[i] \notin {"phase", "sequence"}]

Raise(k) == Unwind(k, k.stack)

Return(k) ==
    LET to == IF k.stack = <<>> THEN "over" ELSE OnReturn[Head(k.stack)]
    IN  CASE to = "over" -> Over
          [] to = "raise" -> Unwind(k, Tail(k.stack))
          [] OTHER -> [k EXCEPT !.pc = to, !.stack = Tail(@), !.awaits = Nobody,
                                !.pass = @ /\ to = "stop.again"]

(* Entering operator_transition: nested, or nobody is inside.                *)
MayEnter(c) == \A d \in Callers \ {c} : ~call[d].inside

Inside(k) == [k EXCEPT !.inside = TRUE]

Spent(k) == k.budget = "spent"

-----------------------------------------------------------------------------
(* What the controllers see of the host, and do to it.                       *)
Alive(p) == producer[p] \notin {"NONE", "GONE"}

Visible(r) == runtime[r] \in {"BOOTING", "READY"}

Recorded == pidFile # Nobody /\ Visible(pidFile)

(* Mutant: only the recorded process counts. *)
MutRuntimePid == IF Recorded THEN {pidFile} ELSE {}

(* _runtime_pid: the recorded process while it lives, else one /proc shows.  *)
RuntimePid == IF Recorded THEN {pidFile}
              ELSE {r \in Runtimes : Visible(r)}

(* A supervisor that has not spawned its runtime: nothing in /proc shows it.  *)
Unborn(S) == {r \in S \cap Runtimes : runtime[r] = "SPAWNED"}

(* A commit to the mailbox supersedes every admitted producer but its own.   *)
Superseded(by) ==
    [p \in Producers |-> IF producer[p] = "ADMITTED" /\ p # by
                         THEN "SUPERSEDED" ELSE producer[p]]

Commit(by, what) ==
    mail' = what /\ producer' = Superseded(by) /\ UNCHANGED spawner

PublishStop == Commit(Nobody, "STOP")

(* Contention with a hung producer or an I/O error.                         *)
PublicationFails == UNCHANGED motion

RuntimeKill ==
    IF RuntimePid = {} THEN UNCHANGED term
    ELSE \E r \in RuntimePid : term' = term \cup {r}

Spawn(c, p) ==
    /\ producer[p] = "NONE"
    /\ producer' = [producer EXCEPT ![p] = "STARTING"]
    /\ spawner' = [spawner EXCEPT ![p] = c]
    /\ UNCHANGED mail

-----------------------------------------------------------------------------
(* stop(): the preemption without the lock, then once more under it.         *)
Stopping(k) == [k EXCEPT !.pc = "stop.first", !.err = FALSE, !.pass = FALSE]

CallStop(k, f) == Stopping(Push(k, "stop.first", f))

(* An error of the first publication is left to the second one.             *)
StopFirst(c) ==
    /\ At(c, "stop.first")
    /\ PublishStop \/ PublicationFails
    /\ Become(c, Push(call[c], "rev.marker", "stop"))
    /\ UNCHANGED <<marker, term, session, status, revoked>>

StopAgain(c) ==
    /\ At(c, "stop.again")
    /\ \/ PublishStop /\ Become(c, Goto(call[c], "stop.lock"))
       \/ PublicationFails /\ Become(c, [call[c] EXCEPT !.pc = "stop.lock", !.err = TRUE])
    /\ UNCHANGED <<marker, term, session, status, revoked>>

(* A nested transition whose budget is spent raises before anything is       *)
(* repeated or the runtime is told to shut down.                            *)
CutShort(c) == call[c].inside /\ ~call[c].pass /\ Spent(call[c])

(* Mutant: the preemption is not repeated under the lock. *)
MutStopRepeats(c) ==
    /\ At(c, "stop.lock")
    /\ MayEnter(c)
    /\ ~CutShort(c) /\ ~call[c].err /\ ~call[c].pass
    /\ Become(c, [Inside(call[c]) EXCEPT !.pass = TRUE])
    /\ UNCHANGED <<marker, motion, term, session, status, revoked>>

StopRepeats(c) ==
    /\ At(c, "stop.lock")
    /\ MayEnter(c)
    /\ ~CutShort(c) /\ ~call[c].err /\ ~call[c].pass
    /\ Become(c, [Inside(call[c]) EXCEPT !.pc = "stop.first", !.pass = TRUE])
    /\ UNCHANGED <<marker, motion, term, session, status, revoked>>

StopCutShort(c) ==
    /\ At(c, "stop.lock")
    /\ CutShort(c)
    /\ Become(c, Raise(call[c]))
    /\ UNCHANGED <<marker, motion, term, session, status, revoked>>

(* Mutant: a cleanup that failed is only reported. *)
MutStopFails(c) ==
    /\ At(c, "stop.lock")
    /\ MayEnter(c)
    /\ ~CutShort(c) /\ call[c].err
    /\ Become(c, Raise(call[c]))
    /\ UNCHANGED <<marker, motion, term, session, status, revoked>>

(* A cleanup that failed asks the runtime itself to shut down.               *)
StopFails(c) ==
    /\ At(c, "stop.lock")
    /\ MayEnter(c)
    /\ ~CutShort(c) /\ call[c].err
    /\ RuntimeKill
    /\ Become(c, Raise(call[c]))
    /\ UNCHANGED <<marker, motion, session, status, revoked>>

(* stop(wait_idle=False) is the one that cleans up or precedes a shutdown.   *)
WaitsIdle(k) == k.stack = <<>> \/ Head(k.stack) \in {"motion", "test"}

InSequence(k) == \E i \in DOMAIN k.stack : k.stack[i] = "sequence"

(* Nothing failed: every sequence that is under way has been revoked.        *)
StopSucceeds(c) ==
    /\ At(c, "stop.lock")
    /\ call[c].pass /\ ~call[c].err
    /\ IF WaitsIdle(call[c]) /\ RuntimePid # {}
       THEN \E r \in RuntimePid :
              Become(c, [call[c] EXCEPT !.pc = "stop.idle", !.awaits = r])
       ELSE Become(c, Return(call[c]))
    /\ revoked' = revoked \cup {d \in Callers \ {c} : InSequence(call[d])}
    /\ UNCHANGED <<marker, motion, term, session, status>>

(* wait_idle: a fresh idle report of the same session, or a verified close.   *)
StopIdle(c) ==
    /\ At(c, "stop.idle")
    /\ \/ /\ \/ status = "CLOSED" /\ RuntimePid \subseteq {call[c].awaits}
             \/ status = "IDLE" /\ call[c].awaits \in RuntimePid
          /\ Become(c, Return(call[c]))
       \/ Become(c, Raise(call[c]))
    /\ UNCHANGED <<marker, motion, term, session, status, revoked>>

-----------------------------------------------------------------------------
(* _stop_command_producers; a sequence's cleanup enters at rev.term.          *)
RevokeMarker(c) ==
    /\ At(c, "rev.marker")
    /\ marker' = Nobody
    /\ Become(c, Goto(call[c], "rev.term"))
    /\ UNCHANGED <<motion, term, session, status, revoked>>

RevokeTerm(c) ==
    /\ At(c, "rev.term")
    /\ \/ \E p \in Producers :
            /\ Alive(p)
            /\ term' = term \cup {p}
            /\ Become(c, [call[c] EXCEPT !.pc = "rev.gone", !.awaits = p])
       \/ /\ \A p \in Producers : ~Alive(p)
          /\ Become(c, Return(call[c]))
          /\ UNCHANGED term
    /\ UNCHANGED <<marker, motion, session, status, revoked>>

(* _wait_gone; a wait that expires, or is cancelled, raises.                 *)
RevokeGone(c) ==
    /\ At(c, "rev.gone")
    /\ Become(c, IF Alive(call[c].awaits) THEN Raise(call[c])
                 ELSE [call[c] EXCEPT !.pc = "rev.term", !.awaits = Nobody])
    /\ UNCHANGED <<marker, motion, term, session, status, revoked>>

-----------------------------------------------------------------------------
(* runtime_stop().                                                          *)
OffFirst(c) ==
    /\ At(c, "off.first")
    /\ \/ PublishStop /\ UNCHANGED term
       \/ PublicationFails /\ RuntimeKill
    /\ Become(c, Goto(call[c], "off.lock"))
    /\ UNCHANGED <<marker, session, status, revoked>>

OffLock(c) ==
    /\ At(c, "off.lock")
    /\ MayEnter(c)
    /\ Become(c, IF call[c].inside /\ Spent(call[c]) THEN Raise(call[c])
                 ELSE Inside(CallStop(call[c], "off")))
    /\ UNCHANGED <<marker, motion, term, session, status, revoked>>

OffKill(c) ==
    /\ At(c, "off.kill")
    /\ RuntimeKill
    /\ Become(c, Goto(call[c], "off.find"))
    /\ UNCHANGED <<marker, motion, session, status, revoked>>

(* The capture's last seconds may use up the budget before the signal.       *)
OffFind(c) ==
    /\ At(c, "off.find")
    /\ \/ RuntimePid = {} /\ Become(c, Return(call[c])) /\ UNCHANGED term
       \/ \E r \in RuntimePid :
            /\ term' = term \cup {r}
            /\ Become(c, [call[c] EXCEPT !.pc = "off.gone", !.awaits = r])
       \/ RuntimePid # {} /\ Spent(call[c]) /\ Become(c, Raise(call[c])) /\ UNCHANGED term
    /\ UNCHANGED <<marker, motion, session, status, revoked>>

OffGone(c) ==
    /\ At(c, "off.gone")
    /\ IF Visible(call[c].awaits)
       THEN Become(c, Raise(call[c])) /\ UNCHANGED pidFile
       ELSE Become(c, Return(call[c])) /\ pidFile' = Nobody
    /\ UNCHANGED <<marker, motion, term, runtime, abandoned, status, revoked>>

-----------------------------------------------------------------------------
(* ensure_runtime() and runtime_start().                                     *)
(* A live runtime with the wanted capture identity is kept.                  *)
Ensure(c) ==
    /\ At(c, "ensure")
    /\ \/ ~Spent(call[c]) /\ RuntimePid # {} /\ Become(c, Goto(call[c], "preempt"))
       \/ ~Spent(call[c]) /\ Become(c, Push(call[c], "start.old", "start"))
       \/ Spent(call[c]) /\ Become(c, Raise(call[c]))
    /\ UNCHANGED <<marker, motion, term, session, status, revoked>>

Preempt(c) ==
    /\ At(c, "preempt")
    /\ Become(c, Stopping(call[c]))
    /\ UNCHANGED <<marker, motion, term, session, status, revoked>>

StartOld(c) ==
    /\ At(c, "start.old")
    /\ \/ /\ ~Spent(call[c])
          /\ RuntimePid = {}
          /\ Become(c, Push(call[c], "rev.marker", "none"))
       \/ /\ ~Spent(call[c])
          /\ \E r \in RuntimePid :
               Become(c, [Push(call[c], "off.first", "old") EXCEPT !.pid = r])
       \/ Spent(call[c]) /\ Become(c, Raise(call[c]))
    /\ UNCHANGED <<marker, motion, term, session, status, revoked>>

(* The old process is looked at again after five seconds.                    *)
StillRunning(c) == Visible(call[c].pid)

StartCheck(c) ==
    /\ At(c, "start.check")
    /\ \/ /\ StillRunning(c) \/ Spent(call[c])
          /\ Become(c, Raise(call[c]))
          /\ UNCHANGED pidFile
       \/ /\ ~StillRunning(c)
          /\ Become(c, [call[c] EXCEPT !.pc = "start.spawn", !.pid = Nobody])
          /\ pidFile' = Nobody
    /\ UNCHANGED <<marker, motion, term, runtime, abandoned, status, revoked>>

(* The mailbox is removed, then the supervisor is spawned.                   *)
StartSpawn(c) ==
    /\ At(c, "start.spawn")
    /\ Commit(Nobody, "ABSENT")
    /\ pidFile' = Nobody
    /\ \/ \E r \in Runtimes :
            /\ runtime[r] = "NONE"
            /\ runtime' = [runtime EXCEPT ![r] = "SPAWNED"]
            /\ Become(c, [call[c] EXCEPT !.pc = "start.pid", !.awaits = r])
       \/ Become(c, Raise(call[c])) /\ UNCHANGED runtime
    /\ UNCHANGED <<marker, term, abandoned, status, revoked>>

(* Two seconds for the pid file; a supervisor that is later is given up, not  *)
(* killed.                                                                  *)
StartPid(c) ==
    /\ At(c, "start.pid")
    /\ \/ /\ Recorded /\ ~Spent(call[c])
          /\ Become(c, [call[c] EXCEPT !.pc = "start.ready", !.pid = pidFile,
                                       !.awaits = Nobody])
          /\ UNCHANGED <<pidFile, abandoned>>
       \/ /\ ~(Recorded /\ ~Spent(call[c]))
          /\ pidFile' = Nobody
          /\ abandoned' = abandoned \cup Unborn({call[c].awaits})
          /\ Become(c, Raise(call[c]))
    /\ UNCHANGED <<marker, motion, term, runtime, status, revoked>>

StartReady(c) ==
    /\ At(c, "start.ready")
    /\ \/ /\ Visible(call[c].pid)
          /\ \E r \in Runtimes : runtime[r] = "READY"
          /\ Become(c, [Return(call[c]) EXCEPT !.pid = Nobody])
       \/ Become(c, [Push(call[c], "off.first", "unready") EXCEPT !.pid = Nobody])
    /\ UNCHANGED <<marker, motion, term, session, status, revoked>>

-----------------------------------------------------------------------------
(* finite_motion_transaction() and _start_motion().                          *)
MoveLock(c) ==
    /\ At(c, "move.lock")
    /\ \/ ~Spent(call[c]) /\ MayEnter(c)
          /\ Become(c, Inside(Push(call[c], "ensure", "motion")))
       \/ Spent(call[c]) /\ Become(c, Raise(call[c]))
    /\ UNCHANGED <<marker, motion, term, session, status, revoked>>

(* A used capture slot restarts the runtime before the session is recorded;   *)
(* only a finite motion records it, a plain one goes on.  The runtime may not   *)
(* become ready in time, though it lives.                                    *)
MovePrepare(c) ==
    /\ At(c, "move.prepare")
    /\ \/ \E r \in RuntimePid :
            /\ call[c].budget = "open"
            /\ Become(c, [call[c] EXCEPT !.pc = "move.admit", !.pid = r])
       \/ call[c].budget = "none" /\ Become(c, Goto(call[c], "move.spawn"))
       \/ Become(c, Push(call[c], "start.old", "slot"))
       \/ Become(c, Raise(call[c]))
    /\ UNCHANGED <<marker, motion, term, session, status, revoked>>

(* The session is still the prepared one.                                   *)
MoveAdmit(c) ==
    /\ At(c, "move.admit")
    /\ \/ /\ call[c].pid \in RuntimePid
          /\ ~Spent(call[c])
          /\ Become(c, [call[c] EXCEPT !.pc = "move.spawn", !.pid = Nobody])
       \/ /\ ~(RuntimePid = {call[c].pid} /\ ~Spent(call[c]))
          /\ Become(c, Raise(call[c]))
    /\ UNCHANGED <<marker, motion, term, session, status, revoked>>

MoveSpawn(c) ==
    /\ At(c, "move.spawn")
    /\ \/ \E p \in Producers :
            /\ ~Spent(call[c])
            /\ Spawn(c, p)
            /\ Become(c, [call[c] EXCEPT !.pc = "move.allow", !.awaits = p])
       \/ Become(c, CallStop(call[c], "undo")) /\ UNCHANGED motion
    /\ UNCHANGED <<marker, term, session, status, revoked>>

(* _wait_allow: acknowledged by the runtime, or everything is undone.        *)
MoveAllow(c) ==
    /\ At(c, "move.allow")
    /\ \/ /\ Alive(call[c].awaits)
          /\ RuntimePid # {}
          /\ status = "BUSY"
          /\ Become(c, Return(call[c]))
       \/ Become(c, CallStop(call[c], "undo"))
    /\ UNCHANGED <<marker, motion, term, session, status, revoked>>

-----------------------------------------------------------------------------
(* run_proba(): a sequence of motions that does not keep the lock.            *)
SeqLock(c) ==
    /\ At(c, "seq.lock")
    /\ MayEnter(c)
    /\ Become(c, Inside(Push(call[c], "ensure", "test")))
    /\ UNCHANGED <<marker, motion, term, session, status, revoked>>

(* A used capture slot restarts the runtime here, too; it may not become ready. *)
SeqPrepare(c) ==
    /\ At(c, "seq.mark")
    /\ \/ Become(c, Push(call[c], "start.old", "rearm"))
       \/ Become(c, Raise(call[c]))
    /\ UNCHANGED <<marker, motion, term, session, status, revoked>>

(* The owner's mark; the first transition ends here.                         *)
SeqMark(c) ==
    /\ At(c, "seq.mark")
    /\ marker' = c
    /\ Become(c, [NoCall EXCEPT !.pc = "seq.phase", !.stack = <<"sequence">>])
    /\ UNCHANGED <<motion, term, session, status, revoked>>

(* Mutant: a phase does not look whether the sequence still owns the mark. *)
MutOwnsPhase(c) == TRUE

OwnsPhase(c) == marker = c

(* A phase: ownership is checked and the motion started in one transition.    *)
SeqPhase(c) ==
    /\ At(c, "seq.phase")
    /\ MayEnter(c)
    /\ \/ /\ OwnsPhase(c)
          /\ PublishStop
          /\ Become(c, Inside(Push(call[c], "seq.spawn", "phase")))
       \/ /\ PublicationFails
          /\ Become(c, [call[c] EXCEPT !.pc = "seq.clean", !.err = TRUE])
    /\ UNCHANGED <<marker, term, session, status, revoked>>

(* The runtime reports idle; the producer is spawned and the transition left. *)
SeqSpawn(c) ==
    /\ At(c, "seq.spawn")
    /\ \/ \E p \in Producers :
            /\ status = "IDLE"
            /\ Spawn(c, p)
            /\ Become(c, [call[c] EXCEPT !.pc = "seq.watch", !.awaits = p,
                                         !.inside = FALSE])
       \/ Become(c, Raise(call[c])) /\ UNCHANGED motion
    /\ UNCHANGED <<marker, term, session, status, revoked>>

(* The phase is over, or its watch saw it revoked, dead or faulted.          *)
SeqWatch(c) ==
    /\ At(c, "seq.watch")
    /\ \/ marker = c /\ Alive(call[c].awaits) /\ Become(c, Return(call[c]))
       \/ Become(c, Raise(call[c]))
    /\ UNCHANGED <<marker, motion, term, session, status, revoked>>

(* Mutant: a sequence cleans up without looking whose motion it is. *)
MutOwns(c) == TRUE

Owns(c) == marker = c

AfterPhase(k) == IF k.err THEN "seq.final" ELSE "seq.phase"

(* The phase's finally: only the owner stops producers.                      *)
SeqClean(c) ==
    /\ At(c, "seq.clean")
    /\ MayEnter(c)
    /\ Become(c, IF Owns(c) THEN Inside(Push(call[c], "rev.term", "clean"))
                 ELSE Goto(call[c], AfterPhase(call[c])))
    /\ UNCHANGED <<marker, motion, term, session, status, revoked>>

SeqZero(c) ==
    /\ At(c, "seq.zero")
    /\ \/ /\ PublishStop
          /\ Become(c, [call[c] EXCEPT !.pc = AfterPhase(call[c]), !.inside = FALSE])
       \/ /\ PublicationFails
          /\ Become(c, [call[c] EXCEPT !.pc = "seq.final", !.inside = FALSE])
    /\ UNCHANGED <<marker, term, session, status, revoked>>

(* The last phase is done, or one raised: a sequence still owned is stopped.  *)
SeqFinal(c) ==
    /\ call[c].pc \in {"seq.phase", "seq.final"}
    /\ MayEnter(c)
    /\ Become(c, IF Owns(c) THEN Inside(CallStop([call[c] EXCEPT !.stack = <<>>], "final"))
                 ELSE Over)
    /\ UNCHANGED <<marker, motion, term, session, status, revoked>>

-----------------------------------------------------------------------------
(* The callers.                                                             *)
Entry == [stop |-> "stop.first", shutdown |-> "off.first", move |-> "move.lock",
          teleop |-> "move.lock", proba |-> "seq.lock"]

(* A finite motion has a deadline and a cancel event.                        *)
Begin(c) ==
    /\ At(c, "idle")
    /\ \E j \in Jobs :
         Become(c, [NoCall EXCEPT !.pc = Entry[j],
                                  !.budget = IF j = "move" THEN "open" ELSE "none"])
    /\ UNCHANGED <<marker, motion, term, session, status, revoked>>

Cancel(c) ==
    /\ call[c].budget = "open"
    /\ Become(c, [call[c] EXCEPT !.budget = "spent"])
    /\ UNCHANGED <<marker, motion, term, session, status, revoked>>

(* The process of a call is killed; the kernel drops its flock.              *)
Crash(c) ==
    /\ call[c].pc \notin {"idle", "over", "dead"}
    /\ abandoned' = abandoned \cup Unborn({call[c].awaits})
    /\ Become(c, Goto(Over, "dead"))
    /\ UNCHANGED <<marker, motion, term, runtime, pidFile, status, revoked>>

-----------------------------------------------------------------------------
(* The processes they spawn.                                                *)
(* A control CLI takes its cursor when it has started up.                    *)
Admit(p) ==
    /\ producer[p] = "STARTING"
    /\ producer' = [producer EXCEPT ![p] = "ADMITTED"]
    /\ UNCHANGED <<call, marker, mail, spawner, term, session, status, revoked>>

Heartbeat(p) ==
    /\ producer[p] = "ADMITTED"
    /\ mail # p
    /\ Commit(p, p)
    /\ UNCHANGED <<call, marker, term, session, status, revoked>>

Ends(p, others) ==
    /\ producer' = [others EXCEPT ![p] = "GONE"]
    /\ spawner' = [spawner EXCEPT ![p] = Nobody]
    /\ term' = term \ {p}
    /\ UNCHANGED <<call, marker, session, status, revoked>>

(* Superseded, signalled, orphaned or out of time: a STOP, then the end.     *)
UnwindProducer(p) ==
    /\ producer[p] \in {"ADMITTED", "SUPERSEDED"}
    /\ mail' = "STOP"
    /\ Ends(p, Superseded(p))

(* Killed, refused by its preflight, or ended without its STOP.              *)
EndProducer(p) ==
    /\ Alive(p)
    /\ Ends(p, producer)
    /\ UNCHANGED mail

(* run_runtime_session: the supervisor spawns the runtime and records it.     *)
Supervise(r) ==
    /\ runtime[r] = "SPAWNED"
    /\ runtime' = [runtime EXCEPT ![r] = "BOOTING"]
    /\ UNCHANGED <<call, marker, motion, term, pidFile, abandoned, status, revoked>>

Record(r) ==
    /\ runtime[r] = "BOOTING"
    /\ pidFile # r
    /\ pidFile' = r
    /\ UNCHANGED <<call, marker, motion, term, runtime, abandoned, status, revoked>>

Ready(r) ==
    /\ runtime[r] = "BOOTING"
    /\ runtime' = [runtime EXCEPT ![r] = "READY"]
    /\ status' = "IDLE"
    /\ UNCHANGED <<call, marker, motion, term, pidFile, abandoned, revoked>>

(* The runtime's report of what it executes.                                *)
Report(r) ==
    /\ runtime[r] = "READY"
    /\ status' = IF mail \in Producers THEN "BUSY" ELSE "IDLE"
    /\ status' # status
    /\ UNCHANGED <<call, marker, motion, term, session, revoked>>

(* A shutdown that was asked for closes verified; anything else does not.     *)
EndRuntime(r) ==
    /\ runtime[r] \in {"SPAWNED", "BOOTING", "READY"}
    /\ runtime' = [runtime EXCEPT ![r] = "GONE"]
    /\ term' = term \ {r}
    /\ \/ UNCHANGED status
       \/ r \in term /\ runtime[r] = "READY" /\ status' = "CLOSED"
    /\ UNCHANGED <<call, marker, motion, pidFile, abandoned, revoked>>

-----------------------------------------------------------------------------
CallStep(c) ==
    \/ StopFirst(c) \/ StopAgain(c) \/ StopRepeats(c) \/ StopCutShort(c)
    \/ StopSucceeds(c) \/ StopFails(c) \/ StopIdle(c)
    \/ RevokeMarker(c) \/ RevokeTerm(c) \/ RevokeGone(c)
    \/ OffFirst(c) \/ OffLock(c) \/ OffKill(c) \/ OffFind(c) \/ OffGone(c)
    \/ Ensure(c) \/ Preempt(c)
    \/ StartOld(c) \/ StartCheck(c) \/ StartSpawn(c) \/ StartPid(c) \/ StartReady(c)
    \/ MoveLock(c) \/ MovePrepare(c) \/ MoveAdmit(c) \/ MoveSpawn(c) \/ MoveAllow(c)
    \/ SeqLock(c) \/ SeqPrepare(c) \/ SeqMark(c) \/ SeqPhase(c) \/ SeqSpawn(c) \/ SeqWatch(c)
    \/ SeqClean(c) \/ SeqZero(c) \/ SeqFinal(c)

(* The one state the model may rest in: a deadlock is a call that hangs.       *)
Finished ==
    /\ \A c \in Callers : call[c].pc \in {"over", "dead"}
    /\ UNCHANGED vars

Next ==
    \/ \E c \in Callers : Begin(c) \/ CallStep(c) \/ Cancel(c) \/ Crash(c)
    \/ \E p \in Producers :
         Admit(p) \/ Heartbeat(p) \/ UnwindProducer(p) \/ EndProducer(p)
    \/ \E r \in Runtimes :
         Supervise(r) \/ Record(r) \/ Ready(r) \/ Report(r) \/ EndRuntime(r)
    \/ Finished

Spec == Init /\ [][Next]_vars

-----------------------------------------------------------------------------
(* A stop() that comes out clean leaves nothing that could move the robot: no *)
(* producer process at all, whoever spawned it and whenever, and a STOP in    *)
(* the mailbox ("so a concurrent ACTIVE transition cannot slip behind it").   *)
StopIsFinal ==
    \A c \in Callers :
      \/ At(c, "stop.lock") /\ call[c].pass /\ ~call[c].err
      \/ At(c, "stop.idle")
      => mail = "STOP" /\ \A p \in Producers : ~Alive(p)

(* However a stop() ends, even one that was cancelled half way, every producer *)
(* that is alive has been sent SIGTERM, or the runtime has.                  *)
EndedStopRevokes ==
    [][\A c \in Callers :
         At(c, "stop.lock") /\ call'[c].pc \notin {"stop.lock", "stop.first", "dead"}
           => \/ \A p \in Producers : Alive(p) => p \in term
              \/ RuntimePid = {}
              \/ RuntimePid \cap term' # {}]_vars

(* The mark in the file protects both ways.  Once a stop() has succeeded, a   *)
(* test sequence that was running never starts another phase; and what a      *)
(* sequence cleans up is its own ("A revoked/older sequence must not stop a    *)
(* newer owner's command").                                                 *)
RevokedSequenceRests ==
    [][/\ \A c \in revoked : ~(At(c, "seq.spawn") /\ call'[c].pc = "seq.watch")
       /\ \A c \in Callers :
            /\ At(c, "rev.term") /\ call'[c].pc = "rev.gone"
            /\ \E i \in DOMAIN call[c].stack : call[c].stack[i] \in {"clean", "final"}
            => spawner[call'[c].awaits] = c]_vars

(* While no supervisor was given up on, there is one runtime at most, and      *)
(* none when a new one is about to be spawned.                              *)
OneRuntime ==
    LET processes == {r \in Runtimes : runtime[r] \notin {"NONE", "GONE"}}
    IN  abandoned = {} =>
          /\ Cardinality(processes) <= 1
          /\ \A c \in Callers : At(c, "start.spawn") => processes = {}

(* Whichever way a call ends, by an error deep in nested methods, by its        *)
(* budget or by a kill, it has left the transition, and nobody else is in it    *)
(* while it is inside.                                                        *)
TransitionIsLeft ==
    \A c \in Callers :
      call[c].inside => /\ call[c].pc \notin {"idle", "over", "dead", "seq.watch", "seq.clean"}
                        /\ \A d \in Callers \ {c} : ~call[d].inside
=============================================================================
