----------------------------- MODULE RobotHost -----------------------------
(***************************************************************************)
(* The host's authority over motion: the public robot runtime, the brain     *)
(* core and the behaviour system.  Requests arrive in threads of their own;    *)
(* the brain's dispatcher and the host's poll are two more threads.            *)
(*                                                                          *)
(* The state, brain and behaviour locks are held only for short sections,      *)
(* always in this order: one section is one action, and a revocation of the      *)
(* host, which takes all three in turn, is one too.  The action lock, which is    *)
(* also the brain's execution lock, is held over whole submissions.             *)
(* A submission is a motion that the operator controller starts; a STOP leaves   *)
(* the robot still (OperatorController), and may raise.                        *)
(*                                                                          *)
(* A generation that a request captured is current as long as it is the        *)
(* newest admission (`newest`), the primary goal or the behaviour's owner.       *)
(***************************************************************************)
EXTENDS Naturals, FiniteSets

CONSTANTS
    Requests,   \* threads that serve one request each (bound of the model)
    AtOnce,     \* how many of them are served at once (bound of the model)
    Lasting,    \* how many of them are goals or skill runs (bound of the model)
    Jobs,       \* the requests considered
    Nobody

Kinds == {"preempt", "revoke", "fail", "manual", "behavior", "goal", "report", "skill"}

ASSUME HostAssumption ==
    /\ IsFiniteSet(Requests)
    /\ Nobody \notin Requests \cup {"dispatch"}
    /\ {"STILL", "dispatch"} \cap Requests = {}
    /\ AtOnce \in Nat
    /\ Lasting \in Nat
    /\ Jobs \subseteq Kinds

VARIABLES
    at,         \* where each request is
    job,        \* what it asks for
    newest,     \* the request whose host generation is current
    goal,       \* the life of the goal a request submitted
    primary,    \* the brain's primary goal
    inflight,   \* adoptions that still owe their STOP
    behavior,   \* the behaviour: whose it is and its life
    skill,      \* the skill run: whose it is and its life
    lock,       \* the thread that has the action lock
    thread,     \* dispatcher, poll and the skill's supervisor: where, for whom
    robot,      \* who moves the robot
    revoked,    \* history: requests whose authority was taken away
    stopped,    \* history: those that a STOP under the action lock came after
    escaped,    \* history: those that a hole let act against authority or lock
    beside,     \* history: who began to act while the adopted goal was current
    onward      \* history: the node served was reached by success, with no STOP

authority == <<newest, goal, primary, inflight, behavior, skill>>
history == <<stopped, escaped, beside, onward>>
vars == <<at, job, authority, lock, thread, robot, revoked, history>>

Steps == {"idle", "over",
    "stop", "drain", "enter", "quiet", "land", "landed", "undo", "fell",\* admissions
    "begin", "port", "accept", "check",                                \* behaviours
    "adopt", "propose", "cede", "wake",                                \* goals
    "running", "call", "send",                                                 \* skills
    "last"}                                                            \* preempt

Lives == {"NONE", "PENDING", "STARTING", "ACTIVE", "OVER"}
Running == {"STARTING", "ACTIVE"}

NoBehavior == [of |-> Nobody, life |-> "NONE"]
Threads == {"dispatch", "poll", "skill"}
Waiting == [at |-> "wait", of |-> Nobody]
NoSkill == [of |-> Nobody, life |-> "NONE", moves |-> FALSE]

Init ==
    /\ at = [c \in Requests |-> "idle"]
    /\ job = [c \in Requests |-> "none"]
    /\ newest = Nobody
    /\ goal = [c \in Requests |-> "NONE"]
    /\ primary = Nobody
    /\ inflight = {}
    /\ behavior = NoBehavior
    /\ skill = NoSkill
    /\ lock = Nobody
    /\ thread = [t \in Threads |-> Waiting]
    /\ robot = "STILL"
    /\ revoked = {}
    /\ stopped = {}
    /\ escaped = {}
    /\ beside = {}
    /\ onward = FALSE

TypeOK ==
    /\ at \in [Requests -> Steps]
    /\ job \in [Requests -> Kinds \cup {"none"}]
    /\ newest \in Requests \cup {Nobody}
    /\ goal \in [Requests -> Lives]
    /\ primary \in Requests \cup {Nobody}
    /\ inflight \subseteq Requests
    /\ behavior \in [of : Requests \cup {Nobody}, life : Lives]
    /\ skill \in [of : Requests \cup {Nobody}, life : Lives, moves : BOOLEAN]
    /\ lock \in Requests \cup {"dispatch", Nobody}
    /\ thread \in [Threads ->
          [at : {"wait", "stop", "start", "port", "land", "accept", "fail", "finish", "again", "end", "lock", "close"},
           of : Requests \cup {Nobody}]]
    /\ robot \in Requests \cup {"STILL"}
    /\ revoked \subseteq Requests /\ stopped \subseteq Requests /\ escaped \subseteq Requests
    /\ beside \subseteq Requests /\ onward \in BOOLEAN

-----------------------------------------------------------------------------
(* Authority and how it is taken away.                                       *)
Live(c) == behavior.of = c /\ behavior.life \in Running       \* BehaviorSystem generation

Current(c) == primary = c /\ goal[c] \in Running              \* BrainCore._current

Accepts(c) == skill.of = c /\ skill.life \in Running          \* SkillRuntime.accepts

(* _done is set when the terminal callback has returned.                     *)
Undone == skill.life # "NONE"

(* Whom the end of the behaviour takes authority from: a goal that is current or  *)
(* a skill run that is accepted may start another.                            *)
Owner == {c \in Requests : Live(c) /\ ~Current(c) /\ ~Accepts(c)}

EndBehavior == behavior' = [behavior EXCEPT !.life = IF @ \in Running THEN "OVER" ELSE @]

RevokedSkill == [skill EXCEPT !.life = IF @ \in Running THEN "OVER" ELSE @]

Goals == {c \in Requests : goal[c] \in {"PENDING", "STARTING", "ACTIVE"}}

CancelGoals(S) == goal' = [c \in Requests |-> IF c \in S THEN "OVER" ELSE goal[c]]

(* PublicRobotRuntime.revoke, or the same with a new admission.               *)
RevokeFor(c) ==
    /\ newest' = c
    /\ CancelGoals(Goals)
    /\ EndBehavior
    /\ skill' = RevokedSkill
    /\ revoked' = revoked \cup (({newest} \cup Owner \cup Goals \cup {a \in Requests : Accepts(a)}) \ {Nobody, c})
    /\ UNCHANGED <<primary, inflight>>

Go(c, step) == at' = [at EXCEPT ![c] = step]

Is(t, step) == thread[t].at = step

Be(t, step, c) == thread' = [thread EXCEPT ![t] = [at |-> step, of |-> c]]

Wait(t) == thread' = [thread EXCEPT ![t] = Waiting]

Stop == robot' = "STILL"

(* A STOP under the action lock: what was revoked before has landed or never  *)
(* will.                                                                    *)
LockedStop == Stop /\ stopped' = stopped \cup revoked

(* Who begins to act while an adopted goal is current acts beside it: an adoption  *)
(* replaces a skill run, but no admission that waits for the action lock.       *)
ActsBeside(c) ==
    beside' = IF \E g \in Requests : Current(g) THEN beside \cup {c} ELSE beside

-----------------------------------------------------------------------------
(* The requests.  A goal is submitted; all others take authority away first.   *)
(* A goal that fails is over; only the primary goal that moves owes a STOP.     *)
FailGoal(c) ==
    /\ CancelGoals({c})
    /\ revoked' = revoked \cup (IF Live(c) THEN {} ELSE {c})
    /\ UNCHANGED <<newest, primary, inflight, behavior, skill>>

Physical(c) == Current(c) /\ job[c] = "goal"

Lasts == {"goal", "skill"}

Begin(c) ==
    /\ at[c] = "idle"
    /\ Cardinality({a \in Requests : at[a] \notin {"idle", "over"}}) < AtOnce
    /\ \E j \in Jobs :
         /\ j \in Lasts => Cardinality({a \in Requests : job[a] \in Lasts}) < Lasting
         /\ job' = [job EXCEPT ![c] = j]
         /\ CASE j \in {"goal", "report"} ->
                    /\ goal' = [goal EXCEPT ![c] = "PENDING"]
                    /\ Go(c, "adopt")
                    /\ UNCHANGED <<newest, primary, inflight, behavior, skill, revoked>>
              [] j = "fail" ->
                    \E g \in Goals : FailGoal(g) /\ Go(c, IF Physical(g) THEN "fell" ELSE "over")
              [] OTHER ->
                    /\ RevokeFor(IF j \in {"preempt", "revoke"} THEN Nobody ELSE c)
                    /\ Go(c, IF j = "revoke" THEN "over" ELSE "stop")
    /\ UNCHANGED <<lock, thread, robot, history>>

(* The behaviour of a goal that failed, or of its successor, is ended.          *)
Fell(c) ==
    /\ at[c] = "fell"
    /\ EndBehavior
    /\ revoked' = revoked \cup Owner
    /\ Go(c, "stop")
    /\ UNCHANGED <<job, newest, goal, primary, inflight, skill, lock, thread, robot, history>>

(* The first STOP, outside the lock.                                         *)
EarlyStop(c) ==
    /\ at[c] = "stop"
    /\ Stop
    /\ \/ Go(c, IF job[c] \in {"preempt", "fail"} THEN "enter" ELSE "drain")
       \/ job[c] \notin {"preempt", "fail"} /\ Go(c, "over")
    /\ UNCHANGED <<job, authority, lock, thread, revoked, history>>

(* _drain_replaced_skill: the run before is done, or the request gives up.     *)
Drain(c) ==
    /\ at[c] = "drain"
    /\ \/ ~Undone /\ Go(c, IF job[c] \in {"goal", "report"} THEN "propose" ELSE "enter")
       \/ Undone /\ Go(c, "over")
    /\ UNCHANGED <<job, authority, lock, thread, robot, revoked, history>>

PreemptEnters(c) ==
    /\ at[c] = "enter" /\ job[c] = "preempt"
    /\ lock = Nobody
    /\ lock' = c
    /\ RevokeFor(Nobody)
    /\ Go(c, "last")
    /\ UNCHANGED <<job, thread, robot, history>>

(* Mutant: the final STOP is left to the first one. *)
MutFinalStop(c) ==
    /\ at[c] = "last"
    /\ stopped' = stopped \cup revoked
    /\ lock' = Nobody
    /\ skill' = [skill EXCEPT !.moves = FALSE]
    /\ Go(c, "over")
    /\ UNCHANGED <<job, newest, goal, primary, inflight, behavior, thread, robot, revoked,
                   escaped, beside, onward>>

FinalStop(c) ==
    /\ at[c] = "last"
    /\ LockedStop
    /\ lock' = Nobody
    /\ skill' \in {skill, [skill EXCEPT !.moves = FALSE]}
    /\ Go(c, "over")
    /\ UNCHANGED <<job, newest, goal, primary, inflight, behavior, thread, revoked,
                   escaped, beside, onward>>

(* A failed goal repeats its STOP under the lock unless a newer one came.      *)
FailStops(c) ==
    /\ at[c] = "enter" /\ job[c] = "fail"
    /\ lock = Nobody
    /\ Stop \/ UNCHANGED robot
    /\ Go(c, "over")
    /\ UNCHANGED <<job, authority, lock, thread, revoked, history>>

-----------------------------------------------------------------------------
(* A manual motion and a behaviour: admitted, then under the lock.             *)
Enter(c) ==
    /\ at[c] = "enter" /\ job[c] \in {"manual", "behavior"}
    /\ lock = Nobody
    /\ IF newest = c THEN lock' = c /\ Go(c, "quiet")
                     ELSE UNCHANGED lock /\ Go(c, "over")
    /\ UNCHANGED <<job, authority, thread, robot, revoked, history>>

(* Mutant: no second STOP before the submission. *)
MutQuiet(c) ==
    /\ at[c] = "quiet"
    /\ IF newest = c THEN Go(c, IF job[c] = "manual" THEN "land" ELSE "begin") /\ UNCHANGED lock
                     ELSE Go(c, "over") /\ lock' = Nobody
    /\ UNCHANGED <<job, authority, thread, robot, revoked, history>>

(* The second STOP and the second look at the generation; the STOP may raise.  *)
Quiet(c) ==
    /\ at[c] = "quiet"
    /\ LockedStop
    /\ \/ /\ newest = c
          /\ Go(c, IF job[c] = "manual" THEN "land" ELSE "begin")
          /\ IF job[c] = "manual" THEN ActsBeside(c) ELSE UNCHANGED beside
          /\ UNCHANGED lock
       \/ Go(c, "over") /\ lock' = Nobody /\ UNCHANGED beside
    /\ UNCHANGED <<job, authority, thread, revoked, escaped, onward>>

(* The submission, or its failure, which has stopped the robot.               *)
Land(c) ==
    /\ at[c] = "land"
    /\ \/ robot' = c /\ Go(c, IF job[c] = "manual" THEN "landed" ELSE "accept")
       \/ Stop /\ Go(c, IF job[c] = "manual" THEN "over" ELSE "undo")
    /\ lock' = IF at'[c] = "over" THEN Nobody ELSE lock
    /\ UNCHANGED <<job, authority, thread, revoked, history>>

ManualLanded(c) ==
    /\ at[c] = "landed" /\ job[c] = "manual"
    /\ IF newest = c THEN UNCHANGED robot ELSE Stop
    /\ lock' = Nobody
    /\ Go(c, "over")
    /\ UNCHANGED <<job, authority, thread, revoked, history>>

(* BehaviorSystem.start: the state is installed, the program may submit while   *)
(* its generation holds, and its result counts only then.                     *)
BehaviorBegins(c) ==
    /\ at[c] = "begin"
    /\ \/ /\ behavior.life \in Running
          /\ Go(c, "over") /\ lock' = Nobody
          /\ UNCHANGED <<behavior, escaped, beside>>
       \/ /\ behavior.life \notin Running
          /\ behavior' = [of |-> c, life |-> "STARTING"]
          /\ Go(c, "port") /\ UNCHANGED lock
          /\ escaped' = escaped \cup ({c} \cap revoked)
          /\ ActsBeside(c)
    /\ UNCHANGED <<job, newest, goal, primary, inflight, skill, thread, robot, revoked, stopped,
                   onward>>

Port(c) ==
    /\ at[c] = "port"
    /\ Go(c, IF Live(c) THEN "land" ELSE "undo")
    /\ UNCHANGED <<job, authority, lock, thread, robot, revoked, history>>

(* Mutant: a start that returns late makes its behaviour active. *)
MutAccepted(c) == [of |-> c, life |-> "ACTIVE"]

Accepted(c) == IF Live(c) THEN [of |-> c, life |-> "ACTIVE"] ELSE behavior

Accept(c) ==
    /\ at[c] = "accept"
    /\ behavior' = Accepted(c)
    /\ Go(c, "check")
    /\ UNCHANGED <<job, newest, goal, primary, inflight, skill, lock, thread, robot, revoked, history>>

(* An exception ends the behaviour if it is still this one, with a STOP.       *)
Undo(c) ==
    /\ at[c] = "undo"
    /\ IF Live(c) THEN EndBehavior /\ Stop ELSE UNCHANGED <<behavior, robot>>
    /\ Go(c, "check")
    /\ UNCHANGED <<job, newest, goal, primary, inflight, skill, lock, thread, revoked, history>>

(* What is not active after its start is stopped.                            *)
Check(c) ==
    /\ at[c] = "check" /\ job[c] = "behavior"
    /\ IF behavior.life \in Running THEN UNCHANGED robot ELSE Stop
    /\ Go(c, "over")
    /\ lock' = Nobody
    /\ UNCHANGED <<job, authority, thread, revoked, history>>

-----------------------------------------------------------------------------
(* A skill run, which begins only as the newest admission; its calls come in as  *)
(* requests, its supervisor cleans up.                                        *)
SkillBegins(c) ==
    /\ at[c] = "enter" /\ job[c] = "skill"
    /\ lock = Nobody
    /\ IF newest # c \/ Undone
       THEN UNCHANGED skill /\ Go(c, "over")
       ELSE skill' = [of |-> c, life |-> "ACTIVE", moves |-> FALSE] /\ Go(c, "running")
    /\ UNCHANGED <<job, newest, goal, primary, inflight, behavior, lock, thread, robot, revoked, history>>

(* _skill_action: accepted under the lock, a behaviour, or a motion that          *)
(* replaces the run's behaviour.                                             *)
SkillCalls(c) ==
    /\ at[c] = "running"
    /\ lock = Nobody
    /\ Accepts(c)
    /\ lock' = c
    /\ Go(c, "call")
    /\ UNCHANGED <<job, authority, thread, robot, revoked, history>>

SkillStarts(c) ==
    /\ at[c] = "call"
    /\ \/ /\ behavior.life \notin Running
          /\ behavior' = [of |-> c, life |-> "STARTING"]
          /\ Go(c, "port") /\ UNCHANGED robot
       \/ /\ IF behavior.life \in Running THEN EndBehavior /\ Stop ELSE UNCHANGED <<behavior, robot>>
          /\ Go(c, "send")
    /\ skill' = [skill EXCEPT !.moves = TRUE]
    /\ ActsBeside(c)
    /\ UNCHANGED <<job, newest, goal, primary, inflight, lock, thread, revoked, stopped, escaped,
                   onward>>

(* The run's motion; a finite one may be over when it returns.                *)
SkillSends(c) ==
    /\ at[c] = "send"
    /\ \/ robot' = c /\ Go(c, "landed") /\ UNCHANGED lock
       \/ Stop /\ Go(c, "running") /\ lock' = Nobody
    /\ UNCHANGED <<job, authority, thread, revoked, history>>

(* A call of a run that was revoked meanwhile undoes what it started.           *)
SkillLanded(c) ==
    /\ at[c] = "landed" /\ job[c] = "skill"
    /\ \/ Accepts(c) /\ UNCHANGED <<skill, robot>>
       \/ Accepts(c) /\ Stop /\ skill' = [skill EXCEPT !.moves = FALSE]
       \/ ~Accepts(c) /\ Stop /\ UNCHANGED skill
    /\ Go(c, "running")
    /\ lock' = Nobody
    /\ UNCHANGED <<job, newest, goal, primary, inflight, behavior, thread, revoked, history>>

SkillChecks(c) ==
    /\ at[c] = "check" /\ job[c] = "skill"
    /\ IF Accepts(c) THEN UNCHANGED <<behavior, robot>> ELSE EndBehavior /\ Stop
    /\ Go(c, "running")
    /\ lock' = Nobody
    /\ UNCHANGED <<job, newest, goal, primary, inflight, skill, thread, revoked, history>>

(* The worker returns, or it was revoked and is killed; it makes no more calls.  *)
SkillEnds(c) ==
    /\ Is("skill", "wait")
    /\ skill.of = c
    /\ at' = [at EXCEPT ![c] = IF @ = "running" THEN "over" ELSE @]
    /\ skill' = RevokedSkill
    /\ Be("skill", "end", c)
    /\ UNCHANGED <<job, newest, goal, primary, inflight, behavior, lock, robot, revoked, history>>

(* _skill_terminal: a run that moved the robot takes its behaviour along.       *)
SkillRevokes ==
    /\ Is("skill", "end")
    /\ IF skill.moves THEN EndBehavior /\ Be("skill", "stop", skill.of)
       ELSE UNCHANGED behavior /\ Be("skill", "close", skill.of)
    /\ revoked' = revoked \cup {skill.of} \cup (IF skill.moves THEN Owner ELSE {})
    /\ UNCHANGED <<at, job, newest, goal, primary, inflight, skill, lock, robot, history>>

SkillStops ==
    /\ Is("skill", "stop")
    /\ Stop
    /\ Be("skill", "lock", skill.of)
    /\ UNCHANGED <<at, job, authority, lock, revoked, history>>

SkillStopsAgain ==
    /\ Is("skill", "lock")
    /\ lock = Nobody
    /\ IF skill.moves THEN LockedStop ELSE UNCHANGED <<robot, stopped>>
    /\ skill' = [skill EXCEPT !.moves = FALSE]
    /\ Be("skill", "close", skill.of)
    /\ UNCHANGED <<at, job, newest, goal, primary, inflight, behavior, lock, revoked, escaped,
                   beside, onward>>

(* The run is done; a runtime that it had started is shut down.               *)
SkillCloses ==
    /\ Is("skill", "close")
    /\ lock = Nobody
    /\ Stop \/ UNCHANGED robot
    /\ skill' = NoSkill
    /\ Wait("skill")
    /\ UNCHANGED <<at, job, newest, goal, primary, inflight, behavior, lock, revoked, history>>

-----------------------------------------------------------------------------
(* Adopting a goal.                                                         *)
(* _stop_standalone_skill                                                   *)
StandaloneEnds(c) ==
    /\ at[c] = "adopt"
    /\ Undone
    /\ newest' = Nobody
    /\ skill' = RevokedSkill
    /\ IF skill.moves THEN EndBehavior ELSE UNCHANGED behavior
    /\ revoked' = revoked \cup (({newest, skill.of} \cup
                     (IF skill.moves THEN Owner ELSE {})) \ {Nobody})
    /\ Go(c, "stop")
    /\ UNCHANGED <<job, goal, primary, inflight, lock, thread, robot, history>>

(* The run before is done, or there was none: only then brain.adopt is called.   *)
NoSkillRuns(c) ==
    /\ at[c] = "adopt"
    /\ ~Undone
    /\ Go(c, "propose")
    /\ UNCHANGED <<job, authority, lock, thread, robot, revoked, history>>

(* The proposal was revoked, or an older or stronger goal refuses it.          *)
Refuse(c) ==
    /\ at[c] = "propose"
    /\ goal[c] # "PENDING" \/ primary # Nobody
    /\ CancelGoals({c})
    /\ revoked' = revoked \cup {c}
    /\ Go(c, "over")
    /\ UNCHANGED <<job, newest, primary, inflight, behavior, skill, lock, thread, robot, history>>

(* The goal takes the place of the current one and ends whatever behaviour is live. *)
Adopt(c) ==
    /\ at[c] = "propose"
    /\ goal[c] = "PENDING"
    /\ LET replaced == {g \in Requests : Current(g)}
       IN  /\ goal' = [g \in Requests |-> IF g = c THEN "STARTING"
                                          ELSE IF g \in replaced THEN "OVER" ELSE goal[g]]
           /\ revoked' = revoked \cup replaced \cup Owner
           /\ Go(c, IF replaced = {} /\ behavior.life \notin Running THEN "wake" ELSE "cede")
    /\ primary' = c
    /\ inflight' = inflight \cup {c}
    /\ EndBehavior
    /\ beside' = {}
    /\ UNCHANGED <<job, newest, skill, lock, thread, robot, stopped, escaped, onward>>

(* The STOP of what was replaced; if it raises the new goal fails.            *)
Cede(c) ==
    /\ at[c] = "cede"
    /\ Stop
    /\ UNCHANGED goal \/ CancelGoals({c} \cap {g \in Requests : Current(g)})
    /\ Go(c, "wake")
    /\ UNCHANGED <<job, newest, primary, inflight, behavior, skill, lock, thread, revoked, history>>

Wake(c) ==
    /\ at[c] = "wake"
    /\ inflight' = inflight \ {c}
    /\ Go(c, "over")
    /\ UNCHANGED <<job, newest, goal, primary, behavior, skill, lock, thread, robot, revoked, history>>

-----------------------------------------------------------------------------
(* The dispatcher: one goal, in the action lock.                              *)
Dispatching(step) == Is("dispatch", step)

Served == thread["dispatch"].of

Leaves == lock' = Nobody /\ Wait("dispatch") /\ onward' = FALSE

(* The dispatcher goes on in the same hold of the lock.                       *)
Then(step) == Be("dispatch", step, Served) /\ UNCHANGED <<lock, onward>>

(* A goal with physical actions begins with a STOP, a report does not.         *)
Dispatch(c) ==
    /\ Dispatching("wait")
    /\ lock = Nobody
    /\ Current(c) /\ goal[c] = "STARTING" /\ inflight = {}
    /\ lock' = "dispatch"
    /\ Be("dispatch", IF job[c] = "goal" THEN "stop" ELSE "start", c)
    /\ UNCHANGED <<at, job, authority, robot, revoked, history>>

DispatchStops ==
    /\ Dispatching("stop")
    /\ LockedStop
    /\ Then("start") \/ Then("fail")
    /\ UNCHANGED <<at, job, authority, revoked, escaped, beside>>

(* A node failed and the goal has another for that, or tries it again: whatever  *)
(* behaviour is live is ended first.                                         *)
Recover(c) ==
    /\ EndBehavior
    /\ revoked' = revoked \cup Owner
    /\ lock' = "dispatch" /\ Be("dispatch", "again", c) /\ onward' = FALSE

(* A report may be the last node, a world condition is waited for; a control node or  *)
(* an observation that goes on to another leaves everything as it is.            *)
ControlNode ==
    /\ CancelGoals({Served}) \/ goal' = [goal EXCEPT ![Served] = "ACTIVE"]
    /\ Leaves /\ UNCHANGED <<behavior, revoked>>

(* _start, for the goal that is still current: a control node, a motion that is      *)
(* submitted or a behaviour that is started.                                 *)
DispatchStarts ==
    /\ Dispatching("start")
    /\ \/ ~Current(Served) /\ Leaves /\ UNCHANGED <<goal, behavior, revoked>>
       \/ /\ Current(Served)
          /\ \/ ControlNode
             \/ /\ job[Served] = "goal" /\ behavior.life \notin Running
                /\ behavior' = [of |-> Served, life |-> "STARTING"]
                /\ Then("port") /\ UNCHANGED <<goal, revoked>>
             \/ job[Served] = "goal" /\ Then("land") /\ UNCHANGED <<goal, behavior, revoked>>
             \/ Recover(Served) /\ UNCHANGED goal
             \/ Then("fail") /\ UNCHANGED <<goal, behavior, revoked>>
    /\ UNCHANGED <<at, job, newest, primary, inflight, skill, robot, stopped, escaped, beside>>

DispatchPort ==
    /\ Dispatching("port")
    /\ Then(IF Live(Served) THEN "land" ELSE "accept")
    /\ UNCHANGED <<at, job, authority, robot, revoked, stopped, escaped, beside>>

DispatchLands ==
    /\ Dispatching("land")
    /\ \/ robot' = Served /\ UNCHANGED behavior
       \/ Stop /\ (IF Live(Served) THEN EndBehavior ELSE UNCHANGED behavior)
    /\ Then("accept")
    /\ UNCHANGED <<at, job, newest, goal, primary, inflight, skill, revoked, stopped, escaped,
                   beside>>

(* A result counts for the goal and the behaviour that are still these.  A       *)
(* finite motion that is complete ends the goal or begins its next node, one that  *)
(* failed is recovered from or fails the goal, all in the same hold of the lock.  *)
DispatchAccepts ==
    /\ Dispatching("accept")
    /\ \/ /\ behavior' = Accepted(Served)
          /\ goal' = [goal EXCEPT ![Served] = IF Current(Served) THEN "ACTIVE" ELSE @]
          /\ Leaves /\ UNCHANGED revoked
       \/ /\ Current(Served) /\ goal[Served] = "STARTING" /\ ~Live(Served) /\ robot # Served
          /\ \/ CancelGoals({Served}) /\ Leaves /\ UNCHANGED <<behavior, revoked>>
             \/ Then("start") /\ UNCHANGED <<goal, behavior, revoked>>
             \/ Recover(Served) /\ UNCHANGED goal
             \/ Then("fail") /\ UNCHANGED <<goal, behavior, revoked>>
    /\ UNCHANGED <<at, job, newest, primary, inflight, skill, robot, stopped, escaped, beside>>

DispatchFails ==
    /\ Dispatching("fail")
    /\ IF Current(Served)
       THEN FailGoal(Served) /\ (IF Physical(Served) THEN Then("finish") ELSE Leaves)
       ELSE Leaves /\ UNCHANGED <<authority, revoked>>
    /\ UNCHANGED <<at, job, robot, stopped, escaped, beside>>

DispatchFinishes ==
    /\ Dispatching("finish")
    /\ EndBehavior
    /\ Stop
    /\ revoked' = revoked \cup Owner
    /\ stopped' = stopped \cup revoked \cup Owner
    /\ Leaves
    /\ UNCHANGED <<at, job, newest, goal, primary, inflight, skill, escaped, beside>>

(* BehaviorSystem.step in the dispatcher: the program ends or submits again.    *)
Tend ==
    /\ Dispatching("wait")
    /\ lock = Nobody
    /\ behavior.life = "ACTIVE"
    /\ \/ EndBehavior /\ Be("dispatch", "finish", behavior.of)
       \/ UNCHANGED behavior /\ Be("dispatch", "port", behavior.of)
    /\ lock' = "dispatch"
    /\ UNCHANGED <<at, job, newest, goal, primary, inflight, skill, robot, revoked, history>>

(* BrainCore.step: the node is done, by its mission, its behaviour or the world     *)
(* condition it waited for, and the goal with it or goes on to its next node; only  *)
(* a mission's end is a STOP.  Or the node failed.                            *)
Progress(c) ==
    /\ Dispatching("wait")
    /\ lock = Nobody
    /\ Current(c) /\ goal[c] = "ACTIVE"
    /\ \/ /\ ~Live(c)
          /\ Stop \/ UNCHANGED robot
          /\ \/ CancelGoals({c}) /\ UNCHANGED <<lock, thread, onward>>
             \/ /\ goal' = [goal EXCEPT ![c] = "STARTING"]
                /\ lock' = "dispatch" /\ Be("dispatch", "start", c) /\ onward' = TRUE
          /\ UNCHANGED <<behavior, revoked>>
       \/ Recover(c) /\ UNCHANGED <<goal, robot>>
       \/ /\ lock' = "dispatch" /\ Be("dispatch", "fail", c)
          /\ UNCHANGED <<goal, behavior, robot, revoked, onward>>
    /\ UNCHANGED <<at, job, newest, primary, inflight, skill, stopped, escaped, beside>>

(* The STOP before a node that recovers from a failure, or the same node again.   *)
DispatchAgain ==
    /\ Dispatching("again")
    /\ Stop
    /\ \/ Then("fail") /\ UNCHANGED goal
       \/ /\ Current(Served)
          /\ goal' = [goal EXCEPT ![Served] = "STARTING"]
          /\ Then("start")
       \/ ~Current(Served) /\ Leaves /\ UNCHANGED goal
    /\ UNCHANGED <<at, job, newest, primary, inflight, behavior, skill, revoked, stopped, escaped,
                   beside>>

-----------------------------------------------------------------------------
(* The poll steps the behaviour of a skill run, without the action lock.        *)
PollSteps ==
    /\ Is("poll", "wait")
    /\ Undone
    /\ \/ behavior.life \in Running /\ EndBehavior /\ Be("poll", "finish", behavior.of)
       \/ behavior.life = "ACTIVE" /\ Be("poll", "port", behavior.of) /\ UNCHANGED behavior
    /\ UNCHANGED <<at, job, newest, goal, primary, inflight, skill, lock, robot, revoked, history>>

PollPort ==
    /\ Is("poll", "port")
    /\ IF Live(thread["poll"].of) THEN Be("poll", "land", thread["poll"].of) ELSE Wait("poll")
    /\ UNCHANGED <<at, job, authority, lock, robot, revoked, history>>

PollLands ==
    /\ Is("poll", "land")
    /\ LET c == thread["poll"].of
       IN  \/ /\ robot' = c /\ UNCHANGED behavior
              /\ escaped' = IF Live(c) /\ lock = Nobody THEN escaped ELSE escaped \cup {c}
           \/ Stop /\ (IF Live(c) THEN EndBehavior ELSE UNCHANGED behavior) /\ UNCHANGED escaped
    /\ Wait("poll")
    /\ UNCHANGED <<at, job, newest, goal, primary, inflight, skill, lock, revoked, stopped, beside, onward>>

PollFinishes ==
    /\ Is("poll", "finish")
    /\ Stop
    /\ Wait("poll")
    /\ UNCHANGED <<at, job, authority, lock, revoked, history>>

-----------------------------------------------------------------------------
Serve(c) ==
    \/ Begin(c) \/ Fell(c) \/ EarlyStop(c) \/ Drain(c) \/ PreemptEnters(c) \/ FinalStop(c) \/ FailStops(c)
    \/ Enter(c) \/ Quiet(c) \/ Land(c) \/ ManualLanded(c)
    \/ BehaviorBegins(c) \/ Port(c) \/ Accept(c) \/ Undo(c) \/ Check(c)
    \/ SkillBegins(c) \/ SkillCalls(c) \/ SkillStarts(c) \/ SkillSends(c) \/ SkillLanded(c)
    \/ SkillChecks(c) \/ SkillEnds(c)
    \/ StandaloneEnds(c) \/ NoSkillRuns(c) \/ Refuse(c) \/ Adopt(c) \/ Cede(c) \/ Wake(c)

Next ==
    \/ \E c \in Requests : Serve(c) \/ Dispatch(c) \/ Progress(c)
    \/ DispatchStops \/ DispatchStarts \/ DispatchPort \/ DispatchLands
    \/ DispatchAccepts \/ DispatchFails \/ DispatchFinishes \/ DispatchAgain \/ Tend
    \/ SkillRevokes \/ SkillStops \/ SkillStopsAgain \/ SkillCloses
    \/ PollSteps \/ PollPort \/ PollLands \/ PollFinishes

Spec == Init /\ [][Next]_vars

-----------------------------------------------------------------------------
(* Once a STOP under the action lock is done, nothing that was revoked before    *)
(* it moves the robot again, however late its submission was ("so a late         *)
(* STARTING action cannot outlive the completed STOP request").  Two holes can    *)
(* break this, and `escaped` has whom they let through: a behaviour is installed   *)
(* after its admission was revoked, and the poll steps a behaviour without lock.   *)
StopHolds == robot \in stopped => robot \in escaped

(* What was revoked never has authority again: a start, an adoption or a          *)
(* result that comes late finds its generation gone.  Only a call of a skill run   *)
(* that was revoked meanwhile may end what it has just begun.                 *)
RevokedStays ==
    \A c \in revoked \ escaped :
        /\ Live(c) => lock = c /\ skill.of = c
        /\ ~Accepts(c)
        /\ goal[c] \notin {"PENDING", "STARTING", "ACTIVE"}

(* A manual motion, a behaviour, a goal's first node and a node that recovers from   *)
(* a failure begin to move a robot that is still, whatever moved it when the request  *)
(* was admitted or came late.  A node that a goal goes on to after a success has no    *)
(* STOP before it; still, of what moved the robot when the goal was adopted nothing    *)
(* is left: it finds the robot still, or moved by a request that began beside it.      *)
Starts(c) ==
    \/ at[c] = "land" /\ job[c] # "skill"
    \/ Is("dispatch", "land") /\ goal[c] = "STARTING"

CleanTakeover ==
    [][\A c \in Requests : robot # c /\ robot' = c /\ Starts(c)
         => \/ robot = "STILL"
            \/ {robot, c} \cap escaped' # {}
            \/ goal[c] = "STARTING" /\ onward /\ robot \in beside]_vars

(* "A STOP invalidates every previously queued request as well as ACTIVE": a      *)
(* behaviour that was revoked before a STOP under the lock is not live after it.  *)
StopInvalidates == \A c \in stopped : ~Live(c)
=============================================================================
