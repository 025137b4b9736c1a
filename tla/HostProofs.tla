---------------------------- MODULE HostProofs ----------------------------
(***************************************************************************)
(* Proofs about RobotHost, for any number of requests.                       *)
(*                                                                         *)
(* The invariant has a clause for every place of a request's thread and of   *)
(* the three other threads where what it has read may be stale.  A step is    *)
(* one critical section; each lemma says that one of them keeps the invariant. *)
(***************************************************************************)
EXTENDS RobotHost, TLAPS

(* The places of a request's thread inside the action lock.                 *)
Holding == {"quiet", "land", "landed", "begin", "port", "accept", "undo", "check", "call", "send", "last"}

(* The places before a request has installed anything.                      *)
Early == {"idle", "stop", "drain", "enter", "quiet", "begin", "adopt", "propose"}

(* The places where a request may have a behaviour or a motion of its own begun. *)
Calling == {"call", "send", "landed", "port", "land", "accept", "undo", "check"}

(* A thread is only where its kind of request takes it.                     *)
JobInv ==
    \A c \in Requests :
        /\ at[c] = "idle" => job[c] = "none"
        /\ at[c] \in {"quiet", "begin"} => job[c] \in {"manual", "behavior"}
        /\ at[c] = "begin" => job[c] = "behavior"
        /\ at[c] = "land" => job[c] \in {"manual", "behavior", "skill"}
        /\ at[c] = "landed" => job[c] \in {"manual", "skill"}
        /\ at[c] \in {"port", "accept", "undo", "check"} => job[c] \in {"behavior", "skill"}
        /\ at[c] \in {"running", "call", "send"} => job[c] = "skill"
        /\ at[c] \in {"adopt", "propose", "cede", "wake"} => job[c] \in {"goal", "report"}
        /\ at[c] = "enter" => job[c] \in {"preempt", "fail", "manual", "behavior", "skill"}
        /\ at[c] = "last" => job[c] = "preempt"
        /\ at[c] = "fell" => job[c] = "fail"
        /\ at[c] \in {"stop", "drain"} => job[c] \notin {"none", "revoke"}

(* Who is inside the lock holds it; the dispatcher works for a request that began, *)
(* and stops or starts for a goal.                                          *)
LockInv ==
    /\ \A c \in Requests : at[c] \in Holding => lock = c
    /\ ~Dispatching("wait") =>
          lock = "dispatch" /\ Served \in Requests /\ at[Served] # "idle" /\ goal[Served] # "PENDING"
    /\ ~Is("poll", "wait") => thread["poll"].of \in Requests
    /\ Dispatching("stop") \/ Dispatching("start") => goal[Served] # "NONE"

(* What owns the robot are requests of the kind that can: a goal that is PENDING or *)
(* a request that has not entered the lock has installed nothing.           *)
WhoInv ==
    \A c \in Requests :
        /\ newest = c => job[c] \in {"manual", "behavior", "skill"}
        /\ primary = c => job[c] \in {"goal", "report"}
        /\ goal[c] # "NONE" => job[c] \in {"goal", "report"}
        /\ goal[c] \in Running => primary = c
        /\ goal[c] = "PENDING" => behavior.of # c /\ primary # c
        /\ behavior.of = c => job[c] \in {"goal", "behavior", "skill"}
        /\ skill.of = c => job[c] = "skill"
        /\ at[c] \in Early => behavior.of # c /\ skill.of # c /\ primary # c

(* The skill's record, its thread and its behaviour agree; while a skill run calls *)
(* for a motion no other behaviour is live.                                 *)
SkillInv ==
    /\ (behavior.life = "NONE") = (behavior.of = Nobody)
    /\ (skill.life = "NONE") = (skill.of = Nobody)
    /\ skill.life # "PENDING"
    /\ ~Is("skill", "wait") => skill.life = "OVER"
    /\ skill.of = Nobody => ~skill.moves
    /\ \A c \in Requests :
          /\ at[c] \in Calling /\ job[c] = "skill" => skill.of = c
          /\ at[c] \in {"send", "landed"} /\ job[c] = "skill" => behavior.life \notin Running
          /\ at[c] = "last" => behavior.life \notin Running
          /\ Live(c) /\ job[c] = "skill" => skill.of = c /\ skill.moves
          /\ Live(c) /\ skill.of = c /\ skill.life = "OVER" => lock = c \/ Is("skill", "end")
          /\ newest = c /\ Undone /\ job[c] \in {"manual", "behavior"}
                => at[c] \in {"stop", "drain", "over"} /\ behavior.of # c

(* What was revoked is live only by one of the holes or inside the very call that will *)
(* take it back, and does not pass a test of its generation.                *)
RevokedInv ==
    /\ stopped \subseteq revoked
    /\ \A c \in revoked :
        /\ at[c] # "idle"
        /\ job[c] \in {"manual", "behavior", "skill", "goal", "report"}
        /\ Live(c) => c \in escaped \/ (lock = c /\ skill.of = c)
        /\ ~Accepts(c)
        /\ goal[c] \notin {"PENDING", "STARTING", "ACTIVE"}
        /\ at[c] \in {"stop", "drain", "enter", "quiet"} => newest # c

(* The lock's holder is not among what a STOP under the lock has covered, nor, unless *)
(* it escaped, is what the dispatcher is about to submit.                   *)
StoppedInv ==
    /\ lock \notin stopped
    /\ Dispatching("port") \/ Dispatching("land") => Served \notin stopped \ escaped
    /\ StopHolds

(* Nothing moves the robot but what came through one of the holes.          *)
Clean == robot = "STILL" \/ robot \in escaped

(* Between the STOP of a takeover and the new motion the robot stays still; a node    *)
(* reached by success finds it as the one before left it.                   *)
CleanInv ==
    /\ \A c \in Requests : at[c] \in {"begin", "port", "land"} /\ job[c] # "skill" => Clean
    /\ /\ \/ Dispatching("start") /\ job[Served] = "goal"
          \/ Dispatching("port") \/ Dispatching("land") \/ Dispatching("accept")
       /\ goal[Served] = "STARTING"
       => Clean \/ robot = Served \/ (onward /\ robot \in beside)
    /\ behavior.life = "ACTIVE" => goal[behavior.of] # "STARTING"
    /\ Dispatching("again") => behavior.life \notin Running

(* While a goal with physical actions is under way, only what began beside it may move *)
(* the robot or be live, and it is known from the moment it is about to.    *)
BesideInv ==
    \A g \in Requests :
        /\ goal[g] = "ACTIVE" /\ job[g] = "goal" => Clean \/ robot = g \/ robot \in beside
        /\ goal[g] \in Running => \A b \in Requests : Live(b) => b = g \/ b \in beside \cup escaped
        /\ goal[g] = "ACTIVE" =>
              /\ Dispatching("port") \/ Dispatching("land") => Served = g \/ Served \in beside \cup escaped
              /\ \A c \in Requests : at[c] \in {"port", "land", "send"} => c \in beside

(* The inductive invariant.                                                 *)
IInv ==
    TypeOK /\ JobInv /\ LockInv /\ WhoInv /\ SkillInv /\ RevokedInv /\ StoppedInv /\ CleanInv
    /\ BesideInv

(* Small definitions that nearly every step opens.                          *)
USE HostAssumption DEF Go, Is, Be, Wait, Waiting, Stop, Running, Dispatching, Served, Then, authority,
                       history

-----------------------------------------------------------------------------
(* A revoked skill keeps its record and is over.                            *)
LEMMA RevokedSkillIs ==
    ASSUME TypeOK
    PROVE  /\ RevokedSkill.of = skill.of
           /\ RevokedSkill.moves = skill.moves
           /\ RevokedSkill.life = IF skill.life \in Running THEN "OVER" ELSE skill.life
BY DEF TypeOK, RevokedSkill

(* A behaviour that is ended keeps its owner.                               *)
LEMMA EndedBehaviorIs ==
    ASSUME TypeOK, EndBehavior
    PROVE  /\ behavior'.of = behavior.of
           /\ behavior'.life = IF behavior.life \in Running THEN "OVER" ELSE behavior.life
BY DEF TypeOK, EndBehavior

(* A takeover changes the newest request only, and what it finds is over.   *)
LEMMA RevokeForIs ==
    ASSUME TypeOK, NEW c \in Requests \cup {Nobody}, RevokeFor(c)
    PROVE  /\ newest' = c /\ primary' = primary
           /\ behavior'.of = behavior.of /\ skill'.of = skill.of
           /\ \A d \in Requests : goal'[d] \in {goal[d], "OVER"} /\ (goal[d] = "NONE" => goal'[d] = "NONE")
<1>1. \A d \in Requests : goal'[d] \in {goal[d], "OVER"} /\ (goal[d] = "NONE" => goal'[d] = "NONE")
    BY DEF TypeOK, RevokeFor, CancelGoals, Goals
<1>2. skill'.of = skill.of
    BY RevokedSkillIs DEF RevokeFor
<1>3. behavior'.of = behavior.of
    BY EndedBehaviorIs DEF RevokeFor
<1>4. QED
    BY <1>1, <1>2, <1>3 DEF RevokeFor

-----------------------------------------------------------------------------
(* execute() and its siblings: the request takes the newest place or proposes a goal. *)
LEMMA BeginHolds ==
    ASSUME IInv, NEW c \in Requests, Begin(c)
    PROVE  IInv'
<1>1. TypeOK' /\ StoppedInv'
    BY DEF IInv, TypeOK, StoppedInv, Begin, Steps, Lives, StopHolds, Goals, FailGoal,
           CancelGoals, RevokeFor, EndBehavior, RevokedSkill, Owner
<1>2. JobInv'
    <2>1. at \in [Requests -> Steps] /\ job \in [Requests -> Kinds \cup {"none"}]
        BY DEF IInv, TypeOK
    <2>2. PICK j \in Jobs :
             /\ job' = [job EXCEPT ![c] = j]
             /\ \/ j \in {"goal", "report"} /\ at' = [at EXCEPT ![c] = "adopt"]
                \/ j = "fail" /\ at' = [at EXCEPT ![c] = "fell"]
                \/ at' = [at EXCEPT ![c] = "over"]
                \/ j \notin {"goal", "report", "fail", "revoke"} /\ at' = [at EXCEPT ![c] = "stop"]
        BY DEF Begin
    <2>3. j \in Kinds
        BY <2>2
    <2>4. QED
        BY <2>1, <2>2, <2>3 DEF IInv, JobInv, Kinds
<1>3. LockInv'
    BY DEF IInv, TypeOK, LockInv, Begin, Holding, FailGoal, CancelGoals, RevokeFor
<1>4. WhoInv'
    <2>1. /\ behavior.of # c /\ skill.of # c /\ primary # c
          /\ job[c] = "none" /\ at[c] = "idle" /\ newest # c /\ goal[c] = "NONE"
        BY DEF IInv, TypeOK, JobInv, WhoInv, Begin, Early, Lives
    <2>2. PICK j \in Jobs :
             /\ job' = [job EXCEPT ![c] = j]
             /\ \/ /\ j \in {"goal", "report"}
                   /\ goal' = [goal EXCEPT ![c] = "PENDING"]
                   /\ UNCHANGED <<newest, primary, behavior, skill>>
                \/ \E g \in Goals : FailGoal(g)
                \/ RevokeFor(Nobody)
                \/ j \in {"manual", "behavior", "skill"} /\ RevokeFor(c)
        BY DEF Begin, Kinds
    <2>3. /\ behavior'.of = behavior.of /\ skill'.of = skill.of /\ primary' = primary
          /\ newest' \in {newest, Nobody} \/ (newest' = c /\ j \in {"manual", "behavior", "skill"})
          /\ goal'[c] = goal[c] \/ (j \in {"goal", "report"} /\ goal'[c] = "PENDING")
          /\ \A d \in Requests \ {c} :
                goal'[d] \in {goal[d], "OVER"} /\ (goal[d] = "NONE" => goal'[d] = "NONE")
        <3>1. CASE j \in {"goal", "report"} /\ goal' = [goal EXCEPT ![c] = "PENDING"]
                      /\ UNCHANGED <<newest, primary, behavior, skill>>
            BY <3>1 DEF IInv, TypeOK
        <3>2. CASE \E g \in Goals : FailGoal(g)
            BY <3>2, <2>1 DEF IInv, TypeOK, FailGoal, CancelGoals, Goals
        <3>3. CASE RevokeFor(Nobody)
            BY <3>3, <2>1, RevokeForIs DEF IInv
        <3>4. CASE j \in {"manual", "behavior", "skill"} /\ RevokeFor(c)
            BY <3>4, <2>1, RevokeForIs DEF IInv
        <3>5. QED
            BY <2>2, <3>1, <3>2, <3>3, <3>4
    <2>4. \A d \in Requests \ {c} : at'[d] = at[d] /\ job'[d] = job[d]
        BY <2>2 DEF IInv, TypeOK, Begin
    <2>5. job'[c] = j
        BY <2>2 DEF IInv, TypeOK
    <2>6. QED
        BY <2>1, <2>3, <2>4, <2>5 DEF IInv, WhoInv
<1>5. SkillInv'
    BY DEF IInv, TypeOK, WhoInv, SkillInv, Begin, Early, Calling, Live, Undone, FailGoal,
           CancelGoals, RevokeFor, EndBehavior, RevokedSkill
<1>6. RevokedInv'
    BY DEF IInv, TypeOK, JobInv, WhoInv, RevokedInv, Begin, Live, Accepts, Goals, FailGoal,
           CancelGoals, RevokeFor, EndBehavior, RevokedSkill, Owner
<1>7. CleanInv'
    BY DEF IInv, TypeOK, LockInv, SkillInv, CleanInv, Begin, Clean, FailGoal, CancelGoals,
           RevokeFor, EndBehavior
<1>8. BesideInv'
    BY DEF IInv, TypeOK, BesideInv, Begin, Live, Clean, JobInv, WhoInv, Early, Goals, FailGoal, CancelGoals, RevokeFor, EndBehavior
<1>9. QED
    BY <1>1, <1>2, <1>3, <1>4, <1>5, <1>6, <1>7, <1>8 DEF IInv

(* brain.fail ends a behaviour after its lock was left, perhaps the successor's. *)
LEMMA FellHolds ==
    ASSUME IInv, NEW c \in Requests, Fell(c)
    PROVE  IInv'
<1>1. TypeOK' /\ JobInv' /\ LockInv' /\ SkillInv' /\ StoppedInv' /\ CleanInv'
    BY DEF IInv, TypeOK, JobInv, LockInv, SkillInv, StoppedInv, CleanInv, Fell, Steps, Lives,
           Holding, Live, Undone, StopHolds, Clean, EndBehavior, Owner
<1>2. WhoInv'
    <2>1. /\ behavior'.of = behavior.of
          /\ UNCHANGED <<job, newest, goal, primary, inflight, skill>>
          /\ at' = [at EXCEPT ![c] = "stop"] /\ at[c] = "fell"
        BY DEF IInv, TypeOK, Fell, EndBehavior
    <2>2. behavior.of # c /\ skill.of # c /\ primary # c
        BY <2>1 DEF IInv, WhoInv, JobInv
    <2>3. QED
        BY <2>1, <2>2 DEF IInv, WhoInv, TypeOK
<1>3. RevokedInv'
    BY DEF IInv, JobInv, WhoInv, RevokedInv, Fell, Early, Live, Accepts, EndBehavior, Owner,
           Current
<1>4. BesideInv'
    BY DEF IInv, TypeOK, BesideInv, Fell, Live, Clean, EndBehavior
<1>5. QED
    BY <1>1, <1>2, <1>3, <1>4 DEF IInv

(* The canonical STOP before the lock changes no authority.                 *)
LEMMA EarlyStopHolds ==
    ASSUME IInv, NEW c \in Requests, EarlyStop(c)
    PROVE  IInv'
<1>1. TypeOK' /\ CleanInv'
    BY DEF IInv, TypeOK, CleanInv, EarlyStop, Steps, Clean
<1>2. JobInv'
    BY DEF IInv, TypeOK, JobInv, EarlyStop
<1>3. LockInv'
    BY DEF IInv, TypeOK, LockInv, EarlyStop, Holding
<1>4. WhoInv'
    BY DEF IInv, TypeOK, WhoInv, EarlyStop, Early
<1>5. SkillInv'
    BY DEF IInv, TypeOK, SkillInv, EarlyStop, Calling, Live, Undone
<1>6. RevokedInv'
    BY DEF IInv, TypeOK, RevokedInv, EarlyStop, Live, Accepts
<1>7. StoppedInv'
    BY DEF IInv, TypeOK, StoppedInv, EarlyStop, StopHolds
<1>8. BesideInv'
    BY DEF IInv, TypeOK, BesideInv, EarlyStop, Live, Clean
<1>9. QED
    BY <1>1, <1>2, <1>3, <1>4, <1>5, <1>6, <1>7, <1>8 DEF IInv

(* Draining commands may raise; a goal goes on to its proposal.             *)
LEMMA DrainHolds ==
    ASSUME IInv, NEW c \in Requests, Drain(c)
    PROVE  IInv'
<1>1. TypeOK' /\ StoppedInv'
    BY DEF IInv, TypeOK, StoppedInv, Drain, Steps, StopHolds
<1>2. JobInv'
    <2>1. at \in [Requests -> Steps] /\ job' = job /\ at[c] = "drain"
        BY DEF IInv, TypeOK, Drain
    <2>2. \/ at' = [at EXCEPT ![c] = "over"]
          \/ at' = [at EXCEPT ![c] = "enter"] /\ job[c] \notin {"goal", "report"}
          \/ at' = [at EXCEPT ![c] = "propose"] /\ job[c] \in {"goal", "report"}
        BY DEF Drain
    <2>3. job[c] \in {"preempt", "fail", "manual", "behavior", "skill", "goal", "report"}
        BY <2>1 DEF IInv, TypeOK, JobInv, Kinds
    <2>4. QED
        BY <2>1, <2>2, <2>3 DEF IInv, JobInv
<1>3. LockInv'
    BY DEF IInv, TypeOK, LockInv, Drain, Holding
<1>4. WhoInv'
    BY DEF IInv, TypeOK, WhoInv, Drain, Early
<1>5. SkillInv'
    BY DEF IInv, TypeOK, SkillInv, Drain, Calling, Live, Undone
<1>6. RevokedInv'
    BY DEF IInv, TypeOK, RevokedInv, Drain, Live, Accepts
<1>7. CleanInv'
    BY DEF IInv, TypeOK, CleanInv, Drain, Clean
<1>8. BesideInv'
    BY DEF IInv, TypeOK, BesideInv, Drain, Live, Clean
<1>9. QED
    BY <1>1, <1>2, <1>3, <1>4, <1>5, <1>6, <1>7, <1>8 DEF IInv

(* preempt revokes whatever was installed while it waited for the lock.     *)
LEMMA PreemptEntersHolds ==
    ASSUME IInv, NEW c \in Requests, PreemptEnters(c)
    PROVE  IInv'
<1>1. TypeOK' /\ JobInv' /\ LockInv' /\ WhoInv' /\ SkillInv'
    BY DEF IInv, TypeOK, JobInv, LockInv, WhoInv, SkillInv, PreemptEnters, Steps, Lives, Live,
           RevokeFor, CancelGoals, Goals, EndBehavior, RevokedSkill, Owner
<1>2. RevokedInv'
    BY DEF IInv, TypeOK, JobInv, WhoInv, RevokedInv, PreemptEnters, Live, Accepts, RevokeFor,
           CancelGoals, Goals, EndBehavior, RevokedSkill, Owner
<1>3. StoppedInv'
    BY DEF IInv, RevokedInv, StoppedInv, PreemptEnters, StopHolds
<1>4. CleanInv'
    BY DEF IInv, LockInv, CleanInv, PreemptEnters, Holding, RevokeFor, EndBehavior
<1>5. BesideInv'
    BY DEF IInv, TypeOK, BesideInv, PreemptEnters, Live, Clean, RevokeFor, Goals, CancelGoals, EndBehavior
<1>6. QED
    BY <1>1, <1>2, <1>3, <1>4, <1>5 DEF IInv

(* The STOP under the lock: what was revoked before is covered by it from now on. *)
LEMMA FinalStopHolds ==
    ASSUME IInv, NEW c \in Requests, FinalStop(c)
    PROVE  IInv'
<1>1. JobInv' /\ CleanInv'
    BY DEF IInv, JobInv, CleanInv, FinalStop, Clean, LockedStop
<1>2. TypeOK'
    <2>1. skill' \in [of : Requests \cup {Nobody}, life : Lives, moves : BOOLEAN]
        BY DEF IInv, TypeOK, FinalStop
    <2>2. QED
        BY <2>1 DEF IInv, TypeOK, FinalStop, LockedStop, Steps
<1>3. LockInv'
    BY DEF IInv, TypeOK, LockInv, FinalStop, Holding
<1>4. WhoInv'
    BY DEF IInv, TypeOK, WhoInv, FinalStop, Early
<1>5. SkillInv'
    BY DEF IInv, TypeOK, SkillInv, FinalStop, Calling, Live, Undone
<1>6. RevokedInv'
    BY DEF IInv, TypeOK, SkillInv, RevokedInv, FinalStop, Live, Accepts, LockedStop
<1>7. StoppedInv'
    BY DEF IInv, TypeOK, LockInv, StoppedInv, FinalStop, Holding, StopHolds, LockedStop
<1>8. BesideInv'
    BY DEF IInv, TypeOK, BesideInv, FinalStop, Live, Clean, LockedStop
<1>9. QED
    BY <1>1, <1>2, <1>3, <1>4, <1>5, <1>6, <1>7, <1>8 DEF IInv

(* A failed goal may repeat its STOP under the lock.                        *)
LEMMA FailStopsHolds ==
    ASSUME IInv, NEW c \in Requests, FailStops(c)
    PROVE  IInv'
<1>1. TypeOK' /\ JobInv' /\ LockInv' /\ WhoInv' /\ SkillInv' /\ RevokedInv' /\ CleanInv'
    BY DEF IInv, TypeOK, JobInv, LockInv, WhoInv, SkillInv, RevokedInv, CleanInv, FailStops,
           Steps, Holding, Live, Undone, Accepts
<1>2. StoppedInv'
    BY DEF IInv, TypeOK, StoppedInv, FailStops, StopHolds
<1>3. BesideInv'
    BY DEF IInv, TypeOK, BesideInv, FailStops, Live, Clean
<1>4. QED
    BY <1>1, <1>2, <1>3 DEF IInv

(* A request enters the lock and reads its generation.                      *)
LEMMA EnterHolds ==
    ASSUME IInv, NEW c \in Requests, Enter(c)
    PROVE  IInv'
<1>1. TypeOK'
    BY DEF IInv, TypeOK, Enter, Steps
<1>2. JobInv'
    BY DEF IInv, TypeOK, JobInv, Enter
<1>3. LockInv'
    BY DEF IInv, TypeOK, LockInv, Enter, Holding
<1>4. WhoInv'
    BY DEF IInv, TypeOK, WhoInv, Enter, Early
<1>5. SkillInv'
    BY DEF IInv, TypeOK, SkillInv, Enter, Live, Undone
<1>6. RevokedInv'
    BY DEF IInv, TypeOK, RevokedInv, Enter, Live, Accepts
<1>7. StoppedInv'
    BY DEF IInv, RevokedInv, StoppedInv, Enter, StopHolds
<1>8. CleanInv'
    BY DEF IInv, TypeOK, CleanInv, Enter, Clean
<1>9. BesideInv'
    BY DEF IInv, TypeOK, BesideInv, Enter, Live, Clean
<1>10. QED
    BY <1>1, <1>2, <1>3, <1>4, <1>5, <1>6, <1>7, <1>8, <1>9 DEF IInv

(* The STOP under the lock before a new motion.                             *)
LEMMA QuietHolds ==
    ASSUME IInv, NEW c \in Requests, Quiet(c)
    PROVE  IInv'
<1>1. TypeOK' /\ CleanInv'
    BY DEF IInv, TypeOK, CleanInv, Quiet, Steps, Clean, LockedStop, ActsBeside
<1>2. JobInv'
    BY DEF IInv, TypeOK, JobInv, Quiet
<1>3. LockInv'
    BY DEF IInv, TypeOK, LockInv, Quiet, Holding
<1>4. WhoInv'
    BY DEF IInv, TypeOK, WhoInv, Quiet, Early
<1>5. SkillInv'
    BY DEF IInv, TypeOK, JobInv, LockInv, WhoInv, SkillInv, Quiet, Holding, Live, Undone
<1>6. RevokedInv'
    BY DEF IInv, TypeOK, JobInv, LockInv, WhoInv, RevokedInv, Quiet, Holding, Live, Accepts,
           LockedStop
<1>7. StoppedInv'
    BY DEF IInv, TypeOK, LockInv, RevokedInv, StoppedInv, Quiet, Holding, StopHolds, LockedStop
<1>8. BesideInv'
    BY DEF IInv, TypeOK, BesideInv, Quiet, Live, Clean, WhoInv, ActsBeside, Current, LockedStop
<1>9. QED
    BY <1>1, <1>2, <1>3, <1>4, <1>5, <1>6, <1>7, <1>8 DEF IInv

(* The submission of a request arrives, or fails and is stopped.            *)
LEMMA LandHolds ==
    ASSUME IInv, NEW c \in Requests, Land(c)
    PROVE  IInv'
<1>1. TypeOK'
    BY DEF IInv, TypeOK, Land, Steps
<1>2. JobInv'
    BY DEF IInv, TypeOK, JobInv, Land
<1>3. LockInv'
    BY DEF IInv, TypeOK, LockInv, Land, Holding
<1>4. WhoInv'
    BY DEF IInv, TypeOK, WhoInv, Land, Early
<1>5. SkillInv'
    BY DEF IInv, TypeOK, LockInv, WhoInv, SkillInv, Land, Holding, Calling, Live, Undone
<1>6. RevokedInv'
    BY DEF IInv, TypeOK, LockInv, WhoInv, RevokedInv, Land, Holding, Live, Accepts
<1>7. StoppedInv'
    BY DEF IInv, TypeOK, LockInv, StoppedInv, Land, Holding, StopHolds
<1>8. CleanInv'
    BY DEF IInv, TypeOK, LockInv, CleanInv, Land, Holding
<1>9. BesideInv'
    BY DEF IInv, TypeOK, BesideInv, Land, Live, Clean
<1>10. QED
    BY <1>1, <1>2, <1>3, <1>4, <1>5, <1>6, <1>7, <1>8, <1>9 DEF IInv

(* A manual motion is sent; the lock is free.                               *)
LEMMA ManualLandedHolds ==
    ASSUME IInv, NEW c \in Requests, ManualLanded(c)
    PROVE  IInv'
<1>1. TypeOK' /\ JobInv' /\ WhoInv' /\ CleanInv'
    BY DEF IInv, TypeOK, JobInv, WhoInv, CleanInv, ManualLanded, Steps, Clean
<1>2. LockInv'
    BY DEF IInv, TypeOK, LockInv, ManualLanded, Holding
<1>3. SkillInv'
    BY DEF IInv, LockInv, WhoInv, SkillInv, ManualLanded, Holding, Live, Undone
<1>4. RevokedInv'
    BY DEF IInv, LockInv, WhoInv, RevokedInv, ManualLanded, Holding, Live, Accepts
<1>5. StoppedInv'
    BY DEF IInv, TypeOK, StoppedInv, ManualLanded, StopHolds
<1>6. BesideInv'
    BY DEF IInv, TypeOK, BesideInv, ManualLanded, Live, Clean
<1>7. QED
    BY <1>1, <1>2, <1>3, <1>4, <1>5, <1>6 DEF IInv

(* A behaviour is installed under the lock, possibly after its revocation.  *)
LEMMA BehaviorBeginsHolds ==
    ASSUME IInv, NEW c \in Requests, BehaviorBegins(c)
    PROVE  IInv'
<1>1. TypeOK'
    BY DEF IInv, TypeOK, BehaviorBegins, Steps, Lives, ActsBeside
<1>2. JobInv'
    BY DEF IInv, TypeOK, JobInv, BehaviorBegins
<1>3. LockInv'
    BY DEF IInv, TypeOK, LockInv, BehaviorBegins, Holding
<1>4. WhoInv'
    BY DEF IInv, TypeOK, JobInv, WhoInv, BehaviorBegins, Early
<1>5. SkillInv'
    BY DEF IInv, TypeOK, JobInv, LockInv, WhoInv, SkillInv, BehaviorBegins, Holding, Live,
           Undone
<1>6. RevokedInv'
    <2>1. /\ UNCHANGED <<job, newest, goal, skill, revoked, stopped>>
          /\ \A d \in Requests : d # c => at'[d] = at[d]
          /\ at[c] = "begin" /\ at'[c] \in {"over", "port"}
        BY DEF IInv, TypeOK, BehaviorBegins
    <2>2. \A d \in revoked : behavior'.of = d /\ behavior'.life \in Running
             => d \in escaped' \/ (lock' = d /\ skill.of = d)
        <3>1. CASE behavior' = behavior
            BY <3>1 DEF IInv, TypeOK, WhoInv, LockInv, RevokedInv, BehaviorBegins, Early, Holding, Live
        <3>2. CASE behavior' = [of |-> c, life |-> "STARTING"] /\ escaped' = escaped \cup ({c} \cap revoked)
            BY <3>2
        <3>3. QED
            BY <3>1, <3>2 DEF BehaviorBegins
    <2>3. QED
        BY <2>1, <2>2 DEF IInv, TypeOK, RevokedInv, Live, Accepts
<1>7. StoppedInv'
    BY DEF IInv, TypeOK, StoppedInv, BehaviorBegins, StopHolds
<1>8. CleanInv'
    BY DEF IInv, TypeOK, LockInv, CleanInv, BehaviorBegins, Holding, Clean
<1>9. BesideInv'
    BY DEF IInv, TypeOK, BesideInv, BehaviorBegins, Live, Clean, WhoInv, ActsBeside, Current
<1>10. QED
    BY <1>1, <1>2, <1>3, <1>4, <1>5, <1>6, <1>7, <1>8, <1>9 DEF IInv

(* The program's first action is checked for a revocation.                  *)
LEMMA PortHolds ==
    ASSUME IInv, NEW c \in Requests, Port(c)
    PROVE  IInv'
<1>1. TypeOK' /\ JobInv' /\ LockInv' /\ WhoInv' /\ SkillInv' /\ RevokedInv' /\ StoppedInv' /\ CleanInv'
    BY DEF IInv, TypeOK, JobInv, LockInv, WhoInv, SkillInv, RevokedInv, StoppedInv, CleanInv,
           Port, Steps, Holding, Early, Calling, Live, Undone, Accepts, StopHolds, Clean
<1>2. BesideInv'
    BY DEF IInv, TypeOK, BesideInv, Port, Live, Clean
<1>3. QED
    BY <1>1, <1>2 DEF IInv

(* The started behaviour is accepted if it is still the one.                *)
LEMMA AcceptHolds ==
    ASSUME IInv, NEW c \in Requests, Accept(c)
    PROVE  IInv'
<1>1. TypeOK' /\ JobInv' /\ LockInv' /\ WhoInv' /\ SkillInv' /\ RevokedInv' /\ StoppedInv'
    BY DEF IInv, TypeOK, JobInv, LockInv, WhoInv, SkillInv, RevokedInv, StoppedInv, Accept,
           Steps, Lives, Holding, Early, Calling, Live, Undone, Accepts, StopHolds, Accepted
<1>2. CleanInv'
    BY DEF IInv, JobInv, WhoInv, CleanInv, Accept, Clean, Accepted, Live
<1>3. BesideInv'
    BY DEF IInv, TypeOK, BesideInv, Accept, Live, Clean, Accepted
<1>4. QED
    BY <1>1, <1>2, <1>3 DEF IInv

(* A start that was superseded takes back what it installed.                *)
LEMMA UndoHolds ==
    ASSUME IInv, NEW c \in Requests, Undo(c)
    PROVE  IInv'
<1>1. TypeOK' /\ JobInv' /\ LockInv'
    BY DEF IInv, TypeOK, JobInv, LockInv, Undo, Steps, Lives, Holding, EndBehavior
<1>2. WhoInv'
    BY DEF IInv, TypeOK, WhoInv, Undo, Early, EndBehavior
<1>3. SkillInv'
    BY DEF IInv, TypeOK, SkillInv, Undo, Calling, Live, Undone, EndBehavior
<1>4. RevokedInv'
    BY DEF IInv, TypeOK, RevokedInv, Undo, Live, Accepts, EndBehavior
<1>5. StoppedInv'
    BY DEF IInv, TypeOK, StoppedInv, Undo, StopHolds
<1>6. CleanInv'
    BY DEF IInv, TypeOK, CleanInv, Undo, Clean, EndBehavior
<1>7. BesideInv'
    BY DEF IInv, TypeOK, BesideInv, Undo, Live, Clean, EndBehavior
<1>8. QED
    BY <1>1, <1>2, <1>3, <1>4, <1>5, <1>6, <1>7 DEF IInv

(* What is not active after its start is stopped, and the lock left.        *)
LEMMA CheckHolds ==
    ASSUME IInv, NEW c \in Requests, Check(c)
    PROVE  IInv'
<1>1. TypeOK' /\ JobInv' /\ WhoInv' /\ CleanInv'
    BY DEF IInv, TypeOK, JobInv, WhoInv, CleanInv, Check, Steps, Early, Clean
<1>2. LockInv'
    BY DEF IInv, TypeOK, LockInv, Check, Holding
<1>3. SkillInv'
    BY DEF IInv, LockInv, WhoInv, SkillInv, Check, Holding, Live, Undone
<1>4. RevokedInv'
    BY DEF IInv, LockInv, WhoInv, RevokedInv, Check, Holding, Live, Accepts
<1>5. StoppedInv'
    BY DEF IInv, TypeOK, StoppedInv, Check, StopHolds
<1>6. BesideInv'
    BY DEF IInv, TypeOK, BesideInv, Check, Live, Clean
<1>7. QED
    BY <1>1, <1>2, <1>3, <1>4, <1>5, <1>6 DEF IInv

-----------------------------------------------------------------------------
(* A skill run is started under the lock.                                   *)
LEMMA SkillBeginsHolds ==
    ASSUME IInv, NEW c \in Requests, SkillBegins(c)
    PROVE  IInv'
<1>1. StoppedInv'
    BY DEF IInv, StoppedInv, SkillBegins, StopHolds
<1>2. TypeOK'
    <2>1. skill' \in [of : Requests \cup {Nobody}, life : Lives, moves : BOOLEAN]
        <3>1. CASE newest # c \/ Undone
            BY <3>1 DEF IInv, TypeOK, SkillBegins
        <3>2. CASE ~(newest # c \/ Undone)
            <4>1. skill' = [of |-> c, life |-> "ACTIVE", moves |-> FALSE]
                BY <3>2 DEF SkillBegins
            <4>2. QED
                BY <4>1 DEF Lives
        <3>3. QED
            BY <3>1, <3>2
    <2>2. QED
        BY <2>1 DEF IInv, TypeOK, SkillBegins, Steps
<1>3. JobInv'
    BY DEF IInv, TypeOK, JobInv, SkillBegins
<1>4. LockInv'
    BY DEF IInv, TypeOK, LockInv, SkillBegins, Holding
<1>5. WhoInv'
    BY DEF IInv, TypeOK, WhoInv, SkillBegins, Early
<1>6. SkillInv'
    BY DEF IInv, TypeOK, SkillInv, SkillBegins, Calling, Live, Undone
<1>7. RevokedInv'
    BY DEF IInv, TypeOK, RevokedInv, SkillBegins, Live, Accepts
<1>8. CleanInv'
    BY DEF IInv, TypeOK, CleanInv, SkillBegins, Clean
<1>9. BesideInv'
    BY DEF IInv, TypeOK, BesideInv, SkillBegins, Live, Clean
<1>10. QED
    BY <1>1, <1>2, <1>3, <1>4, <1>5, <1>6, <1>7, <1>8, <1>9 DEF IInv

(* A running skill calls for a motion and enters the lock.                  *)
LEMMA SkillCallsHolds ==
    ASSUME IInv, NEW c \in Requests, SkillCalls(c)
    PROVE  IInv'
<1>1. TypeOK' /\ JobInv' /\ LockInv' /\ WhoInv' /\ SkillInv' /\ RevokedInv' /\ CleanInv'
    BY DEF IInv, TypeOK, JobInv, LockInv, WhoInv, SkillInv, RevokedInv, CleanInv, SkillCalls,
           Steps, Holding, Early, Live, Undone, Accepts
<1>2. StoppedInv'
    BY DEF IInv, RevokedInv, StoppedInv, SkillCalls, StopHolds
<1>3. BesideInv'
    BY DEF IInv, TypeOK, BesideInv, SkillCalls, Live, Clean
<1>4. QED
    BY <1>1, <1>2, <1>3 DEF IInv

(* A skill's call starts a behaviour that belongs to it.                    *)
LEMMA SkillStartsHolds ==
    ASSUME IInv, NEW c \in Requests, SkillStarts(c)
    PROVE  IInv'
<1>1. TypeOK'
    <2>1. skill' \in [of : Requests \cup {Nobody}, life : Lives, moves : BOOLEAN]
        BY DEF IInv, TypeOK, SkillStarts
    <2>2. QED
        BY <2>1 DEF IInv, TypeOK, SkillStarts, EndBehavior, Lives, Steps, ActsBeside
<1>2. JobInv'
    BY DEF IInv, TypeOK, JobInv, SkillStarts
<1>3. LockInv'
    BY DEF IInv, TypeOK, LockInv, SkillStarts, Holding
<1>4. WhoInv'
    BY DEF IInv, TypeOK, JobInv, WhoInv, SkillStarts, Early, EndBehavior
<1>5. SkillInv'
    BY DEF IInv, TypeOK, JobInv, LockInv, SkillInv, SkillStarts, Holding, Calling, Live, Undone,
           EndBehavior
<1>6. RevokedInv'
    BY DEF IInv, TypeOK, JobInv, LockInv, SkillInv, RevokedInv, SkillStarts, Holding, Calling,
           Live, Accepts, EndBehavior
<1>7. StoppedInv'
    BY DEF IInv, TypeOK, StoppedInv, SkillStarts, StopHolds
<1>8. CleanInv'
    BY DEF IInv, TypeOK, JobInv, LockInv, CleanInv, SkillStarts, Holding, EndBehavior
<1>9. BesideInv'
    BY DEF IInv, TypeOK, BesideInv, SkillStarts, Live, Clean, WhoInv, ActsBeside, Current, EndBehavior
<1>10. QED
    BY <1>1, <1>2, <1>3, <1>4, <1>5, <1>6, <1>7, <1>8, <1>9 DEF IInv

(* A skill's call submits a motion.                                         *)
LEMMA SkillSendsHolds ==
    ASSUME IInv, NEW c \in Requests, SkillSends(c)
    PROVE  IInv'
<1>1. TypeOK'
    BY DEF IInv, TypeOK, SkillSends, Steps
<1>2. JobInv'
    BY DEF IInv, TypeOK, JobInv, SkillSends
<1>3. LockInv'
    BY DEF IInv, TypeOK, LockInv, SkillSends, Holding
<1>4. WhoInv'
    BY DEF IInv, TypeOK, WhoInv, SkillSends, Early
<1>5. SkillInv'
    BY DEF IInv, TypeOK, JobInv, SkillInv, SkillSends, Calling, Live, Undone
<1>6. RevokedInv'
    BY DEF IInv, TypeOK, JobInv, SkillInv, RevokedInv, SkillSends, Live, Accepts
<1>7. StoppedInv'
    BY DEF IInv, TypeOK, LockInv, StoppedInv, SkillSends, Holding, StopHolds
<1>8. CleanInv'
    BY DEF IInv, TypeOK, LockInv, CleanInv, SkillSends, Holding
<1>9. BesideInv'
    BY DEF IInv, TypeOK, BesideInv, SkillSends, Live, Clean
<1>10. QED
    BY <1>1, <1>2, <1>3, <1>4, <1>5, <1>6, <1>7, <1>8, <1>9 DEF IInv

(* A skill's motion was submitted: it looks whether it was revoked meanwhile. *)
LEMMA SkillLandedHolds ==
    ASSUME IInv, NEW c \in Requests, SkillLanded(c)
    PROVE  IInv'
<1>1. JobInv' /\ CleanInv'
    BY DEF IInv, JobInv, CleanInv, SkillLanded, Clean
<1>2. TypeOK'
    <2>1. skill' \in [of : Requests \cup {Nobody}, life : Lives, moves : BOOLEAN]
        BY DEF IInv, TypeOK, SkillLanded
    <2>2. QED
        BY <2>1 DEF IInv, TypeOK, SkillLanded, Steps
<1>3. LockInv'
    BY DEF IInv, TypeOK, LockInv, SkillLanded, Holding
<1>4. WhoInv'
    BY DEF IInv, TypeOK, WhoInv, SkillLanded, Early
<1>5. SkillInv'
    BY DEF IInv, TypeOK, SkillInv, SkillLanded, Calling, Live, Undone
<1>6. RevokedInv'
    BY DEF IInv, TypeOK, SkillInv, RevokedInv, SkillLanded, Live, Accepts
<1>7. StoppedInv'
    BY DEF IInv, TypeOK, StoppedInv, SkillLanded, StopHolds
<1>8. BesideInv'
    BY DEF IInv, TypeOK, BesideInv, SkillLanded, Live, Clean
<1>9. QED
    BY <1>1, <1>2, <1>3, <1>4, <1>5, <1>6, <1>7, <1>8 DEF IInv

(* A skill's behaviour was started: it looks whether it was revoked meanwhile. *)
LEMMA SkillChecksHolds ==
    ASSUME IInv, NEW c \in Requests, SkillChecks(c)
    PROVE  IInv'
<1>1. TypeOK' /\ JobInv'
    BY DEF IInv, TypeOK, JobInv, SkillChecks, Steps, Lives, EndBehavior
<1>2. LockInv'
    BY DEF IInv, TypeOK, LockInv, SkillChecks, Holding
<1>3. WhoInv'
    BY DEF IInv, TypeOK, WhoInv, SkillChecks, Early, EndBehavior
<1>4. SkillInv'
    BY DEF IInv, TypeOK, SkillInv, SkillChecks, Calling, Live, Undone, Accepts, EndBehavior
<1>5. RevokedInv'
    BY DEF IInv, TypeOK, RevokedInv, SkillChecks, Live, Accepts, EndBehavior
<1>6. StoppedInv'
    BY DEF IInv, TypeOK, StoppedInv, SkillChecks, StopHolds
<1>7. CleanInv'
    BY DEF IInv, TypeOK, CleanInv, SkillChecks, Clean, EndBehavior
<1>8. BesideInv'
    BY DEF IInv, TypeOK, BesideInv, SkillChecks, Live, Clean, EndBehavior
<1>9. QED
    BY <1>1, <1>2, <1>3, <1>4, <1>5, <1>6, <1>7, <1>8 DEF IInv

(* A skill ends by itself; the supervisor's thread has the rest.            *)
LEMMA SkillEndsHolds ==
    ASSUME IInv, NEW c \in Requests, SkillEnds(c)
    PROVE  IInv'
<1>1. /\ skill'.of = skill.of /\ skill'.moves = skill.moves
      /\ skill'.life = "OVER" /\ skill.of = c /\ skill.life \in {"STARTING", "ACTIVE", "OVER"}
    <2>1. skill.of = c /\ c # Nobody /\ skill.life \in Lives \ {"NONE", "PENDING"}
        BY DEF IInv, TypeOK, SkillInv, SkillEnds
    <2>2. QED
        BY <2>1, RevokedSkillIs DEF IInv, SkillEnds, Lives
<1>2. TypeOK' /\ JobInv'
    BY DEF IInv, TypeOK, JobInv, SkillEnds, Steps, Lives, Threads, RevokedSkill
<1>3. LockInv'
    BY <1>1 DEF IInv, TypeOK, LockInv, SkillEnds, Threads, Holding
<1>4. WhoInv'
    BY <1>1 DEF IInv, TypeOK, WhoInv, SkillEnds, Early
<1>5. SkillInv'
    BY <1>1 DEF IInv, TypeOK, WhoInv, SkillInv, SkillEnds, Threads, Calling, Live, Undone
<1>6. RevokedInv'
    BY <1>1 DEF IInv, TypeOK, RevokedInv, SkillEnds, Live, Accepts
<1>7. StoppedInv'
    BY DEF IInv, TypeOK, StoppedInv, SkillEnds, Threads, StopHolds
<1>8. CleanInv'
    BY DEF IInv, TypeOK, CleanInv, SkillEnds, Threads, Clean
<1>9. BesideInv'
    BY DEF IInv, TypeOK, BesideInv, SkillEnds, Threads, Live, Clean
<1>10. QED
    BY <1>2, <1>3, <1>4, <1>5, <1>6, <1>7, <1>8, <1>9 DEF IInv

-----------------------------------------------------------------------------
(* A goal's adoption first ends the standalone skill.                       *)
LEMMA StandaloneEndsHolds ==
    ASSUME IInv, NEW c \in Requests, StandaloneEnds(c)
    PROVE  IInv'
<1>1. TypeOK' /\ JobInv' /\ LockInv' /\ StoppedInv'
    BY DEF IInv, TypeOK, JobInv, LockInv, StoppedInv, StandaloneEnds, Steps, Lives, Holding,
           StopHolds, RevokedSkill, EndBehavior, Owner
<1>2. WhoInv'
    BY DEF IInv, TypeOK, WhoInv, StandaloneEnds, Early, RevokedSkill, EndBehavior
<1>3. SkillInv'
    BY DEF IInv, TypeOK, WhoInv, SkillInv, StandaloneEnds, Calling, Live, RevokedSkill,
           EndBehavior
<1>4. RevokedInv'
    BY DEF IInv, TypeOK, JobInv, WhoInv, SkillInv, RevokedInv, StandaloneEnds, Live, Accepts,
           RevokedSkill, EndBehavior, Owner, Current
<1>5. CleanInv'
    BY DEF IInv, TypeOK, CleanInv, StandaloneEnds, Clean, EndBehavior
<1>6. BesideInv'
    BY DEF IInv, TypeOK, BesideInv, StandaloneEnds, Live, Clean, EndBehavior
<1>7. QED
    BY <1>1, <1>2, <1>3, <1>4, <1>5, <1>6 DEF IInv

(* No run is left, as far as the goal can see: its adoption is next.        *)
LEMMA NoSkillRunsHolds ==
    ASSUME IInv, NEW c \in Requests, NoSkillRuns(c)
    PROVE  IInv'
<1>1. TypeOK' /\ LockInv' /\ WhoInv' /\ SkillInv'
    BY DEF IInv, TypeOK, LockInv, WhoInv, SkillInv, NoSkillRuns, Steps, Holding, Early, Calling, Live, Undone
<1>2. JobInv' /\ RevokedInv' /\ StoppedInv' /\ CleanInv'
    BY DEF IInv, TypeOK, JobInv, RevokedInv, StoppedInv, CleanInv, NoSkillRuns, StopHolds, Live, Accepts, Clean
<1>3. BesideInv'
    BY DEF IInv, TypeOK, BesideInv, NoSkillRuns, Live, Clean
<1>4. QED
    BY <1>1, <1>2, <1>3 DEF IInv

(* A proposal that was revoked or is weaker is refused.                     *)
LEMMA RefuseHolds ==
    ASSUME IInv, NEW c \in Requests, Refuse(c)
    PROVE  IInv'
<1>1. TypeOK' /\ JobInv' /\ LockInv' /\ SkillInv' /\ StoppedInv'
    BY DEF IInv, TypeOK, JobInv, LockInv, SkillInv, StoppedInv, Refuse, Steps, Lives, Holding,
           Calling, Live, Undone, StopHolds, CancelGoals
<1>2. WhoInv'
    BY DEF IInv, JobInv, WhoInv, Refuse, Early, CancelGoals
<1>3. RevokedInv'
    BY DEF IInv, TypeOK, JobInv, WhoInv, RevokedInv, Refuse, Early, Live, Accepts,
           CancelGoals
<1>4. CleanInv'
    BY DEF IInv, TypeOK, LockInv, SkillInv, CleanInv, Refuse, Clean, CancelGoals
<1>5. BesideInv'
    BY DEF IInv, TypeOK, BesideInv, Refuse, Live, Clean, CancelGoals
<1>6. QED
    BY <1>1, <1>2, <1>3, <1>4, <1>5 DEF IInv

(* A goal is adopted: what it replaces is revoked in the same section.      *)
LEMMA AdoptHolds ==
    ASSUME IInv, NEW c \in Requests, Adopt(c)
    PROVE  IInv'
<1>1. TypeOK' /\ JobInv' /\ LockInv' /\ SkillInv' /\ StoppedInv'
    BY DEF IInv, TypeOK, JobInv, LockInv, SkillInv, StoppedInv, Adopt, Steps, Lives, Holding,
           Live, Undone, StopHolds, Owner, EndBehavior
<1>2. WhoInv'
    BY DEF IInv, TypeOK, WhoInv, Adopt, Early, Current, EndBehavior
<1>3. RevokedInv'
    BY DEF IInv, TypeOK, WhoInv, RevokedInv, Adopt, Early, Live, Accepts, Current, Owner,
           EndBehavior
<1>4. /\ behavior'.life \notin Running
      /\ UNCHANGED <<job, thread, robot, escaped>>
      /\ at[c] = "propose" /\ goal[c] = "PENDING"
      /\ \A d \in Requests : at'[d] \in {"begin", "port", "land"} => at[d] = at'[d]
      /\ \A d \in Requests : goal'[d] \in Running => d = c /\ goal'[d] = "STARTING"
    BY DEF IInv, TypeOK, WhoInv, Adopt, Current, EndBehavior
<1>5. CleanInv'
    BY <1>4 DEF IInv, CleanInv, LockInv, Clean
<1>6. BesideInv'
    BY <1>4 DEF BesideInv, Live
<1>7. QED
    BY <1>1, <1>2, <1>3, <1>5, <1>6 DEF IInv

(* The STOP of what was replaced.                                           *)
LEMMA CedeHolds ==
    ASSUME IInv, NEW c \in Requests, Cede(c)
    PROVE  IInv'
<1>1. TypeOK' /\ JobInv' /\ LockInv' /\ WhoInv' /\ SkillInv'
    BY DEF IInv, TypeOK, JobInv, LockInv, WhoInv, SkillInv, Cede, Steps, Lives, Holding, Early,
           Live, Undone, CancelGoals
<1>2. RevokedInv'
    BY DEF IInv, TypeOK, RevokedInv, Cede, Live, Accepts, CancelGoals
<1>3. StoppedInv'
    BY DEF IInv, TypeOK, StoppedInv, Cede, StopHolds
<1>4. CleanInv'
    BY DEF IInv, TypeOK, SkillInv, CleanInv, Cede, Clean, CancelGoals
<1>5. BesideInv'
    BY DEF IInv, TypeOK, BesideInv, Cede, Live, Clean, CancelGoals
<1>6. QED
    BY <1>1, <1>2, <1>3, <1>4, <1>5 DEF IInv

(* The adoption ends, the dispatcher may take the goal.                     *)
LEMMA WakeHolds ==
    ASSUME IInv, NEW c \in Requests, Wake(c)
    PROVE  IInv'
<1>1. TypeOK' /\ JobInv' /\ LockInv' /\ WhoInv' /\ SkillInv' /\ RevokedInv' /\ StoppedInv' /\ CleanInv'
    BY DEF IInv, TypeOK, JobInv, LockInv, WhoInv, SkillInv, RevokedInv, StoppedInv, CleanInv,
           Wake, Steps, Holding, Early, Live, Undone, Accepts, StopHolds, Clean
<1>2. BesideInv'
    BY DEF IInv, TypeOK, BesideInv, Wake, Live, Clean
<1>3. QED
    BY <1>1, <1>2 DEF IInv

-----------------------------------------------------------------------------
(* The dispatcher takes a goal that is STARTING, in the lock.               *)
LEMMA DispatchHolds ==
    ASSUME IInv, NEW c \in Requests, Dispatch(c)
    PROVE  IInv'
<1>1. TypeOK' /\ JobInv' /\ WhoInv' /\ SkillInv' /\ CleanInv'
    BY DEF IInv, TypeOK, JobInv, WhoInv, SkillInv, CleanInv, Dispatch, Threads, Live, Undone,
           Clean
<1>2. LockInv'
    BY DEF IInv, LockInv, WhoInv, Dispatch, Early
<1>3. RevokedInv'
    BY DEF IInv, TypeOK, RevokedInv, Dispatch, Live, Accepts
<1>4. StoppedInv'
    BY DEF IInv, TypeOK, StoppedInv, Dispatch, StopHolds
<1>5. BesideInv'
    BY DEF IInv, TypeOK, BesideInv, Dispatch, Live, Clean
<1>6. QED
    BY <1>1, <1>2, <1>3, <1>4, <1>5 DEF IInv

(* A node that failed is recovered from: the live behaviour is ended.       *)
LEMMA RecoverHolds ==
    ASSUME IInv, NEW c \in Requests, Recover(c), Current(c), lock \in {"dispatch", Nobody},
           UNCHANGED <<at, job, newest, goal, primary, inflight, skill, robot, stopped, escaped, beside>>
    PROVE  IInv'
<1>1. TypeOK' /\ JobInv' /\ WhoInv' /\ StoppedInv' /\ CleanInv'
    <2>1. onward' \in BOOLEAN
        BY DEF Recover
    <2>2. TypeOK'
        BY <2>1 DEF IInv, TypeOK, Recover, Lives, Threads, EndBehavior, Owner
    <2>3. JobInv' /\ WhoInv' /\ StoppedInv'
        BY DEF IInv, TypeOK, JobInv, WhoInv, StoppedInv, Recover, Threads, EndBehavior, StopHolds
    <2>4. CleanInv'
        BY DEF IInv, TypeOK, CleanInv, Recover, Threads, EndBehavior, Clean
    <2>5. QED
        BY <2>2, <2>3, <2>4
<1>2. LockInv'
    BY DEF IInv, TypeOK, LockInv, WhoInv, Recover, Threads, Early, Holding, Current
<1>3. SkillInv'
    BY DEF IInv, TypeOK, LockInv, SkillInv, Recover, Threads, Calling, Holding, Live, Undone, EndBehavior
<1>4. RevokedInv'
    BY DEF IInv, TypeOK, LockInv, WhoInv, RevokedInv, Recover, Early, Live, Accepts, EndBehavior, Owner, Current
<1>5. BesideInv'
    BY DEF IInv, TypeOK, BesideInv, Recover, Threads, Live, Clean, EndBehavior
<1>6. QED
    BY <1>1, <1>2, <1>3, <1>4, <1>5 DEF IInv

(* The last node is done, and the goal with it.                             *)
LEMMA CompletedHolds ==
    ASSUME IInv, NEW c \in Requests, Current(c), CancelGoals({c}), Stop \/ UNCHANGED robot,
           UNCHANGED <<lock, thread, onward>> \/ (lock = "dispatch" /\ Leaves),
           UNCHANGED <<at, job, newest, primary, inflight, behavior, skill, revoked, stopped, escaped, beside>>
    PROVE  IInv'
<1>1. /\ \A g \in Requests : goal'[g] = IF g = c THEN "OVER" ELSE goal[g]
      /\ goal' \in [Requests -> Lives]
    BY DEF IInv, TypeOK, CancelGoals, Lives
<1>2. TypeOK'
    <2>1. onward' \in BOOLEAN
        BY DEF IInv, TypeOK, Leaves
    <2>2. QED
        BY <1>1, <2>1 DEF IInv, TypeOK, Leaves, Threads
<1>3. JobInv' /\ WhoInv'
    BY <1>1 DEF IInv, JobInv, WhoInv, Current
<1>4. LockInv'
    BY <1>1 DEF IInv, TypeOK, LockInv, Leaves, Threads, Holding
<1>5. SkillInv'
    BY <1>1 DEF IInv, TypeOK, LockInv, SkillInv, Leaves, Threads, Live, Undone
<1>6. RevokedInv'
    BY <1>1 DEF IInv, TypeOK, RevokedInv, Leaves, Live, Accepts
<1>7. StoppedInv'
    BY <1>1 DEF IInv, TypeOK, StoppedInv, Leaves, Threads, StopHolds
<1>8. CleanInv'
    <2>1. CASE Leaves
        BY <1>1, <2>1 DEF IInv, TypeOK, SkillInv, CleanInv, Leaves, Threads, Clean
    <2>2. CASE UNCHANGED <<lock, thread, onward>>
        <3>1. Clean => Clean'
            BY DEF Clean
        <3>2. behavior.life = "ACTIVE" => goal'[behavior.of] # "STARTING"
            BY <1>1 DEF IInv, TypeOK, SkillInv, CleanInv
        <3>3. \A d \in Requests : at'[d] \in {"begin", "port", "land"} /\ job'[d] # "skill" => Clean'
            BY <3>1 DEF IInv, CleanInv
        <3>4. CASE robot' = "STILL"
            BY <2>2, <3>2, <3>3, <3>4 DEF IInv, CleanInv, Clean
        <3>5. CASE UNCHANGED robot
            <4>1. Served \in Requests => (goal'[Served] = "STARTING" => goal[Served] = "STARTING")
                BY <1>1
            <4>2. QED
                BY <2>2, <3>1, <3>2, <3>3, <3>5, <4>1 DEF IInv, LockInv, CleanInv
        <3>6. QED
            BY <3>4, <3>5
    <2>3. QED
        BY <2>1, <2>2
<1>9. BesideInv'
    BY <1>1 DEF IInv, TypeOK, BesideInv, Leaves, Threads, Live, Clean
<1>10. QED
    BY <1>2, <1>3, <1>4, <1>5, <1>6, <1>7, <1>8, <1>9 DEF IInv

(* The dispatcher turns to the failure of the goal, having changed nothing.  *)
LEMMA TurnsToFailHolds ==
    ASSUME IInv, NEW c \in Requests, Be("dispatch", "fail", c), lock' = "dispatch", lock \in {"dispatch", Nobody},
           at[c] # "idle", goal[c] # "PENDING", Stop \/ UNCHANGED robot,
           UNCHANGED <<at, job, newest, goal, primary, inflight, behavior, skill, revoked, escaped, beside, onward>>,
           stopped' \in {stopped, stopped \cup revoked}, Stop \/ UNCHANGED stopped
    PROVE  IInv'
<1>1. TypeOK' /\ JobInv' /\ WhoInv' /\ RevokedInv'
    BY DEF IInv, TypeOK, JobInv, LockInv, WhoInv, RevokedInv, Threads, Live, Accepts
<1>2. LockInv'
    BY DEF IInv, TypeOK, LockInv, Threads, Holding
<1>3. SkillInv'
    BY DEF IInv, TypeOK, LockInv, SkillInv, Threads, Live, Undone
<1>4. StoppedInv'
    BY DEF IInv, TypeOK, StoppedInv, Threads, StopHolds
<1>5. CleanInv' /\ BesideInv'
    BY DEF IInv, TypeOK, CleanInv, BesideInv, Threads, Live, Clean
<1>6. QED
    BY <1>1, <1>2, <1>3, <1>4, <1>5 DEF IInv

(* A node is done: the goal with it, or it goes on to the next one; or the node failed. *)
LEMMA ProgressHolds ==
    ASSUME IInv, NEW c \in Requests, Progress(c)
    PROVE  IInv'
<1>1. Dispatching("wait") /\ lock = Nobody /\ Current(c) /\ goal[c] = "ACTIVE" /\ at[c] # "idle"
    BY DEF IInv, WhoInv, Progress, Early, Current
<1>2. CASE CancelGoals({c}) /\ UNCHANGED <<lock, thread, onward>> /\ UNCHANGED <<behavior, revoked>>
           /\ (Stop \/ UNCHANGED robot)
    BY <1>1, <1>2, CompletedHolds DEF Progress
<1>3. CASE Recover(c) /\ UNCHANGED <<goal, robot>>
    BY <1>1, <1>3, RecoverHolds DEF Progress
<1>4. CASE lock' = "dispatch" /\ Be("dispatch", "fail", c) /\ UNCHANGED <<goal, behavior, robot, revoked, onward>>
    BY <1>1, <1>4, TurnsToFailHolds DEF Progress
<1>5. CASE /\ ~Live(c) /\ (Stop \/ UNCHANGED robot)
           /\ goal' = [goal EXCEPT ![c] = "STARTING"]
           /\ lock' = "dispatch" /\ Be("dispatch", "start", c) /\ onward' = TRUE
           /\ UNCHANGED <<behavior, revoked>>
    <2> DEFINE Rest == UNCHANGED <<at, job, newest, primary, inflight, skill, stopped, escaped, beside>>
    <2>1. Rest
        BY DEF Progress
    <2>2. TypeOK' /\ JobInv'
        BY <1>5, <2>1 DEF IInv, TypeOK, JobInv, Lives, Threads
    <2>3. LockInv'
        BY <1>1, <1>5, <2>1 DEF IInv, TypeOK, LockInv, Threads
    <2>4. WhoInv'
        BY <1>1, <1>5, <2>1 DEF IInv, TypeOK, WhoInv, Current
    <2>5. SkillInv'
        BY <1>1, <1>5, <2>1 DEF IInv, TypeOK, SkillInv, Threads, Live, Undone
    <2>6. RevokedInv'
        BY <1>1, <1>5, <2>1 DEF IInv, TypeOK, RevokedInv, Live, Accepts
    <2>7. StoppedInv'
        BY <1>1, <1>5, <2>1 DEF IInv, TypeOK, StoppedInv, Threads, StopHolds
    <2>8. CleanInv'
        BY <1>1, <1>5, <2>1 DEF IInv, TypeOK, LockInv, CleanInv, BesideInv, Threads, Holding, Live, Clean
    <2>9. BesideInv'
        BY <1>1, <1>5, <2>1 DEF IInv, TypeOK, WhoInv, BesideInv, Threads, Live, Clean
    <2>10. QED
        BY <2>2, <2>3, <2>4, <2>5, <2>6, <2>7, <2>8, <2>9 DEF IInv
<1>6. QED
    BY <1>2, <1>3, <1>4, <1>5 DEF Progress

(* A physical goal begins with a STOP.                                      *)
LEMMA DispatchStopsHolds ==
    ASSUME IInv, DispatchStops
    PROVE  IInv'
<1>1. TypeOK' /\ JobInv' /\ WhoInv' /\ RevokedInv'
    BY DEF IInv, TypeOK, JobInv, WhoInv, RevokedInv, DispatchStops, Live, Accepts, LockedStop
<1>2. LockInv'
    BY DEF IInv, TypeOK, LockInv, DispatchStops, Threads
<1>3. SkillInv'
    BY DEF IInv, TypeOK, SkillInv, DispatchStops, Threads, Live, Undone
<1>4. StoppedInv'
    BY DEF IInv, TypeOK, LockInv, StoppedInv, DispatchStops, StopHolds, LockedStop
<1>5. CleanInv'
    BY DEF IInv, TypeOK, CleanInv, DispatchStops, Clean, LockedStop
<1>6. BesideInv'
    BY DEF IInv, TypeOK, BesideInv, DispatchStops, Live, Clean, Threads, LockedStop
<1>7. QED
    BY <1>1, <1>2, <1>3, <1>4, <1>5, <1>6 DEF IInv

(* The goal's motion or behaviour is started if the goal is still current.  *)
LEMMA DispatchStartsHolds ==
    ASSUME IInv, DispatchStarts
    PROVE  IInv'
<1>1. /\ Dispatching("start") /\ lock = "dispatch" /\ Served \in Requests
      /\ at[Served] # "idle" /\ goal[Served] \notin {"PENDING", "NONE"}
      /\ UNCHANGED <<at, job, newest, primary, inflight, skill, robot, stopped, escaped, beside>>
    BY DEF IInv, LockInv, DispatchStarts
<1>2. CASE Current(Served) /\ CancelGoals({Served}) /\ Leaves /\ UNCHANGED <<behavior, revoked>>
    BY <1>1, <1>2, CompletedHolds
<1>3. CASE Current(Served) /\ Recover(Served) /\ UNCHANGED goal
    BY <1>1, <1>3, RecoverHolds
<1>4. CASE Then("fail") /\ UNCHANGED <<goal, behavior, revoked>>
    BY <1>1, <1>4, TurnsToFailHolds
<1>5. CASE Leaves /\ UNCHANGED <<behavior, revoked>>
           /\ goal' \in {goal, [goal EXCEPT ![Served] = IF Current(Served) THEN "ACTIVE" ELSE @]}
    <2>1. TypeOK' /\ JobInv'
        <3>1. onward' \in BOOLEAN
            BY <1>5 DEF Leaves
        <3>2. QED
            BY <1>1, <1>5, <3>1 DEF IInv, TypeOK, JobInv, Lives, Threads, Leaves
    <2>2. LockInv'
        BY <1>1, <1>5 DEF IInv, TypeOK, LockInv, Threads, Leaves, Holding
    <2>3. WhoInv'
        BY <1>1, <1>5 DEF IInv, TypeOK, WhoInv, Current
    <2>4. SkillInv'
        BY <1>1, <1>5 DEF IInv, TypeOK, LockInv, SkillInv, Threads, Leaves, Live, Undone
    <2>5. RevokedInv'
        BY <1>1, <1>5 DEF IInv, TypeOK, LockInv, RevokedInv, Leaves, Live, Accepts, Current
    <2>6. StoppedInv'
        BY <1>1, <1>5 DEF IInv, TypeOK, StoppedInv, Threads, Leaves, StopHolds
    <2>7. CleanInv'
        <3>1. thread'["dispatch"].at = "wait"
            BY <1>5 DEF IInv, TypeOK, Threads, Leaves
        <3>2. \A g \in Requests : goal'[g] = "STARTING" => goal[g] = "STARTING"
            BY <1>1, <1>5 DEF IInv, TypeOK
        <3>3. QED
            BY <1>1, <1>5, <3>1, <3>2 DEF IInv, TypeOK, SkillInv, CleanInv, Clean
    <2>8. BesideInv'
        BY <1>1, <1>5 DEF IInv, TypeOK, LockInv, WhoInv, CleanInv, BesideInv, Threads, Leaves, Holding, Live, Clean,
                          Current
    <2>9. QED
        BY <2>1, <2>2, <2>3, <2>4, <2>5, <2>6, <2>7, <2>8 DEF IInv
<1>6. CASE /\ Current(Served) /\ job[Served] = "goal" /\ behavior.life \notin Running
           /\ behavior' = [of |-> Served, life |-> "STARTING"]
           /\ Then("port") /\ UNCHANGED <<goal, revoked>>
    <2>1. TypeOK' /\ JobInv'
        BY <1>1, <1>6 DEF IInv, TypeOK, JobInv, Lives, Threads
    <2>2. LockInv' /\ WhoInv'
        BY <1>1, <1>6 DEF IInv, TypeOK, LockInv, WhoInv, Threads, Current
    <2>3. SkillInv'
        BY <1>1, <1>6 DEF IInv, TypeOK, LockInv, WhoInv, SkillInv, Threads, Holding, Live, Undone, Current
    <2>4. RevokedInv'
        BY <1>1, <1>6 DEF IInv, TypeOK, RevokedInv, Live, Accepts, Current
    <2>5. StoppedInv'
        BY <1>1, <1>6 DEF IInv, TypeOK, RevokedInv, StoppedInv, Threads, StopHolds, Current
    <2>6. CleanInv'
        BY <1>1, <1>6 DEF IInv, TypeOK, LockInv, CleanInv, Threads, Holding, Clean
    <2>7. BesideInv'
        BY <1>1, <1>6 DEF IInv, TypeOK, WhoInv, BesideInv, Threads, Live, Clean, Current
    <2>8. QED
        BY <2>1, <2>2, <2>3, <2>4, <2>5, <2>6, <2>7 DEF IInv
<1>7. CASE Current(Served) /\ job[Served] = "goal" /\ Then("land") /\ UNCHANGED <<goal, behavior, revoked>>
    <2>1. TypeOK' /\ JobInv' /\ LockInv' /\ WhoInv'
        BY <1>1, <1>7 DEF IInv, TypeOK, JobInv, LockInv, WhoInv, Threads
    <2>2. SkillInv' /\ RevokedInv'
        BY <1>1, <1>7 DEF IInv, TypeOK, SkillInv, RevokedInv, Threads, Live, Undone, Accepts
    <2>3. StoppedInv'
        BY <1>1, <1>7 DEF IInv, TypeOK, RevokedInv, StoppedInv, Threads, StopHolds, Current
    <2>4. CleanInv' /\ BesideInv'
        BY <1>1, <1>7 DEF IInv, TypeOK, WhoInv, CleanInv, BesideInv, Threads, Live, Clean, Current
    <2>5. QED
        BY <2>1, <2>2, <2>3, <2>4 DEF IInv
<1>8. QED
    BY <1>1, <1>2, <1>3, <1>4, <1>5, <1>6, <1>7 DEF DispatchStarts, ControlNode

(* The behaviour's action is checked for a revocation.                      *)
LEMMA DispatchPortHolds ==
    ASSUME IInv, DispatchPort
    PROVE  IInv'
<1>1. TypeOK' /\ JobInv' /\ LockInv' /\ WhoInv' /\ SkillInv' /\ RevokedInv' /\ StoppedInv' /\ CleanInv'
    BY DEF IInv, TypeOK, JobInv, LockInv, WhoInv, SkillInv, RevokedInv, StoppedInv, CleanInv,
           DispatchPort, Threads, Live, Undone, Accepts, StopHolds, Clean
<1>2. BesideInv'
    BY DEF IInv, TypeOK, BesideInv, DispatchPort, Live, Clean, Threads
<1>3. QED
    BY <1>1, <1>2 DEF IInv

(* The motion arrives although its goal may have been revoked meanwhile.    *)
LEMMA DispatchLandsHolds ==
    ASSUME IInv, DispatchLands
    PROVE  IInv'
<1>1. JobInv' /\ LockInv'
    BY DEF IInv, JobInv, LockInv, DispatchLands
<1>2. TypeOK'
    BY DEF IInv, TypeOK, LockInv, DispatchLands, Lives, Threads, EndBehavior
<1>3. WhoInv'
    BY DEF IInv, TypeOK, WhoInv, DispatchLands, EndBehavior
<1>4. SkillInv'
    BY DEF IInv, TypeOK, SkillInv, DispatchLands, Live, Undone, EndBehavior
<1>5. RevokedInv'
    BY DEF IInv, TypeOK, RevokedInv, DispatchLands, Live, Accepts, EndBehavior
<1>6. StoppedInv'
    BY DEF IInv, TypeOK, StoppedInv, DispatchLands, StopHolds
<1>7. CleanInv'
    <2>1. /\ thread' = [thread EXCEPT !["dispatch"] = [at |-> "accept", of |-> Served]]
          /\ robot' \in {Served, "STILL"}
          /\ UNCHANGED <<at, job, goal>>
          /\ behavior'.of = behavior.of /\ behavior'.life \in {behavior.life, "OVER"}
        BY DEF IInv, TypeOK, DispatchLands, EndBehavior
    <2>2. \A c \in Requests : at'[c] \notin {"begin", "port", "land"}
        BY <2>1 DEF IInv, LockInv, DispatchLands, Holding
    <2>3. thread'["dispatch"] = [at |-> "accept", of |-> Served]
        BY <2>1 DEF IInv, TypeOK, Threads
    <2>4. QED
        BY <2>1, <2>2, <2>3 DEF IInv, CleanInv, Clean
<1>8. BesideInv'
    BY DEF IInv, TypeOK, BesideInv, DispatchLands, Live, Clean, Threads, EndBehavior
<1>9. QED
    BY <1>1, <1>2, <1>3, <1>4, <1>5, <1>6, <1>7, <1>8 DEF IInv

(* A result counts for the goal and behaviour that are still these.         *)
LEMMA DispatchAcceptsHolds ==
    ASSUME IInv, DispatchAccepts
    PROVE  IInv'
<1>1. /\ Dispatching("accept") /\ lock = "dispatch" /\ Served \in Requests
      /\ at[Served] # "idle" /\ goal[Served] # "PENDING"
      /\ UNCHANGED <<at, job, newest, primary, inflight, skill, robot, stopped, escaped, beside>>
    BY DEF IInv, LockInv, DispatchAccepts
<1>2. CASE Current(Served) /\ CancelGoals({Served}) /\ Leaves /\ UNCHANGED <<behavior, revoked>>
    BY <1>1, <1>2, CompletedHolds
<1>3. CASE Current(Served) /\ Recover(Served) /\ UNCHANGED goal
    BY <1>1, <1>3, RecoverHolds
<1>4. CASE Then("fail") /\ UNCHANGED <<goal, behavior, revoked>>
    BY <1>1, <1>4, TurnsToFailHolds
<1>5. CASE Current(Served) /\ goal[Served] = "STARTING" /\ Then("start") /\ UNCHANGED <<goal, behavior, revoked>>
    <2>1. TypeOK' /\ JobInv' /\ LockInv' /\ WhoInv'
        BY <1>1, <1>5 DEF IInv, TypeOK, JobInv, LockInv, WhoInv, Threads
    <2>2. SkillInv' /\ RevokedInv' /\ StoppedInv'
        BY <1>1, <1>5 DEF IInv, TypeOK, SkillInv, RevokedInv, StoppedInv, Threads, Live, Undone, Accepts, StopHolds
    <2>3. CleanInv' /\ BesideInv'
        BY <1>1, <1>5 DEF IInv, TypeOK, CleanInv, BesideInv, Threads, Live, Clean
    <2>4. QED
        BY <2>1, <2>2, <2>3 DEF IInv
<1>6. CASE /\ behavior' = Accepted(Served)
           /\ goal' = [goal EXCEPT ![Served] = IF Current(Served) THEN "ACTIVE" ELSE @]
           /\ Leaves /\ UNCHANGED revoked
    <2>1. /\ behavior'.of = behavior.of
          /\ behavior'.life = IF Live(Served) THEN "ACTIVE" ELSE behavior.life
          /\ behavior' \in [of : Requests \cup {Nobody}, life : Lives]
        BY <1>1, <1>6 DEF IInv, TypeOK, Accepted, Live, Lives
    <2>2. TypeOK' /\ JobInv'
        BY <1>1, <1>6, <2>1 DEF IInv, TypeOK, JobInv, Lives, Threads, Leaves
    <2>3. LockInv'
        BY <1>1, <1>6 DEF IInv, TypeOK, LockInv, Threads, Leaves, Holding
    <2>4. WhoInv'
        BY <1>1, <1>6, <2>1 DEF IInv, TypeOK, WhoInv, Current
    <2>5. SkillInv'
        BY <1>1, <1>6, <2>1 DEF IInv, TypeOK, LockInv, SkillInv, Threads, Leaves, Live, Undone
    <2>6. RevokedInv'
        BY <1>1, <1>6, <2>1 DEF IInv, TypeOK, LockInv, RevokedInv, Leaves, Live, Accepts, Current
    <2>7. StoppedInv'
        BY <1>1, <1>6 DEF IInv, TypeOK, StoppedInv, Threads, Leaves, StopHolds
    <2>8. CleanInv'
        <3>1. thread'["dispatch"].at = "wait"
            BY <1>6 DEF IInv, TypeOK, Threads, Leaves
        <3>2. \A g \in Requests : goal'[g] = "STARTING" => goal[g] = "STARTING" /\ ~(g = Served /\ Current(g))
            BY <1>1, <1>6 DEF IInv, TypeOK
        <3>3. behavior'.life = "ACTIVE" => goal'[behavior.of] # "STARTING"
            <4>1. CASE Live(Served)
                BY <1>1, <3>2, <4>1 DEF IInv, WhoInv, Live, Current
            <4>2. CASE ~Live(Served)
                <5>1. behavior.life = "ACTIVE" => behavior.of \in Requests /\ goal[behavior.of] # "STARTING"
                    BY DEF IInv, TypeOK, SkillInv, CleanInv
                <5>2. QED
                    BY <2>1, <3>2, <4>2, <5>1
            <4>3. QED
                BY <4>1, <4>2
        <3>4. QED
            BY <1>1, <1>6, <2>1, <3>1, <3>3 DEF IInv, CleanInv, Clean
    <2>9. BesideInv'
        BY <1>1, <1>6, <2>1 DEF IInv, TypeOK, LockInv, WhoInv, CleanInv, BesideInv, Threads, Leaves, Holding, Live,
                                Clean, Current
    <2>10. QED
        BY <2>2, <2>3, <2>4, <2>5, <2>6, <2>7, <2>8, <2>9 DEF IInv
<1>7. QED
    BY <1>1, <1>2, <1>3, <1>4, <1>5, <1>6 DEF DispatchAccepts

(* A goal that fails is cancelled with its behaviour.                       *)
LEMMA DispatchFailsHolds ==
    ASSUME IInv, DispatchFails
    PROVE  IInv'
<1>1. JobInv' /\ WhoInv'
    BY DEF IInv, JobInv, WhoInv, DispatchFails, Current, FailGoal, CancelGoals
<1>2. TypeOK'
    <2>1. onward' \in BOOLEAN
        BY DEF IInv, TypeOK, DispatchFails, Leaves
    <2>2. QED
        BY <2>1 DEF IInv, TypeOK, LockInv, DispatchFails, Lives, Threads, FailGoal, CancelGoals, Leaves
<1>3. LockInv'
    BY DEF IInv, TypeOK, LockInv, DispatchFails, Threads, FailGoal, CancelGoals, Leaves
<1>4. SkillInv'
    BY DEF IInv, TypeOK, LockInv, SkillInv, DispatchFails, Threads, Live, Undone, FailGoal,
           Leaves
<1>5. RevokedInv'
    BY DEF IInv, TypeOK, LockInv, WhoInv, RevokedInv, DispatchFails, Live, Accepts, Current,
           FailGoal, CancelGoals
<1>6. StoppedInv'
    BY DEF IInv, TypeOK, StoppedInv, DispatchFails, StopHolds, Leaves
<1>7. CleanInv'
    BY DEF IInv, TypeOK, SkillInv, CleanInv, DispatchFails, Clean, FailGoal, CancelGoals, Leaves
<1>8. BesideInv'
    BY DEF IInv, TypeOK, BesideInv, DispatchFails, Live, Clean, Threads, FailGoal, CancelGoals, Leaves
<1>9. QED
    BY <1>1, <1>2, <1>3, <1>4, <1>5, <1>6, <1>7, <1>8 DEF IInv

(* The STOP that follows the end of a behaviour in the dispatcher.          *)
LEMMA DispatchFinishesHolds ==
    ASSUME IInv, DispatchFinishes
    PROVE  IInv'
<1>1. TypeOK' /\ JobInv' /\ WhoInv' /\ SkillInv' /\ CleanInv'
    <2>1. onward' \in BOOLEAN
        BY DEF DispatchFinishes, Leaves
    <2>2. TypeOK' /\ JobInv' /\ WhoInv'
        BY <2>1 DEF IInv, TypeOK, JobInv, WhoInv, DispatchFinishes, Lives, Threads, EndBehavior, Owner, Leaves
    <2>3. SkillInv'
        BY DEF IInv, TypeOK, SkillInv, DispatchFinishes, Threads, Live, Undone, EndBehavior, Leaves
    <2>4. CleanInv'
        BY DEF IInv, TypeOK, CleanInv, DispatchFinishes, Threads, Clean, EndBehavior, Leaves
    <2>5. QED
        BY <2>2, <2>3, <2>4
<1>2. LockInv'
    BY DEF IInv, TypeOK, LockInv, DispatchFinishes, Threads, Leaves
<1>3. RevokedInv'
    BY DEF IInv, WhoInv, RevokedInv, DispatchFinishes, Early, Live, Accepts, EndBehavior, Owner,
           Current
<1>4. StoppedInv'
    BY DEF IInv, TypeOK, StoppedInv, DispatchFinishes, StopHolds, Owner, Leaves
<1>5. BesideInv'
    BY DEF IInv, TypeOK, BesideInv, DispatchFinishes, Live, Clean, Threads, EndBehavior, Leaves
<1>6. QED
    BY <1>1, <1>2, <1>3, <1>4, <1>5 DEF IInv

(* The next node, or the same again, begins with the STOP of the last one.  *)
LEMMA DispatchAgainHolds ==
    ASSUME IInv, DispatchAgain
    PROVE  IInv'
<1>1. TypeOK' /\ JobInv' /\ CleanInv'
    <2>1. onward' \in BOOLEAN
        BY DEF IInv, TypeOK, DispatchAgain, Leaves
    <2>2. TypeOK' /\ JobInv'
        BY <2>1 DEF IInv, TypeOK, JobInv, LockInv, DispatchAgain, Lives, Threads, Leaves
    <2>3. robot' = "STILL" /\ behavior' = behavior /\ behavior.life \notin Running
        BY DEF IInv, CleanInv, DispatchAgain
    <2>4. thread'["dispatch"].at # "again"
        BY DEF IInv, TypeOK, DispatchAgain, Threads, Leaves
    <2>5. QED
        BY <2>2, <2>3, <2>4 DEF CleanInv, Clean
<1>2. LockInv'
    BY DEF IInv, TypeOK, LockInv, DispatchAgain, Threads, Leaves
<1>3. WhoInv'
    BY DEF IInv, TypeOK, WhoInv, DispatchAgain, Current
<1>4. SkillInv'
    BY DEF IInv, TypeOK, LockInv, SkillInv, DispatchAgain, Threads, Live, Undone, Leaves
<1>5. RevokedInv'
    BY DEF IInv, TypeOK, LockInv, RevokedInv, DispatchAgain, Live, Accepts, Current
<1>6. StoppedInv'
    BY DEF IInv, TypeOK, StoppedInv, DispatchAgain, StopHolds, Leaves
<1>7. BesideInv'
    BY DEF IInv, TypeOK, WhoInv, BesideInv, DispatchAgain, Live, Clean, LockInv, Threads, Leaves, Current
<1>8. QED
    BY <1>1, <1>2, <1>3, <1>4, <1>5, <1>6, <1>7 DEF IInv

(* The dispatcher steps a live behaviour.                                   *)
LEMMA TendHolds ==
    ASSUME IInv, Tend
    PROVE  IInv'
<1>1. TypeOK' /\ JobInv'
    BY DEF IInv, TypeOK, JobInv, Tend, Lives, EndBehavior
<1>2. LockInv'
    BY DEF IInv, TypeOK, LockInv, WhoInv, SkillInv, Tend, Threads, Early
<1>3. WhoInv'
    BY DEF IInv, TypeOK, WhoInv, Tend, EndBehavior
<1>4. SkillInv'
    BY DEF IInv, TypeOK, SkillInv, Tend, Threads, Live, Undone, EndBehavior
<1>5. RevokedInv'
    BY DEF IInv, TypeOK, RevokedInv, Tend, Live, Accepts, EndBehavior
<1>6. StoppedInv'
    BY DEF IInv, TypeOK, RevokedInv, StoppedInv, Tend, Live, StopHolds
<1>7. CleanInv'
    BY DEF IInv, TypeOK, CleanInv, Tend, Clean, EndBehavior
<1>8. BesideInv'
    BY DEF IInv, TypeOK, SkillInv, BesideInv, Tend, Live, Clean, Threads, EndBehavior
<1>9. QED
    BY <1>1, <1>2, <1>3, <1>4, <1>5, <1>6, <1>7, <1>8 DEF IInv

-----------------------------------------------------------------------------
(* The run has ended: it and the behaviour of a run that moved the robot are revoked. *)
LEMMA SkillRevokesHolds ==
    ASSUME IInv, SkillRevokes
    PROVE  IInv'
<1>1. skill.of \in Requests /\ skill.life = "OVER" /\ job[skill.of] = "skill"
    BY DEF IInv, TypeOK, LockInv, SkillInv, WhoInv, SkillRevokes
<1>2. TypeOK' /\ JobInv' /\ StoppedInv'
    BY <1>1 DEF IInv, TypeOK, JobInv, StoppedInv, SkillRevokes, Lives, Threads, EndBehavior, Owner, StopHolds
<1>3. LockInv'
    BY DEF IInv, TypeOK, LockInv, SkillInv, SkillRevokes, Threads
<1>4. WhoInv'
    BY DEF IInv, TypeOK, WhoInv, SkillRevokes, EndBehavior
<1>5. SkillInv'
    BY <1>1 DEF IInv, TypeOK, SkillInv, SkillRevokes, Threads, Live, Undone, EndBehavior
<1>6. RevokedInv'
    BY <1>1 DEF IInv, TypeOK, JobInv, WhoInv, SkillInv, RevokedInv, SkillRevokes, Live, Accepts, EndBehavior,
                Owner, Current, Early, Undone
<1>7. CleanInv'
    BY DEF IInv, TypeOK, CleanInv, SkillRevokes, Threads, Clean, EndBehavior
<1>8. BesideInv'
    BY DEF IInv, TypeOK, BesideInv, SkillRevokes, Threads, Live, Clean, EndBehavior
<1>9. QED
    BY <1>2, <1>3, <1>4, <1>5, <1>6, <1>7, <1>8 DEF IInv

(* The skill's supervisor delivers its STOP.                                *)
LEMMA SkillStopsHolds ==
    ASSUME IInv, SkillStops
    PROVE  IInv'
<1>1. TypeOK' /\ JobInv' /\ LockInv' /\ WhoInv' /\ SkillInv' /\ RevokedInv' /\ CleanInv'
    BY DEF IInv, TypeOK, JobInv, LockInv, WhoInv, SkillInv, RevokedInv, CleanInv, SkillStops,
           Threads, Live, Undone, Accepts, Clean
<1>2. StoppedInv'
    BY DEF IInv, TypeOK, StoppedInv, SkillStops, StopHolds
<1>3. BesideInv'
    BY DEF IInv, TypeOK, BesideInv, SkillStops, Live, Clean
<1>4. QED
    BY <1>1, <1>2, <1>3 DEF IInv

(* The supervisor's second STOP, after the lock was free.                   *)
LEMMA SkillStopsAgainHolds ==
    ASSUME IInv, SkillStopsAgain
    PROVE  IInv'
<1>1. JobInv' /\ LockInv' /\ WhoInv' /\ SkillInv' /\ RevokedInv' /\ CleanInv'
    BY DEF IInv, JobInv, LockInv, WhoInv, SkillInv, RevokedInv, CleanInv, SkillStopsAgain,
           Holding, Live, Undone, Accepts, LockedStop
<1>2. TypeOK'
    <2>1. skill' \in [of : Requests \cup {Nobody}, life : Lives, moves : BOOLEAN]
        BY DEF IInv, TypeOK, SkillStopsAgain
    <2>2. QED
        BY <2>1 DEF IInv, TypeOK, SkillStopsAgain, LockedStop, Threads
<1>3. StoppedInv'
    BY DEF IInv, TypeOK, LockInv, StoppedInv, SkillStopsAgain, StopHolds, LockedStop
<1>4. BesideInv'
    BY DEF IInv, TypeOK, BesideInv, SkillStopsAgain, Live, Clean, LockedStop, Threads
<1>5. QED
    BY <1>1, <1>2, <1>3, <1>4 DEF IInv

(* The run is done and its record cleared.                                  *)
LEMMA SkillClosesHolds ==
    ASSUME IInv, SkillCloses
    PROVE  IInv'
<1>1. TypeOK' /\ JobInv' /\ LockInv' /\ WhoInv' /\ RevokedInv' /\ CleanInv'
    BY DEF IInv, TypeOK, JobInv, LockInv, WhoInv, RevokedInv, CleanInv, SkillCloses, Lives,
           Threads, Holding, Live, Accepts, NoSkill
<1>2. SkillInv'
    BY DEF IInv, TypeOK, LockInv, SkillInv, SkillCloses, Threads, Holding, Calling, Live,
           Undone, NoSkill
<1>3. StoppedInv'
    BY DEF IInv, TypeOK, StoppedInv, SkillCloses, StopHolds
<1>4. BesideInv'
    BY DEF IInv, TypeOK, BesideInv, SkillCloses, Live, Clean
<1>5. QED
    BY <1>1, <1>2, <1>3, <1>4 DEF IInv

(* The poll steps a behaviour without the action lock.                      *)
LEMMA PollStepsHolds ==
    ASSUME IInv, PollSteps
    PROVE  IInv'
<1>1. TypeOK' /\ JobInv'
    BY DEF IInv, TypeOK, JobInv, PollSteps, Kinds, Lives, EndBehavior
<1>2. LockInv'
    BY DEF IInv, TypeOK, LockInv, SkillInv, PollSteps, Threads
<1>3. WhoInv'
    BY DEF IInv, TypeOK, WhoInv, PollSteps, EndBehavior
<1>4. SkillInv'
    BY DEF IInv, TypeOK, SkillInv, PollSteps, Threads, Live, EndBehavior
<1>5. RevokedInv'
    BY DEF IInv, TypeOK, RevokedInv, PollSteps, Live, Accepts, EndBehavior
<1>6. StoppedInv'
    BY DEF IInv, TypeOK, StoppedInv, PollSteps, Threads, StopHolds
<1>7. CleanInv'
    BY DEF IInv, TypeOK, CleanInv, PollSteps, Threads, Clean, EndBehavior
<1>8. BesideInv'
    BY DEF IInv, TypeOK, BesideInv, PollSteps, Live, Clean, Threads, EndBehavior
<1>9. QED
    BY <1>1, <1>2, <1>3, <1>4, <1>5, <1>6, <1>7, <1>8 DEF IInv

(* Its action is checked for a revocation.                                  *)
LEMMA PollPortHolds ==
    ASSUME IInv, PollPort
    PROVE  IInv'
<1>1. TypeOK' /\ JobInv' /\ WhoInv' /\ RevokedInv'
    BY DEF IInv, TypeOK, JobInv, WhoInv, RevokedInv, PollPort, Live, Accepts
<1>2. LockInv'
    BY DEF IInv, TypeOK, LockInv, PollPort, Threads
<1>3. SkillInv'
    BY DEF IInv, TypeOK, SkillInv, PollPort, Threads, Live, Undone
<1>4. StoppedInv'
    BY DEF IInv, TypeOK, StoppedInv, PollPort, Threads, StopHolds
<1>5. CleanInv'
    BY DEF IInv, TypeOK, CleanInv, PollPort, Threads, Clean
<1>6. BesideInv'
    BY DEF IInv, TypeOK, BesideInv, PollPort, Live, Clean, Threads
<1>7. QED
    BY <1>1, <1>2, <1>3, <1>4, <1>5, <1>6 DEF IInv

(* Its motion arrives: unless it is live and the lock is free, through the hole. *)
LEMMA PollLandsHolds ==
    ASSUME IInv, PollLands
    PROVE  IInv'
<1>1. JobInv' /\ LockInv'
    BY DEF IInv, JobInv, LockInv, PollLands
<1>2. TypeOK'
    BY DEF IInv, TypeOK, LockInv, PollLands, Lives, Threads, EndBehavior
<1>3. WhoInv'
    BY DEF IInv, TypeOK, WhoInv, PollLands, EndBehavior
<1>4. SkillInv'
    BY DEF IInv, TypeOK, SkillInv, PollLands, Live, Undone, EndBehavior
<1>5. RevokedInv'
    BY DEF IInv, TypeOK, RevokedInv, PollLands, Live, Accepts, EndBehavior
<1>6. StoppedInv'
    BY DEF IInv, TypeOK, RevokedInv, StoppedInv, PollLands, StopHolds
<1>7. CleanInv'
    BY DEF IInv, TypeOK, LockInv, CleanInv, PollLands, Holding, Clean, EndBehavior
<1>8. BesideInv'
    BY DEF IInv, TypeOK, BesideInv, PollLands, Live, Clean, LockInv, EndBehavior
<1>9. QED
    BY <1>1, <1>2, <1>3, <1>4, <1>5, <1>6, <1>7, <1>8 DEF IInv

(* The STOP after a behaviour that ended in the poll.                       *)
LEMMA PollFinishesHolds ==
    ASSUME IInv, PollFinishes
    PROVE  IInv'
<1>1. TypeOK' /\ JobInv' /\ LockInv' /\ WhoInv' /\ SkillInv' /\ RevokedInv' /\ CleanInv'
    BY DEF IInv, TypeOK, JobInv, LockInv, WhoInv, SkillInv, RevokedInv, CleanInv, PollFinishes,
           Threads, Live, Undone, Accepts, Clean
<1>2. StoppedInv'
    BY DEF IInv, TypeOK, StoppedInv, PollFinishes, StopHolds
<1>3. BesideInv'
    BY DEF IInv, TypeOK, BesideInv, PollFinishes, Live, Clean
<1>4. QED
    BY <1>1, <1>2, <1>3 DEF IInv

-----------------------------------------------------------------------------
-----------------------------------------------------------------------------
(* The host starts idle and the robot still.                                *)
LEMMA InitHolds == Init => IInv
<1> SUFFICES ASSUME Init PROVE IInv
    OBVIOUS
<1>1. TypeOK
    BY DEF Init, TypeOK, Steps, Kinds, Lives, Threads, NoBehavior, NoSkill
<1>2. JobInv /\ LockInv /\ WhoInv
    BY DEF Init, JobInv, LockInv, WhoInv, Holding, Threads, NoBehavior, NoSkill
<1>3. SkillInv /\ RevokedInv /\ StoppedInv /\ CleanInv /\ BesideInv
    BY DEF Init, SkillInv, RevokedInv, StoppedInv, StopHolds, CleanInv, BesideInv, Calling, Live, Undone, Threads,
           NoBehavior, NoSkill
<1>4. QED
    BY <1>1, <1>2, <1>3 DEF IInv

(* The invariant is about the state alone.                                  *)
LEMMA StutterHolds ==
    ASSUME IInv, UNCHANGED vars
    PROVE  IInv'
<1>1. TypeOK' /\ JobInv' /\ LockInv' /\ WhoInv'
    BY DEF IInv, vars, TypeOK, JobInv, LockInv, WhoInv
<1>2. SkillInv' /\ RevokedInv' /\ StoppedInv' /\ CleanInv' /\ BesideInv'
    BY DEF IInv, vars, SkillInv, RevokedInv, StoppedInv, StopHolds, CleanInv, BesideInv, Clean, Live, Undone, Accepts
<1>3. QED
    BY <1>1, <1>2 DEF IInv

(* Every step keeps the invariant.                                          *)
LEMMA NextHolds == IInv /\ [Next]_vars => IInv'
<1> SUFFICES ASSUME IInv, [Next]_vars PROVE IInv'
    OBVIOUS
<1>1. ASSUME NEW c \in Requests, Serve(c) PROVE IInv'
    <2>1. CASE Begin(c) \/ Fell(c) \/ EarlyStop(c) \/ Drain(c) \/ PreemptEnters(c) \/ FinalStop(c)
               \/ FailStops(c)
        BY <2>1, BeginHolds, FellHolds, EarlyStopHolds, DrainHolds, PreemptEntersHolds, FinalStopHolds,
           FailStopsHolds
    <2>2. CASE Enter(c) \/ Quiet(c) \/ Land(c) \/ ManualLanded(c) \/ BehaviorBegins(c) \/ Port(c)
               \/ Accept(c) \/ Undo(c) \/ Check(c)
        BY <2>2, EnterHolds, QuietHolds, LandHolds, ManualLandedHolds, BehaviorBeginsHolds, PortHolds,
           AcceptHolds, UndoHolds, CheckHolds
    <2>3. CASE SkillBegins(c) \/ SkillCalls(c) \/ SkillStarts(c) \/ SkillSends(c) \/ SkillLanded(c)
               \/ SkillChecks(c) \/ SkillEnds(c)
        BY <2>3, SkillBeginsHolds, SkillCallsHolds, SkillStartsHolds, SkillSendsHolds,
           SkillLandedHolds, SkillChecksHolds, SkillEndsHolds
    <2>4. CASE StandaloneEnds(c) \/ NoSkillRuns(c) \/ Refuse(c) \/ Adopt(c) \/ Cede(c) \/ Wake(c)
        BY <2>4, StandaloneEndsHolds, NoSkillRunsHolds, RefuseHolds, AdoptHolds, CedeHolds, WakeHolds
    <2>5. QED
        BY <1>1, <2>1, <2>2, <2>3, <2>4 DEF Serve
<1>2. ASSUME NEW c \in Requests, Dispatch(c) \/ Progress(c) PROVE IInv'
    BY <1>2, DispatchHolds, ProgressHolds
<1>3. CASE DispatchStops \/ DispatchStarts \/ DispatchPort \/ DispatchLands \/ DispatchAccepts
           \/ DispatchFails \/ DispatchFinishes \/ DispatchAgain \/ Tend
    BY <1>3, DispatchStopsHolds, DispatchStartsHolds, DispatchPortHolds, DispatchLandsHolds,
       DispatchAcceptsHolds, DispatchFailsHolds, DispatchFinishesHolds, DispatchAgainHolds, TendHolds
<1>4. CASE SkillRevokes \/ SkillStops \/ SkillStopsAgain \/ SkillCloses
    BY <1>4, SkillRevokesHolds, SkillStopsHolds, SkillStopsAgainHolds, SkillClosesHolds
<1>5. CASE PollSteps \/ PollPort \/ PollLands \/ PollFinishes
    BY <1>5, PollStepsHolds, PollPortHolds, PollLandsHolds, PollFinishesHolds
<1>6. CASE UNCHANGED vars
    BY <1>6, StutterHolds
<1>7. QED
    BY <1>1, <1>2, <1>3, <1>4, <1>5, <1>6 DEF Next

(* The invariant holds in every reachable state, for any number of requests. *)
THEOREM HostInvariant == Spec => []IInv
<1>1. QED
    BY InitHolds, NextHolds, PTL DEF Spec

(* Every variable of brain, runtime and behaviour system is well typed.     *)
THEOREM HostTypeCorrect == Spec => []TypeOK
<1>1. IInv => TypeOK
    BY DEF IInv
<1>2. QED
    BY <1>1, HostInvariant, PTL

(* After a STOP under the action lock nothing that was revoked before it moves the robot, *)
(* for any number of requests, but what came through one of the two holes: a start that *)
(* has read its generation, or the poll.                                    *)
THEOREM StoppedIsStill == Spec => []StopHolds
<1>1. IInv => StopHolds
    BY DEF IInv, StoppedInv
<1>2. QED
    BY <1>1, HostInvariant, PTL

(* What was revoked has no authority again, whatever arrives late.          *)
THEOREM AuthorityIsGone == Spec => []RevokedStays
<1>1. IInv => RevokedStays
    BY DEF IInv, RevokedInv, RevokedStays
<1>2. QED
    BY <1>1, HostInvariant, PTL

-----------------------------------------------------------------------------
(* Who newly moves the robot has just submitted: these four steps, no other. *)
LEMMA MoverMoves ==
    ASSUME IInv, Next, NEW c \in Requests, robot # c, robot' = c
    PROVE  \/ Land(c) \/ SkillSends(c)
           \/ DispatchLands /\ c = Served
           \/ PollLands /\ c = thread["poll"].of
<1>1. robot \in Requests \cup {"STILL"} /\ c # "STILL"
    BY DEF IInv, TypeOK
<1>2. ASSUME NEW d \in Requests, Serve(d) PROVE Land(c) \/ SkillSends(c)
    <2>1. CASE Land(d) \/ SkillSends(d)
        BY <2>1, <1>1 DEF Land, SkillSends
    <2>2. CASE Begin(d) \/ Fell(d) \/ EarlyStop(d) \/ Drain(d) \/ PreemptEnters(d) \/ FinalStop(d)
               \/ FailStops(d) \/ Enter(d) \/ Quiet(d) \/ ManualLanded(d) \/ BehaviorBegins(d) \/ Port(d)
        BY <2>2, <1>1 DEF Begin, Fell, EarlyStop, Drain, PreemptEnters, FinalStop, FailStops, Enter, Quiet,
                          ManualLanded, BehaviorBegins, Port, LockedStop
    <2>3. CASE Accept(d) \/ Undo(d) \/ Check(d) \/ SkillBegins(d) \/ SkillCalls(d) \/ SkillStarts(d)
               \/ SkillLanded(d) \/ SkillChecks(d) \/ SkillEnds(d)
        BY <2>3, <1>1 DEF Accept, Undo, Check, SkillBegins, SkillCalls, SkillStarts, SkillLanded,
                          SkillChecks, SkillEnds
    <2>4. CASE StandaloneEnds(d) \/ NoSkillRuns(d) \/ Refuse(d) \/ Adopt(d) \/ Cede(d) \/ Wake(d)
        BY <2>4, <1>1 DEF StandaloneEnds, NoSkillRuns, Refuse, Adopt, Cede, Wake
    <2>5. QED
        BY <1>2, <2>1, <2>2, <2>3, <2>4 DEF Serve
<1>3. ASSUME NEW d \in Requests, Dispatch(d) \/ Progress(d) PROVE FALSE
    BY <1>1, <1>3 DEF Dispatch, Progress
<1>4. CASE DispatchStops \/ DispatchStarts \/ DispatchPort \/ DispatchLands \/ DispatchAccepts
           \/ DispatchFails \/ DispatchFinishes \/ DispatchAgain \/ Tend
    BY <1>1, <1>4 DEF DispatchStops, DispatchStarts, DispatchPort, DispatchLands, DispatchAccepts,
                      DispatchFails, DispatchFinishes, DispatchAgain, Tend, LockedStop
<1>5. CASE SkillRevokes \/ SkillStops \/ SkillStopsAgain \/ SkillCloses \/ PollSteps \/ PollPort
           \/ PollLands \/ PollFinishes
    BY <1>1, <1>5 DEF SkillRevokes, SkillStops, SkillStopsAgain, SkillCloses, PollSteps, PollPort, PollLands,
                      PollFinishes, LockedStop
<1>6. QED
    BY <1>2, <1>3, <1>4, <1>5 DEF Next

(* A manual motion, a behaviour or a goal begins to move a robot that is still; what moved *)
(* it when the goal was adopted is gone even at a node that no STOP precedes, unless *)
(* one of the two came through a hole.                                      *)
THEOREM TakeoverIsClean == Spec => CleanTakeover
<1> DEFINE CleanStep ==
        \A c \in Requests : robot # c /\ robot' = c /\ Starts(c)
            => \/ robot = "STILL"
               \/ {robot, c} \cap escaped' # {}
               \/ goal[c] = "STARTING" /\ onward /\ robot \in beside
<1>1. IInv /\ IInv' /\ [Next]_vars => CleanStep
    <2> SUFFICES ASSUME IInv, IInv', Next, NEW c \in Requests, robot # c, robot' = c, Starts(c),
                        robot # "STILL"
                 PROVE  \/ {robot, c} \cap escaped' # {}
                        \/ goal[c] = "STARTING" /\ onward /\ robot \in beside
        BY DEF vars
    <2>1. CASE Land(c)
        BY <2>1 DEF IInv, CleanInv, Clean, Starts, Land, LockInv, Holding
    <2>2. CASE SkillSends(c)
        BY <2>2 DEF IInv, Starts, SkillSends, LockInv, Holding
    <2>3. CASE DispatchLands /\ c = Served
        BY <2>3 DEF IInv, CleanInv, Clean, Starts, DispatchLands, LockInv, Holding
    <2>4. CASE PollLands /\ c = thread["poll"].of
        BY <2>4 DEF IInv, TypeOK, CleanInv, Clean, Starts, PollLands, LockInv, Holding
    <2>5. QED
        BY <2>1, <2>2, <2>3, <2>4, MoverMoves
<1>2. QED
    BY <1>1, HostInvariant, PTL DEF Spec, CleanTakeover
=============================================================================
