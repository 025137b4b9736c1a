---------------------- MODULE OperatorControllerProofs ----------------------
(***************************************************************************)
(* Proofs about OperatorController, for any number of callers, producers and  *)
(* runtimes.                                                               *)
(*                                                                         *)
(* A call is a stack of methods; the first part says which stacks there are   *)
(* and where an error or a return comes out.  The second part says what a call *)
(* knows where it stands, and which steps leave that true: those of processes  *)
(* and of calls outside the transition are harmless, those of the one call     *)
(* inside may change what only it may know.  The third part has a lemma for    *)
(* every step, the last one the theorems.                                   *)
(***************************************************************************)
EXTENDS OperatorController, SequenceTheorems, WellFoundedInduction, FiniteSetTheorems, TLAPS

(* What a call has on its stack: who called the method it is in.             *)
Frames == {"stop", "off", "old", "none", "unready", "start", "motion", "slot", "rearm", "undo", "test",
           "phase", "sequence", "clean", "final"}

(* The methods that are on the stack stand on each other in one way only.      *)
Bottom == "bottom"

(* Who calls stop(), runtime_off() and start_runtime().                      *)
StopUsers == {"motion", "test", "off", "undo", "final", Bottom}
OffUsers == {"old", "unready", Bottom}
Starters == {"start", "slot", "rearm"}

(* What a frame may stand on.                                                *)
Under ==
    [stop |-> StopUsers, off |-> OffUsers, old |-> Starters, unready |-> Starters,
     none |-> Starters, start |-> {"motion", "test"}, slot |-> {Bottom}, rearm |-> {Bottom},
     motion |-> {Bottom}, test |-> {Bottom}, undo |-> {Bottom}, final |-> {Bottom}, phase |-> {"sequence"},
     clean |-> {"sequence"}, sequence |-> {Bottom}]

(* What a place may stand on.                                                *)
Beneath ==
    [l \in Labels |->
       CASE l \in {"idle", "over", "dead", "move.lock", "move.prepare", "move.admit",
                   "move.spawn", "move.allow", "seq.lock", "seq.mark"} -> {Bottom}
         [] l \in {"stop.first", "stop.again", "stop.lock", "stop.idle"} -> StopUsers
         [] l \in {"rev.marker", "rev.term", "rev.gone"} -> {"stop", "none", "clean"}
         [] l \in {"off.first", "off.lock", "off.kill", "off.find", "off.gone"} -> OffUsers
         [] l \in {"ensure", "preempt"} -> {"motion", "test"}
         [] l \in {"start.old", "start.check", "start.spawn", "start.pid", "start.ready"} -> Starters
         [] l \in {"seq.spawn", "seq.watch"} -> {"phase"}
         [] l = "seq.final" -> {"sequence", Bottom}
         [] OTHER -> {"sequence"}]

(* What a place stands on.                                                   *)
Top(s) == IF s = <<>> THEN Bottom ELSE s[1]

Chained(s) ==
    \A i \in 1 .. Len(s) : IF i = Len(s) THEN Bottom \in Under[s[i]] ELSE s[i + 1] \in Under[s[i]]

(* The stack of a call is one the code can build, up to the place it is in.  *)
Fits(k) == Chained(k.stack) /\ Top(k.stack) \in Beneath[k.pc]

(* A method is on the stack of a call.                                       *)
On(k, f) == \E i \in DOMAIN k.stack : k.stack[i] = f

(* The places of the revocation of sequence and producers.                   *)
Revoking == {"rev.marker", "rev.term", "rev.gone"}

(* Labels that are reached inside only, and outside only; frames of methods that   *)
(* are inside.                                                              *)
InsideLabels ==
    {"ensure", "preempt", "start.old", "start.check", "start.spawn", "start.pid", "start.ready",
     "move.prepare", "move.admit", "move.spawn", "move.allow", "seq.mark", "seq.spawn", "seq.zero"}

OutsideLabels ==
    {"idle", "over", "dead", "seq.watch", "seq.clean", "seq.phase", "seq.final", "seq.lock", "move.lock"}

InsideFrames ==
    {"motion", "test", "old", "unready", "none", "start", "slot", "rearm",
     "clean", "undo", "final"}

(* Where a call is inside the transition, and where it repeats its preemption. *)
InsideOf(k) ==
    /\ k.inside => k.pc \notin OutsideLabels
    /\ k.pc \in InsideLabels => k.inside
    /\ \A f \in InsideFrames : On(k, f) => k.inside
    /\ k.pass => /\ k.inside
                 /\ k.pc \in Revoking \cup {"stop.first", "stop.again", "stop.lock", "stop.idle"}
                 /\ k.pc \in Revoking => k.stack[1] = "stop"
    /\ k.pc = "stop.idle" => k.pass

(* One call at a time is inside the transition, the lock of _transition.     *)
OneInside == \A c, d \in Callers : call[c].inside /\ call[d].inside => c = d

(* A call that has marked its test sequence is still in it, or over.         *)
Owned(k) == On(k, "sequence") \/ On(k, "final") \/ k.pc \in {"seq.final", "over", "dead"}

(* No producer lives.                                                        *)
NoProducer == \A p \in Producers : ~Alive(p)

(* What a call knows of the producers where it stands.                       *)
ProducerOf(c, k) ==
    /\ k.pc = "rev.gone" =>
          /\ k.awaits \in Producers /\ producer[k.awaits] # "NONE"
          /\ Alive(k.awaits) => k.awaits \in term
    /\ k.pc \in {"stop.again", "stop.lock"} /\ k.inside =>
          /\ k.err \/ NoProducer
          /\ \A p \in Producers : Alive(p) => p \in term
    /\ k.pc = "stop.lock" /\ k.pass /\ ~k.err => mail = "STOP"
    /\ k.pc = "stop.idle" => NoProducer /\ mail = "STOP"
    /\ k.pc \in {"move.prepare", "move.admit", "move.spawn", "seq.mark", "seq.spawn"}
          \/ On(k, "slot") \/ On(k, "rearm")
          => NoProducer
    /\ k.pc = "seq.phase" /\ marker = c => NoProducer
    /\ k.pc = "seq.zero" => k.err \/ NoProducer

(* What it knows of the mark, and whose the producers are that it may stop.     *)
MarkerOf(c, k) ==
    /\ k.pass /\ k.pc \in {"rev.term", "rev.gone", "stop.again", "stop.lock", "stop.idle"}
          => marker = Nobody
    /\ k.pc \in {"move.prepare", "move.admit", "move.spawn", "move.allow", "seq.mark"}
          \/ On(k, "slot") \/ On(k, "rearm")
          => marker = Nobody
    /\ k.pc = "seq.spawn" => marker \in {Nobody, c}
    /\ On(k, "clean") \/ On(k, "final") => \A p \in Producers : Alive(p) => spawner[p] = c
    /\ marker = c => Owned(k)
    /\ c \in revoked => Owned(k) /\ marker # c /\ k.pc # "seq.spawn"

(* The runtimes whose supervisor lives.                                      *)
Processes == {r \in Runtimes : runtime[r] \notin {"NONE", "GONE"}}

(* What it knows of the runtimes, while none was abandoned.                  *)
RuntimeOf(k) ==
    /\ k.pc = "start.pid" => k.awaits \in Runtimes
    /\ abandoned = {} =>
          /\ On(k, "none") \/ k.pc = "start.spawn" => Processes = {}
          /\ On(k, "old") \/ k.pc = "start.check" =>
                \A r \in Processes : r = k.pid /\ runtime[r] # "SPAWNED"

(* Everything a call knows where it stands.                                  *)
CallInv ==
    \A c \in Callers :
        /\ Fits(call[c]) /\ InsideOf(call[c])
        /\ ProducerOf(c, call[c]) /\ MarkerOf(c, call[c]) /\ RuntimeOf(call[c])

(* At most one producer lives.                                               *)
OneProducer == \A p, q \in Producers : Alive(p) /\ Alive(q) => p = q

(* While a test sequence is marked the producers are its own.                *)
MarkedProducers == marker # Nobody => \A p \in Producers : Alive(p) => spawner[p] = marker

(* While nobody gave up on a supervisor there is one, and one that has not shown itself *)
(* is awaited.                                                               *)
OneProcess ==
    abandoned = {} =>
        /\ \A r, s \in Processes : r = s
        /\ \A r \in Runtimes : runtime[r] = "SPAWNED" =>
              \E c \in Callers : call[c].pc = "start.pid" /\ call[c].awaits = r

-----------------------------------------------------------------------------
(* The tables of the module, as far as they are needed.                      *)
LEMMA FramesAre ==
    /\ DOMAIN OnReturn = Frames
    /\ DOMAIN OnRaise = {"stop", "off", "clean", "phase", "sequence"}
    /\ DOMAIN OnRaise \subseteq Frames
    /\ DOMAIN Under = Frames
    /\ Bottom \notin Frames
BY DEF Frames, OnReturn, OnRaise, Under, Bottom

(* The fields of a call.                                                     *)
LEMMA CallFields ==
    ASSUME NEW k \in CallStates
    PROVE  /\ k.pc \in Labels /\ k.stack \in Seq(Frames) /\ k.inside \in BOOLEAN
           /\ k.err \in BOOLEAN /\ k.pass \in BOOLEAN /\ k.budget \in {"none", "open", "spent"}
           /\ k.awaits \in Producers \cup Runtimes \cup {Nobody} /\ k.pid \in Runtimes \cup {Nobody}
BY FramesAre DEF CallStates

(* A stack with handlers has an innermost one.                               *)
LEMMA FirstHandler ==
    ASSUME NEW s \in Seq(Frames), {i \in DOMAIN s : s[i] \in DOMAIN OnRaise} # {}
    PROVE  \E i \in {i \in DOMAIN s : s[i] \in DOMAIN OnRaise} :
              \A h \in {j \in DOMAIN s : s[j] \in DOMAIN OnRaise} : i <= h
<1> DEFINE handlers == {i \in DOMAIN s : s[i] \in DOMAIN OnRaise}
<1>1. handlers \subseteq Nat /\ handlers # {}
  OBVIOUS
<1>2. PICK i \in handlers : \A h \in handlers : ~(<<h, i>> \in OpToRel(<, Nat))
  BY <1>1, WFMin, NatLessThanWellFounded
<1>3. \A h \in handlers : i <= h
  <2> TAKE h \in handlers
  <2>1. h \in Nat /\ i \in Nat
    BY <1>1
  <2>2. ~(h < i)
    BY <1>2, <2>1 DEF OpToRel
  <2> HIDE DEF handlers
  <2>3. QED
    BY <2>1, <2>2
<1>4. QED
  BY <1>3

(* An error that a method handles on the way is taken there.                  *)
LEMMA UnwindGives ==
    ASSUME NEW k \in CallStates, NEW s \in Seq(Frames)
    PROVE  \/ Unwind(k, s) = Over
           \/ \E i \in 1 .. Len(s) :
                 /\ s[i] \in DOMAIN OnRaise
                 /\ Unwind(k, s) =
                       [k EXCEPT !.pc = OnRaise[s[i]], !.awaits = Nobody, !.pass = @ /\ s[i] = "stop",
                                 !.err = s[i] \in {"stop", "clean", "phase"},
                                 !.stack = SubSeq(s, i + 1, Len(s)),
                                 !.inside = @ /\ s[i] \notin {"phase", "sequence"}]
<1> DEFINE handlers == {i \in DOMAIN s : s[i] \in DOMAIN OnRaise}
           least == CHOOSE j \in handlers : \A h \in handlers : j <= h
<1>1. CASE handlers = {}
  BY <1>1 DEF Unwind
<1>2. CASE handlers # {}
  <2>1. \E j \in handlers : \A h \in handlers : j <= h
    BY <1>2, FirstHandler
  <2>2. least \in handlers
    BY <2>1
  <2>3. least \in 1 .. Len(s) /\ s[least] \in DOMAIN OnRaise
    BY <2>2
  <2>4. Unwind(k, s) = [k EXCEPT !.pc = OnRaise[s[least]], !.awaits = Nobody, !.pass = @ /\ s[least] = "stop",
                                 !.err = s[least] \in {"stop", "clean", "phase"},
                                 !.stack = SubSeq(s, least + 1, Len(s)),
                                 !.inside = @ /\ s[least] \notin {"phase", "sequence"}]
    BY <1>2 DEF Unwind
  <2> HIDE DEF least
  <2>5. QED
    BY <2>3, <2>4
<1>3. QED
  BY <1>1, <1>2

(* What is left of a stack when the frames above i are gone.                  *)
LEMMA Below ==
    ASSUME NEW s \in Seq(Frames), Chained(s), NEW i \in 1 .. Len(s)
    PROVE  LET t == SubSeq(s, i + 1, Len(s))
           IN  /\ t \in Seq(Frames) /\ Chained(t)
               /\ Top(t) \in Under[s[i]]
               /\ \A j \in 1 .. Len(t) : i + j \in 1 .. Len(s) /\ t[j] = s[i + j]
<1> DEFINE t == SubSeq(s, i + 1, Len(s))
<1>1. t \in Seq(Frames) /\ Len(t) = Len(s) - i
      /\ \A j \in 1 .. Len(t) : i + j \in 1 .. Len(s) /\ t[j] = s[i + j]
  OBVIOUS
<1> HIDE DEF t
<1>2. Chained(t)
  <2> SUFFICES ASSUME NEW j \in 1 .. Len(t)
               PROVE  IF j = Len(t) THEN Bottom \in Under[t[j]] ELSE t[j + 1] \in Under[t[j]]
    BY DEF Chained
  <2>1. IF i + j = Len(s) THEN Bottom \in Under[s[i + j]] ELSE s[i + j + 1] \in Under[s[i + j]]
    BY <1>1 DEF Chained
  <2>2. i + (j + 1) = i + j + 1
    OBVIOUS
  <2>3. CASE j = Len(t)
    BY <1>1, <2>1, <2>3
  <2>4. CASE j # Len(t)
    <3>1. j + 1 \in 1 .. Len(t) /\ i + j # Len(s)
      BY <1>1, <2>4
    <3>2. t[j + 1] = s[i + (j + 1)] /\ t[j] = s[i + j]
      BY <1>1, <3>1
    <3>3. QED
      BY <2>1, <2>2, <2>4, <3>1, <3>2
  <2>5. QED
    BY <2>3, <2>4
<1>3. Top(t) \in Under[s[i]]
  <2>1. CASE i = Len(s)
    BY <1>1, <2>1 DEF Chained, Top
  <2>2. CASE i # Len(s)
    BY <1>1, <2>2 DEF Chained, Top
  <2>3. QED
    BY <2>1, <2>2
<1>4. QED
  BY <1>1, <1>2, <1>3 DEF t

(* A sequence is the outermost method.                                        *)
LEMMA SequenceBelow ==
    ASSUME NEW t \in Seq(Frames), Chained(t), Top(t) = "sequence"
    PROVE  \A j \in 1 .. Len(t) : t[j] = "sequence"
<1>1. Len(t) \in Nat /\ Len(t) >= 1 /\ t[1] = "sequence"
  BY DEF Top, Bottom
<1>2. IF 1 = Len(t) THEN Bottom \in Under[t[1]] ELSE t[1 + 1] \in Under[t[1]]
  BY <1>1 DEF Chained
<1>3. CASE Len(t) # 1
  <2>1. \A n \in Nat : n >= 1 /\ n # 1 => 1 + 1 \in 1 .. n
    OBVIOUS
  <2>2. 1 + 1 \in 1 .. Len(t)
    BY <1>1, <1>3, <2>1
  <2>3. t[1 + 1] \in Frames
    BY <2>2
  <2>4. QED
    BY <1>1, <1>2, <1>3, <2>3, FramesAre DEF Under
<1>4. QED
  BY <1>1, <1>3

(* The frame of a revocation or of a phase is the innermost one.              *)
LEMMA Innermost ==
    ASSUME NEW k \in CallStates, Fits(k), NEW i \in 1 .. Len(k.stack)
    PROVE  /\ k.stack[i] \in {"stop", "none", "clean"} => i = 1 /\ k.pc \in Revoking
           /\ k.stack[i] = "phase" => i = 1 /\ k.pc \in {"seq.spawn", "seq.watch"}
<1>1. k.stack \in Seq(Frames) /\ k.pc \in Labels
  BY CallFields
<1>2. CASE i = 1
  <2>1. k.stack[i] \in Beneath[k.pc]
    BY <1>1, <1>2 DEF Fits, Top
  <2>2. QED
    BY <1>1, <1>2, <2>1 DEF Beneath, Labels, Revoking, StopUsers, OffUsers, Starters, Bottom
<1>3. CASE i # 1
  <2>1. i - 1 \in 1 .. Len(k.stack) /\ i - 1 # Len(k.stack) /\ (i - 1) + 1 = i
    BY <1>1, <1>3
  <2>2. k.stack[i] \in Under[k.stack[i - 1]]
    BY <2>1 DEF Fits, Chained
  <2>3. k.stack[i - 1] \in Frames
    BY <1>1, <2>1
  <2>4. QED
    BY <2>2, <2>3 DEF Under, Frames, StopUsers, OffUsers, Starters, Bottom
<1>4. QED
  BY <1>2, <1>3

(* The frame above another one.                                               *)
LEMMA Above ==
    ASSUME NEW k \in CallStates, Fits(k), NEW i \in 1 .. Len(k.stack)
    PROVE  /\ i = 1 => k.stack[i] \in Beneath[k.pc]
           /\ i # 1 => /\ i - 1 \in 1 .. Len(k.stack) /\ k.stack[i - 1] \in Frames
                       /\ k.stack[i] \in Under[k.stack[i - 1]]
<1>1. k.stack \in Seq(Frames) /\ k.pc \in Labels
  BY CallFields
<1>2. CASE i = 1
  BY <1>1, <1>2 DEF Fits, Top
<1>3. CASE i # 1
  <2>1. i - 1 \in 1 .. Len(k.stack) /\ i - 1 # Len(k.stack) /\ (i - 1) + 1 = i
    BY <1>1, <1>3
  <2>2. k.stack[i] \in Under[k.stack[i - 1]]
    BY <2>1 DEF Fits, Chained
  <2>3. QED
    BY <1>1, <1>3, <2>1, <2>2
<1>4. QED
  BY <1>2, <1>3

(* Above the old runtime's stop there is nothing but stopping.                 *)
LEMMA AboveOld ==
    ASSUME NEW k \in CallStates, Fits(k), On(k, "old")
    PROVE  k.pc \in Revoking \cup {"stop.first", "stop.again", "stop.lock", "stop.idle",
                                    "off.first", "off.lock", "off.kill", "off.find", "off.gone"}
<1>1. k.pc \in Labels
  BY CallFields
<1>2. \A i \in 1 .. Len(k.stack) : k.stack[i] = "stop" => i = 1 /\ k.pc \in Revoking
  BY Innermost
<1>3. \A i \in 1 .. Len(k.stack) : k.stack[i] = "off" =>
        k.pc \in Revoking \cup {"stop.first", "stop.again", "stop.lock", "stop.idle"}
  <2> SUFFICES ASSUME NEW i \in 1 .. Len(k.stack), k.stack[i] = "off"
               PROVE  k.pc \in Revoking \cup {"stop.first", "stop.again", "stop.lock", "stop.idle"}
    OBVIOUS
  <2>1. CASE i = 1
    BY <1>1, <2>1, Above DEF Beneath, Labels, StopUsers, OffUsers, Starters, Bottom, Revoking
  <2>2. CASE i # 1
    <3>1. i - 1 \in 1 .. Len(k.stack) /\ k.stack[i - 1] \in Frames /\ "off" \in Under[k.stack[i - 1]]
      BY <2>2, Above
    <3>2. k.stack[i - 1] = "stop"
      BY <3>1 DEF Under, Frames, StopUsers, OffUsers, Starters, Bottom
    <3>3. QED
      BY <1>2, <3>1, <3>2
  <2>3. QED
    BY <2>1, <2>2
<1>4. PICK i \in 1 .. Len(k.stack) : k.stack[i] = "old"
  BY DEF On
<1>5. CASE i = 1
  BY <1>1, <1>4, <1>5, Above DEF Beneath, Labels, StopUsers, OffUsers, Starters, Bottom
<1>6. CASE i # 1
  <2>1. i - 1 \in 1 .. Len(k.stack) /\ k.stack[i - 1] \in Frames /\ "old" \in Under[k.stack[i - 1]]
    BY <1>4, <1>6, Above
  <2>2. k.stack[i - 1] = "off"
    BY <2>1 DEF Under, Frames, StopUsers, OffUsers, Starters, Bottom
  <2>3. QED
    BY <1>3, <2>1, <2>2
<1>7. QED
  BY <1>5, <1>6

(* On a sequence only its phase or its cleanup stands, on its last stop only a     *)
(* revocation.                                                              *)
LEMMA OnSequence ==
    ASSUME NEW k \in CallStates, Fits(k), On(k, "sequence")
    PROVE  \A i \in 1 .. Len(k.stack) : k.stack[i] \in {"clean", "phase", "sequence"}
<1>1. k.stack \in Seq(Frames) /\ k.pc \in Labels
  BY CallFields
<1>2. PICK i \in 1 .. Len(k.stack) : k.stack[i] = "sequence"
  BY DEF On
<1>3. i = Len(k.stack)
  <2>1. CASE i # Len(k.stack)
    <3>1. k.stack[i + 1] \in Under["sequence"] /\ i + 1 \in 1 .. Len(k.stack)
      BY <1>1, <1>2, <2>1 DEF Fits, Chained
    <3>2. k.stack[i + 1] \in Frames
      BY <1>1, <3>1
    <3>3. QED
      BY <3>1, <3>2, FramesAre DEF Under
  <2>2. QED
    BY <2>1
<1>4. CASE i = 1
  <2>1. \A j \in 1 .. Len(k.stack) : j = i
    BY <1>1, <1>3, <1>4
  <2>2. QED
    BY <1>2, <2>1
<1>5. CASE i # 1
  <2>1. i - 1 \in 1 .. Len(k.stack) /\ k.stack[i - 1] \in Frames /\ "sequence" \in Under[k.stack[i - 1]]
    BY <1>2, <1>5, Above
  <2>2. k.stack[i - 1] \in {"clean", "phase"}
    BY <2>1 DEF Under, Frames, StopUsers, OffUsers, Starters, Bottom
  <2>3. i - 1 = 1
    BY <2>1, <2>2, Innermost
  <2> DEFINE n == Len(k.stack)
  <2>4. n \in Nat /\ i \in 1 .. n /\ i = n
    BY <1>1, <1>3
  <2> HIDE DEF n
  <2>5. \A j \in 1 .. n : j = i \/ j = i - 1
    BY <2>3, <2>4
  <2>6. QED
    BY <1>2, <2>2, <2>5 DEF n
<1>6. QED
  BY <1>4, <1>5

(* On the last stop of a sequence only a revocation stands.                  *)
LEMMA OnFinal ==
    ASSUME NEW k \in CallStates, Fits(k), On(k, "final")
    PROVE  \A i \in 1 .. Len(k.stack) : k.stack[i] \in {"stop", "final"}
<1>1. k.stack \in Seq(Frames) /\ k.pc \in Labels
  BY CallFields
<1>2. PICK i \in 1 .. Len(k.stack) : k.stack[i] = "final"
  BY DEF On
<1>3. i = Len(k.stack)
  <2>1. CASE i # Len(k.stack)
    <3>1. k.stack[i + 1] \in Under["final"] /\ i + 1 \in 1 .. Len(k.stack)
      BY <1>1, <1>2, <2>1 DEF Fits, Chained
    <3>2. k.stack[i + 1] \in Frames
      BY <1>1, <3>1
    <3>3. QED
      BY <3>1, <3>2, FramesAre DEF Under
  <2>2. QED
    BY <2>1
<1>4. CASE i = 1
  <2>1. \A j \in 1 .. Len(k.stack) : j = i
    BY <1>1, <1>3, <1>4
  <2>2. QED
    BY <1>2, <2>1
<1>5. CASE i # 1
  <2>1. i - 1 \in 1 .. Len(k.stack) /\ k.stack[i - 1] \in Frames /\ "final" \in Under[k.stack[i - 1]]
    BY <1>2, <1>5, Above
  <2>2. k.stack[i - 1] = "stop"
    BY <2>1 DEF Under, Frames, StopUsers, OffUsers, Starters, Bottom
  <2>3. i - 1 = 1
    BY <2>1, <2>2, Innermost
  <2> DEFINE n == Len(k.stack)
  <2>4. n \in Nat /\ i \in 1 .. n /\ i = n
    BY <1>1, <1>3
  <2> HIDE DEF n
  <2>5. \A j \in 1 .. n : j = i \/ j = i - 1
    BY <2>3, <2>4
  <2>6. QED
    BY <1>2, <2>2, <2>5 DEF n
<1>6. QED
  BY <1>4, <1>5

(* A place that only an entered call can be in has nothing beneath it.       *)
LEMMA OnNothing ==
    ASSUME NEW k \in CallStates, Fits(k), Beneath[k.pc] = {Bottom}
    PROVE  k.stack = <<>> /\ \A f : ~On(k, f)
<1>1. k.stack = <<>>
  BY CallFields, FramesAre DEF Fits, Top
<1>2. QED
  BY <1>1 DEF On

(* Fields of a call that an error or a return leaves alone.                    *)
Lands(k, r) ==
    /\ r \in CallStates /\ Fits(r)
    /\ r.budget = k.budget /\ r.pid = k.pid /\ r.awaits = Nobody
    /\ \A f \in Frames : On(r, f) => On(k, f)

(* What an error comes to: the end of the call or the handler of a frame.       *)
Handled(k, r) ==
    \/ r = Over
    \/ /\ Lands(k, r)
       /\ \/ /\ r.pc = "stop.again" /\ r.err /\ r.pass = k.pass /\ r.inside = k.inside
             /\ k.pc \in Revoking /\ On(k, "stop")
          \/ r.pc = "off.kill" /\ ~r.pass /\ r.inside = k.inside /\ On(k, "off")
          \/ /\ r.pc = "seq.zero" /\ r.err /\ ~r.pass /\ r.inside = k.inside
             /\ On(k, "clean")
          \/ /\ r.pc \in {"seq.clean", "seq.final"} /\ ~r.pass /\ ~r.inside
             /\ \A f \in InsideFrames : ~On(r, f)

(* An error unwinds to a handler, and a sequence stays one until it is over. *)
LEMMA ErrorIsHandled ==
    ASSUME NEW k \in CallStates, Fits(k), NEW s \in Seq(Frames), Chained(s),
           \A j \in 1 .. Len(s) : \E m \in 1 .. Len(k.stack) : k.stack[m] = s[j],
           On(k, "final") => \E j \in 1 .. Len(s) : s[j] = "final"
    PROVE  /\ Handled(k, Unwind(k, s))
           /\ On(k, "sequence") \/ On(k, "final") => Owned(Unwind(k, s))
<1> DEFINE r == Unwind(k, s)
<1>1. SUFFICES ASSUME r # Over
               PROVE  Handled(k, r) /\ (On(k, "sequence") \/ On(k, "final") => Owned(r))
  BY DEF Handled, Owned, Over, NoCall
<1>2. PICK i \in 1 .. Len(s) :
        /\ s[i] \in DOMAIN OnRaise
        /\ r = [k EXCEPT !.pc = OnRaise[s[i]], !.awaits = Nobody, !.pass = @ /\ s[i] = "stop",
                         !.err = s[i] \in {"stop", "clean", "phase"},
                         !.stack = SubSeq(s, i + 1, Len(s)),
                         !.inside = @ /\ s[i] \notin {"phase", "sequence"}]
  BY <1>1, UnwindGives
<1> DEFINE t == SubSeq(s, i + 1, Len(s))
<1>3. /\ t \in Seq(Frames) /\ Chained(t) /\ Top(t) \in Under[s[i]]
      /\ \A j \in 1 .. Len(t) : i + j \in 1 .. Len(s) /\ t[j] = s[i + j]
  BY Below
<1>4. /\ r.stack = t /\ r.pc = OnRaise[s[i]] /\ r.awaits = Nobody /\ r.budget = k.budget /\ r.pid = k.pid
      /\ r.pass = (k.pass /\ s[i] = "stop") /\ r.err = (s[i] \in {"stop", "clean", "phase"})
      /\ r.inside = (k.inside /\ s[i] \notin {"phase", "sequence"})
  BY <1>2 DEF CallStates
<1>5. r \in CallStates
  <2>1. OnRaise[s[i]] \in Labels
    BY <1>2, FramesAre DEF OnRaise, Labels
  <2>2. /\ (k.pass /\ s[i] = "stop") \in BOOLEAN /\ (s[i] \in {"stop", "clean", "phase"}) \in BOOLEAN
        /\ (k.inside /\ s[i] \notin {"phase", "sequence"}) \in BOOLEAN
    OBVIOUS
  <2>3. r = [k EXCEPT !.pc = OnRaise[s[i]], !.awaits = Nobody, !.pass = (k.pass /\ s[i] = "stop"),
                      !.err = (s[i] \in {"stop", "clean", "phase"}), !.stack = t,
                      !.inside = (k.inside /\ s[i] \notin {"phase", "sequence"})]
    BY <1>2 DEF CallStates
  <2> HIDE DEF r, t
  <2>4. QED
    BY <1>3, <2>1, <2>2, <2>3, FramesAre DEF CallStates
<1> HIDE DEF r, t
<1>6. Fits(r)
  <2>1. \A f \in DOMAIN OnRaise : Under[f] \subseteq Beneath[OnRaise[f]]
    BY FramesAre DEF OnRaise, Beneath, Under, Labels, StopUsers, OffUsers, Starters, Bottom
  <2>2. QED
    BY <1>2, <1>3, <1>4, <2>1 DEF Fits
<1>7. \A f \in Frames : On(r, f) => On(k, f)
  <2> SUFFICES ASSUME NEW f \in Frames, NEW j \in 1 .. Len(t), t[j] = f
               PROVE  On(k, f)
    BY <1>3, <1>4 DEF On
  <2>1. PICK m \in 1 .. Len(k.stack) : k.stack[m] = f
    BY <1>3
  <2>2. QED
    BY <2>1, CallFields DEF On
<1>8. On(k, s[i]) /\ s[i] \in {"stop", "off", "clean", "phase", "sequence"}
  BY <1>2, CallFields, FramesAre DEF On
<1>9. s[i] = "stop" => k.pc \in Revoking
  BY <1>8, Innermost DEF On
<1>10. s[i] \in {"phase", "sequence"} => \A f \in InsideFrames : ~On(r, f)
  <2>1. CASE s[i] = "sequence"
    <3>1. Top(t) = Bottom
      BY <1>3, <2>1 DEF Under
    <3>2. t = <<>>
      BY <1>3, <3>1, FramesAre DEF Top
    <3>3. QED
      BY <1>4, <3>2 DEF On
  <2>2. CASE s[i] = "phase"
    <3>1. Top(t) = "sequence"
      BY <1>3, <2>2 DEF Under
    <3>2. \A j \in 1 .. Len(t) : t[j] = "sequence"
      BY <1>3, <3>1, SequenceBelow
    <3>3. "sequence" \notin InsideFrames
      BY DEF InsideFrames
    <3>4. r.stack = t /\ DOMAIN t = 1 .. Len(t)
      BY <1>3, <1>4
    <3>5. \A f : On(r, f) => f = "sequence"
      BY <3>2, <3>4 DEF On
    <3>6. QED
      BY <3>3, <3>5
  <2>3. QED
    BY <2>1, <2>2
<1>11. Lands(k, r)
  BY <1>4, <1>5, <1>6, <1>7 DEF Lands
<1>12. /\ s[i] \notin {"phase", "sequence"} => r.inside = k.inside
       /\ s[i] \in {"phase", "sequence"} => ~r.inside
       /\ s[i] = "stop" => r.pass = k.pass
       /\ s[i] # "stop" => ~r.pass
       /\ s[i] \in {"stop", "clean", "phase"} => r.err
  BY <1>4, CallFields
<1> HIDE DEF t
<1>13. /\ s[i] = "stop" => r.pc = "stop.again"
       /\ s[i] = "off" => r.pc = "off.kill"
       /\ s[i] = "clean" => r.pc = "seq.zero"
       /\ s[i] \in {"phase", "sequence"} => r.pc \in {"seq.clean", "seq.final"}
  BY <1>4 DEF OnRaise
<1>14. Handled(k, r)
  BY <1>8, <1>9, <1>10, <1>11, <1>12, <1>13 DEF Handled
<1>15. ASSUME On(k, "sequence")
       PROVE  Owned(r)
  <2>1. s[i] \in {"clean", "phase", "sequence"}
    <3>1. PICK m \in 1 .. Len(k.stack) : k.stack[m] = s[i]
      OBVIOUS
    <3>2. QED
      BY <1>15, <3>1, OnSequence
  <2>2. CASE s[i] = "sequence"
    BY <1>4, <2>2 DEF OnRaise, Owned
  <2>3. CASE s[i] \in {"clean", "phase"}
    <3>1. Top(t) = "sequence"
      BY <1>3, <2>3 DEF Under
    <3>2. 1 \in 1 .. Len(t) /\ t[1] = "sequence"
      BY <1>3, <3>1 DEF Top, Bottom
    <3>3. QED
      BY <1>3, <1>4, <3>2 DEF Owned, On
  <2>4. QED
    BY <2>1, <2>2, <2>3
<1>16. ASSUME On(k, "final")
       PROVE  Owned(r)
  <2>1. s[i] = "stop"
    <3>1. PICK m \in 1 .. Len(k.stack) : k.stack[m] = s[i]
      OBVIOUS
    <3>2. k.stack[m] \in {"stop", "final"}
      BY <1>16, OnFinal
    <3>3. QED
      BY <1>8, <3>1, <3>2
  <2>2. i = 1
    <3>1. SUFFICES ASSUME i # 1
                   PROVE  FALSE
      OBVIOUS
    <3>2. i - 1 \in 1 .. Len(s) /\ i - 1 # Len(s) /\ (i - 1) + 1 = i
      BY <3>1
    <3>3. "stop" \in Under[s[i - 1]] /\ s[i - 1] \in Frames
      BY <2>1, <3>2 DEF Chained
    <3>4. \A f \in Frames : "stop" \notin Under[f]
      BY DEF Under, Frames, StopUsers, OffUsers, Starters, Bottom
    <3>5. QED
      BY <3>3, <3>4
  <2>3. PICK j \in 1 .. Len(s) : s[j] = "final"
    BY <1>16
  <2>4. j # 1
    BY <2>1, <2>2, <2>3
  <2>5. j - 1 \in 1 .. Len(t) /\ 1 + (j - 1) = j
    BY <2>2, <2>4 DEF t
  <2>6. t[j - 1] = "final"
    BY <1>3, <2>2, <2>3, <2>5
  <2>7. QED
    BY <1>3, <1>4, <2>5, <2>6 DEF Owned, On
<1>17. QED
  BY <1>14, <1>15, <1>16

(* The same of an error raised where the call stands.                        *)
LEMMA RaiseIsHandled ==
    ASSUME NEW k \in CallStates, Fits(k)
    PROVE  /\ Handled(k, Raise(k))
           /\ On(k, "sequence") \/ On(k, "final") => Owned(Raise(k))
<1>1. k.stack \in Seq(Frames)
  BY CallFields
<1>2. /\ \A j \in 1 .. Len(k.stack) : \E m \in 1 .. Len(k.stack) : k.stack[m] = k.stack[j]
      /\ On(k, "final") => \E j \in 1 .. Len(k.stack) : k.stack[j] = "final"
  BY <1>1 DEF On
<1>3. QED
  BY <1>1, <1>2, ErrorIsHandled DEF Raise, Fits

(* What a return comes to: the end of the call, an error of the caller, or the    *)
(* place where the innermost frame goes on.                                   *)
Resumed(k, r) ==
    /\ Lands(k, r)
    /\ k.stack # <<>> /\ r.pc = OnReturn[k.stack[1]] /\ k.stack[1] \notin {"unready", "undo", "final"}
    /\ r.inside = k.inside /\ r.err = k.err /\ r.pass = (k.pass /\ r.pc = "stop.again")

(* A return goes on where the caller wants, and a sequence stays one.        *)
LEMMA ReturnResumes ==
    ASSUME NEW k \in CallStates, Fits(k)
    PROVE  /\ \/ Return(k) = Over
              \/ k.stack # <<>> /\ k.stack[1] \in {"unready", "undo"} /\ Handled(k, Return(k))
              \/ Resumed(k, Return(k))
           /\ On(k, "sequence") \/ On(k, "final") => Owned(Return(k))
<1>1. k.stack \in Seq(Frames) /\ k.pc \in Labels
  BY CallFields
<1>2. CASE k.stack = <<>>
  BY <1>2 DEF Return, Owned, Over, NoCall
<1>3. CASE k.stack # <<>>
  <2> DEFINE t == Tail(k.stack)
  <2>1. k.stack[1] \in Frames /\ Head(k.stack) = k.stack[1] /\ 1 \in 1 .. Len(k.stack)
    BY <1>1, <1>3
  <2>2. t = SubSeq(k.stack, 1 + 1, Len(k.stack))
    BY <1>1, <1>3
  <2>3. /\ t \in Seq(Frames) /\ Chained(t) /\ Top(t) \in Under[k.stack[1]]
        /\ \A j \in 1 .. Len(t) : 1 + j \in 1 .. Len(k.stack) /\ t[j] = k.stack[1 + j]
    BY <1>1, <2>1, <2>2, Below DEF Fits
  <2> HIDE DEF t
  <2>4. CASE k.stack[1] = "final"
    BY <1>3, <2>1, <2>4 DEF Return, OnReturn, Owned, Over, NoCall
  <2>5. CASE k.stack[1] \in {"unready", "undo"}
    <3>1. Return(k) = Unwind(k, t)
      BY <1>3, <2>1, <2>5 DEF Return, OnReturn, t
    <3>2. \A j \in 1 .. Len(t) : \E m \in 1 .. Len(k.stack) : k.stack[m] = t[j]
      BY <2>3
    <3>3. ~On(k, "sequence") /\ ~On(k, "final")
      BY <2>1, <2>5, OnSequence, OnFinal
    <3>4. QED
      BY <1>3, <2>3, <2>5, <3>1, <3>2, <3>3, ErrorIsHandled
  <2>6. CASE k.stack[1] \notin {"unready", "undo", "final"}
    <3> DEFINE to == OnReturn[k.stack[1]]
               r == Return(k)
    <3>1. to \in Labels /\ to \notin {"raise", "over"}
      BY <2>1, <2>6 DEF OnReturn, Frames, Labels
    <3>2. r = [k EXCEPT !.pc = to, !.stack = t, !.awaits = Nobody, !.pass = @ /\ to = "stop.again"]
      BY <1>3, <2>1, <3>1 DEF Return, t
    <3>3. /\ r.pc = to /\ r.stack = t /\ r.awaits = Nobody /\ r.pass = (k.pass /\ to = "stop.again")
          /\ r.inside = k.inside /\ r.err = k.err /\ r.budget = k.budget
          /\ r.pid = k.pid
      BY <3>2 DEF CallStates
    <3>4. r \in CallStates
      BY <2>3, <3>1, <3>2, FramesAre DEF CallStates
    <3> HIDE DEF r
    <3>5. Fits(r)
      BY <2>1, <2>3, <2>6, <3>3 DEF Fits, Frames, OnReturn, Beneath, Under, Labels, StopUsers,
             OffUsers, Starters, Bottom
    <3>6. \A f \in Frames : On(r, f) => On(k, f)
      BY <1>1, <2>3, <3>3 DEF On
    <3>7. Resumed(k, r)
      BY <1>3, <2>6, <3>3, <3>4, <3>5, <3>6 DEF Resumed, Lands
    <3>8. ASSUME On(k, "sequence")
          PROVE  Owned(r)
      <4>1. k.stack[1] \in {"clean", "phase", "sequence"}
        BY <2>1, <3>8, OnSequence
      <4>2. CASE k.stack[1] = "sequence"
        BY <3>3, <4>2 DEF OnReturn, Owned
      <4>3. CASE k.stack[1] \in {"clean", "phase"}
        <5>1. Top(t) = "sequence"
          BY <2>3, <4>3 DEF Under
        <5>2. 1 \in 1 .. Len(t) /\ t[1] = "sequence"
          BY <2>3, <5>1 DEF Top, Bottom
        <5>3. QED
          BY <2>3, <3>3, <5>2 DEF Owned, On
      <4>4. QED
        BY <4>1, <4>2, <4>3
    <3>9. ASSUME On(k, "final")
          PROVE  Owned(r)
      <4>1. PICK j \in 1 .. Len(k.stack) : k.stack[j] = "final"
        BY <3>9 DEF On
      <4>2. j # 1
        BY <2>6, <4>1
      <4>3. j - 1 \in 1 .. Len(t) /\ 1 + (j - 1) = j
        BY <1>1, <1>3, <4>2 DEF t
      <4>4. t[j - 1] = "final"
        BY <2>3, <4>1, <4>3
      <4>5. QED
        BY <2>3, <3>3, <4>3, <4>4 DEF Owned, On
    <3>10. QED
      BY <3>7, <3>8, <3>9 DEF r
  <2>7. QED
    BY <2>4, <2>5, <2>6
<1>4. QED
  BY <1>2, <1>3

(* A method is called.                                                       *)
LEMMA PushFits ==
    ASSUME NEW k \in CallStates, Fits(k), NEW l \in Labels, NEW f \in Frames,
           Top(k.stack) \in Under[f], f \in Beneath[l]
    PROVE  LET r == Push(k, l, f)
           IN  /\ r \in CallStates /\ Fits(r) /\ r.stack[1] = f
               /\ r.pc = l /\ r.inside = k.inside /\ r.err = k.err /\ r.pass = k.pass
               /\ r.budget = k.budget /\ r.awaits = k.awaits /\ r.pid = k.pid
               /\ \A g \in Frames : On(r, g) <=> g = f \/ On(k, g)
<1> DEFINE r == Push(k, l, f)
           t == <<f>> \o k.stack
<1>1. k.stack \in Seq(Frames)
  BY CallFields
<1>2. /\ t \in Seq(Frames) /\ Len(t) = Len(k.stack) + 1 /\ t[1] = f
      /\ \A j \in 1 .. Len(k.stack) : t[j + 1] = k.stack[j]
  BY <1>1
<1>3. r = [k EXCEPT !.pc = l, !.stack = t]
  BY DEF Push
<1> HIDE DEF t
<1>4. /\ r.pc = l /\ r.stack = t /\ r.inside = k.inside /\ r.err = k.err /\ r.pass = k.pass
      /\ r.budget = k.budget /\ r.awaits = k.awaits /\ r.pid = k.pid
  BY <1>3 DEF CallStates
<1>5. r \in CallStates
  BY <1>2, <1>3, FramesAre DEF CallStates
<1> HIDE DEF r
<1>6. Chained(t)
  <2> SUFFICES ASSUME NEW i \in 1 .. Len(t)
               PROVE  IF i = Len(t) THEN Bottom \in Under[t[i]] ELSE t[i + 1] \in Under[t[i]]
    BY DEF Chained
  <2>1. CASE i = 1
    <3>1. CASE k.stack = <<>>
      BY <1>1, <1>2, <2>1, <3>1 DEF Top
    <3>2. CASE k.stack # <<>>
      BY <1>1, <1>2, <2>1, <3>2 DEF Top
    <3>3. QED
      BY <3>1, <3>2
  <2>2. CASE i # 1
    <3>1. PICK j \in 1 .. Len(k.stack) : i = j + 1
      <4>1. i - 1 \in 1 .. Len(k.stack) /\ i = (i - 1) + 1
        BY <1>1, <1>2, <2>2
      <4>2. QED
        BY <4>1
    <3>2. t[i] = k.stack[j] /\ (i = Len(t) <=> j = Len(k.stack))
      BY <1>1, <1>2, <3>1
    <3>3. i # Len(t) => t[i + 1] = k.stack[j + 1]
      <4>1. i # Len(t) => j + 1 \in 1 .. Len(k.stack)
        BY <1>1, <3>1, <3>2
      <4>2. QED
        BY <1>2, <3>1, <4>1
    <3>4. QED
      BY <3>2, <3>3 DEF Fits, Chained
  <2>3. QED
    BY <2>1, <2>2
<1>7. Fits(r)
  BY <1>2, <1>4, <1>6 DEF Fits, Top
<1>8. \A g \in Frames : On(r, g) <=> g = f \/ On(k, g)
  <2> TAKE g \in Frames
  <2>1. On(r, g) => g = f \/ On(k, g)
    <3> SUFFICES ASSUME NEW i \in 1 .. Len(t), t[i] = g, g # f
                 PROVE  On(k, g)
      BY <1>2, <1>4 DEF On
    <3>1. i - 1 \in 1 .. Len(k.stack) /\ i = (i - 1) + 1
      BY <1>1, <1>2
    <3>2. k.stack[i - 1] = g
      BY <1>2, <3>1
    <3>3. QED
      BY <1>1, <3>1, <3>2 DEF On
  <2>2. g = f => On(r, g)
    BY <1>1, <1>2, <1>4 DEF On
  <2>3. On(k, g) => On(r, g)
    <3> SUFFICES ASSUME NEW j \in 1 .. Len(k.stack), k.stack[j] = g
                 PROVE  On(r, g)
      BY <1>1 DEF On
    <3>1. j + 1 \in 1 .. Len(t) /\ t[j + 1] = g
      BY <1>1, <1>2
    <3>2. QED
      BY <1>2, <1>4, <3>1 DEF On
  <2>4. QED
    BY <2>1, <2>2, <2>3
<1>9. QED
  BY <1>2, <1>4, <1>5, <1>7, <1>8 DEF r

-----------------------------------------------------------------------------
(* The inductive invariant.                                                  *)
IInv == TypeOK /\ OneInside /\ CallInv /\ OneProducer /\ MarkedProducers /\ OneProcess

(* What a call knows of the rest of the system where it stands.              *)
Knows(c, k) == ProducerOf(c, k) /\ MarkerOf(c, k) /\ RuntimeOf(k)

(* What processes, and calls that are not inside, do to the rest.             *)
Harmless ==
    /\ \A p \in Producers :
          /\ Alive(p)' => Alive(p) /\ spawner'[p] = spawner[p] /\ (p \in term => p \in term')
          /\ producer[p] # "NONE" => producer'[p] # "NONE"
    /\ mail = "STOP" /\ NoProducer => mail' = "STOP"
    /\ marker' \in {marker, Nobody}
    /\ revoked' = revoked
    /\ \A r \in Runtimes :
          /\ runtime'[r] \notin {"NONE", "GONE"} => runtime[r] \notin {"NONE", "GONE"}
          /\ runtime'[r] = "SPAWNED" => runtime[r] = "SPAWNED"
    /\ abandoned \subseteq abandoned'

(* What is harmless leaves every call's knowledge true.                      *)
LEMMA KnowledgeKeeps ==
    ASSUME Harmless, NEW c \in Callers, NEW k \in CallStates, InsideOf(k), Knows(c, k)
    PROVE  Knows(c, k)'
<1>1. ProducerOf(c, k)'
    <2>1. NoProducer => NoProducer'
        BY DEF Harmless, NoProducer
    <2>2. \A p \in Producers : Alive(p)' => Alive(p) /\ (p \in term => p \in term')
        BY DEF Harmless
    <2>3. k.pc = "rev.gone" =>
             /\ k.awaits \in Producers /\ producer'[k.awaits] # "NONE"
             /\ Alive(k.awaits)' => k.awaits \in term'
        BY <2>2 DEF Knows, ProducerOf, Harmless
    <2>4. k.pc = "stop.lock" /\ k.pass /\ ~k.err => mail' = "STOP"
        BY DEF Knows, ProducerOf, InsideOf, Harmless
    <2>5. k.pc = "stop.idle" => mail' = "STOP"
        BY DEF Knows, ProducerOf, Harmless
    <2>6. k.pc = "seq.phase" /\ marker' = c => NoProducer
        BY OperatorAssumption DEF Knows, ProducerOf, Harmless
    <2>7. QED
        BY <2>1, <2>2, <2>3, <2>4, <2>5, <2>6 DEF Knows, ProducerOf
<1>2. MarkerOf(c, k)'
    BY OperatorAssumption DEF Harmless, Knows, MarkerOf
<1>3. RuntimeOf(k)'
    BY DEF Harmless, Knows, RuntimeOf, Processes
<1>4. QED
    BY <1>1, <1>2, <1>3 DEF Knows

(* What a call becomes, from k to r: where it stands, and what it knows then.     *)
Good(c, k, r) ==
    /\ r \in CallStates /\ Fits(r) /\ InsideOf(r)
    /\ r.inside => k.inside \/ MayEnter(c)
    /\ Knows(c, r)'

(* A harmless step of a call that is right about what comes next keeps the invariant. *)
LEMMA CallKeeps ==
    ASSUME IInv, TypeOK', Harmless, NEW c \in Callers, NEW k, k = call[c], NEW r,
           Become(c, r), Good(c, k, r),
           k.pc = "start.pid" =>
              \/ r.pc = "start.pid" /\ r.awaits = k.awaits
              \/ abandoned' # {}
              \/ runtime'[k.awaits] # "SPAWNED"
    PROVE  IInv'
<1>1. call'[c] = r /\ \A d \in Callers \ {c} : call'[d] = call[d]
    BY DEF IInv, TypeOK, Become
<1>2. OneInside'
    BY <1>1 DEF IInv, OneInside, Good, MayEnter
<1>3. ASSUME NEW d \in Callers
      PROVE  Fits(call'[d]) /\ InsideOf(call'[d]) /\ Knows(d, call[d])'
    <2>1. CASE d = c
        BY <2>1, <1>1 DEF Good
    <2>2. CASE d # c
        <3>1. PICK j \in CallStates : j = call[d]
            BY DEF IInv, TypeOK
        <3>2. Fits(j) /\ InsideOf(j) /\ Knows(d, j)
            BY <3>1 DEF IInv, CallInv, Knows
        <3>3. Knows(d, j)'
            BY <3>2, KnowledgeKeeps
        <3>4. QED
            BY <3>1, <3>2, <3>3, <2>2, <1>1
    <2>3. QED
        BY <2>1, <2>2
<1>4. CallInv'
    BY <1>3 DEF CallInv, Knows
<1>5. OneProducer' /\ MarkedProducers'
    BY DEF IInv, OneProducer, MarkedProducers, Harmless
<1>6. OneProcess'
    BY <1>1 DEF IInv, OneProcess, Processes, Harmless, TypeOK
<1>7. QED
    BY <1>2, <1>4, <1>5, <1>6 DEF IInv

(* A harmless step of a process keeps it.                                    *)
LEMMA ProcessKeeps ==
    ASSUME IInv, TypeOK', Harmless, call' = call
    PROVE  IInv'
<1>1. OneInside' /\ OneProducer' /\ MarkedProducers'
    BY DEF IInv, OneInside, OneProducer, MarkedProducers, Harmless
<1>2. ASSUME NEW d \in Callers
      PROVE  Fits(call'[d]) /\ InsideOf(call'[d]) /\ Knows(d, call[d])'
    <2>1. PICK j \in CallStates : j = call[d]
        BY DEF IInv, TypeOK
    <2>2. Fits(j) /\ InsideOf(j) /\ Knows(d, j)
        BY <2>1 DEF IInv, CallInv, Knows
    <2>3. Knows(d, j)'
        BY <2>2, KnowledgeKeeps
    <2>4. QED
        BY <2>1, <2>2, <2>3
<1>3. CallInv'
    BY <1>2 DEF CallInv, Knows
<1>4. OneProcess'
    BY DEF IInv, OneProcess, Processes, Harmless, TypeOK
<1>5. QED
    BY <1>1, <1>3, <1>4 DEF IInv

(* A call that is over.                                                      *)
LEMMA OverIs ==
    /\ Over \in CallStates /\ Fits(Over) /\ Over.pc = "over" /\ ~Over.inside /\ ~Over.pass /\ ~Over.err
    /\ \A f \in Frames : ~On(Over, f)
<1>1. NoCall \in CallStates
    BY FramesAre DEF NoCall, CallStates, Labels
<1>2. Over \in CallStates
    BY <1>1 DEF Over, CallStates, Labels
<1>3. /\ Over.stack = <<>> /\ Over.pc = "over"
      /\ Over.inside = FALSE /\ Over.pass = FALSE /\ Over.err = FALSE
    BY DEF Over, NoCall
<1>4. Bottom \in Beneath["over"]
    BY DEF Beneath, Labels
<1>5. QED
    BY <1>2, <1>3, <1>4 DEF Fits, Chained, Top, On

(* An error: who handles it knows no more than before.                        *)
LEMMA RaisedIsGood ==
    ASSUME NEW c \in Callers, NEW k \in CallStates, Fits(k), InsideOf(k), Knows(c, k)',
           NEW r, Handled(k, r), On(k, "sequence") \/ On(k, "final") => Owned(r),
           k.pc \notin {"rev.marker", "seq.final", "over", "dead"},
           k.pc \in Revoking /\ k.inside => (\A p \in Producers : Alive(p) => p \in term)'
    PROVE  Good(c, k, r) /\ r.pc # "start.pid"
<1>1. CASE r = Over
    BY <1>1, OverIs DEF Good, InsideOf, Knows, ProducerOf, MarkerOf, RuntimeOf, Owned,
           InsideLabels,
                        InsideFrames, Frames, Revoking
<1>2. CASE Lands(k, r) /\ r.pc = "stop.again" /\ r.err /\ r.pass = k.pass /\ r.inside = k.inside
               /\ k.pc \in Revoking /\ On(k, "stop")
    <2>1. InsideOf(r)
        BY <1>2 DEF InsideOf, Lands, InsideLabels, OutsideLabels, InsideFrames, Frames, Revoking
    <2>2. ProducerOf(c, r)'
        BY <1>2 DEF Knows, ProducerOf, Lands, Frames
    <2>3. MarkerOf(c, r)'
        BY <1>2 DEF Knows, MarkerOf, Lands, Frames, Revoking, Owned
    <2>4. RuntimeOf(r)'
        BY <1>2 DEF Knows, RuntimeOf, Lands, Frames
    <2>5. QED
        BY <1>2, <2>1, <2>2, <2>3, <2>4 DEF Good, Knows, Lands
<1>3. CASE Lands(k, r) /\ r.pc = "off.kill" /\ ~r.pass /\ r.inside = k.inside /\ On(k, "off")
    <2>1. InsideOf(r)
        BY <1>3 DEF InsideOf, Lands, InsideLabels, OutsideLabels, InsideFrames, Frames, Revoking
    <2>2. ProducerOf(c, r)'
        BY <1>3 DEF Knows, ProducerOf, Lands, Frames
    <2>3. MarkerOf(c, r)'
        BY <1>3 DEF Knows, MarkerOf, Lands, Frames, Owned
    <2>4. RuntimeOf(r)'
        BY <1>3 DEF Knows, RuntimeOf, Lands, Frames
    <2>5. QED
        BY <1>3, <2>1, <2>2, <2>3, <2>4 DEF Good, Knows, Lands
<1>4. CASE Lands(k, r) /\ r.pc = "seq.zero" /\ r.err /\ ~r.pass /\ r.inside = k.inside /\ On(k, "clean")
    <2>1. InsideOf(r)
        BY <1>4 DEF InsideOf, Lands, InsideLabels, OutsideLabels, InsideFrames, Frames, Revoking
    <2>2. ProducerOf(c, r)'
        BY <1>4 DEF Knows, ProducerOf, Lands, Frames
    <2>3. MarkerOf(c, r)'
        BY <1>4 DEF Knows, MarkerOf, Lands, Frames, Owned
    <2>4. RuntimeOf(r)'
        BY <1>4 DEF Knows, RuntimeOf, Lands, Frames
    <2>5. QED
        BY <1>4, <2>1, <2>2, <2>3, <2>4 DEF Good, Knows, Lands
<1>5. CASE Lands(k, r) /\ r.pc \in {"seq.clean", "seq.final"} /\ ~r.pass /\ ~r.inside
               /\ (\A f \in InsideFrames : ~On(r, f))
    <2>1. InsideOf(r)
        BY <1>5 DEF InsideOf, InsideLabels
    <2>2. ProducerOf(c, r)'
        BY <1>5 DEF Knows, ProducerOf, InsideFrames
    <2>3. MarkerOf(c, r)'
        BY <1>5 DEF Knows, MarkerOf, InsideFrames, Owned
    <2>4. RuntimeOf(r)'
        BY <1>5 DEF Knows, RuntimeOf, InsideFrames
    <2>5. QED
        BY <1>5, <2>1, <2>2, <2>3, <2>4 DEF Good, Knows, Lands
<1>6. QED
    BY <1>1, <1>2, <1>3, <1>4, <1>5 DEF Handled

(* A return: what the method that called this one may build on.                *)
Returning ==
    {"stop.lock", "stop.idle", "rev.term", "off.find", "off.gone", "start.ready", "move.allow",
     "seq.watch"}

(* A return from a method that has done its work.                            *)
LEMMA ReturnedIsGood ==
    ASSUME NEW c \in Callers, NEW k \in CallStates, Fits(k), InsideOf(k), Knows(c, k)',
           k.pc \in Returning,
           k.pc = "rev.term" => NoProducer',
           k.pc \in {"stop.lock", "stop.idle"} =>
              k.pass /\ (k.pc = "stop.lock" => ~k.err) /\ marker' = Nobody /\ NoProducer'
    PROVE  Good(c, k, Return(k)) /\ Return(k).pc # "start.pid"
<1>1. PICK r : r = Return(k)
    OBVIOUS
<1>2. On(k, "sequence") \/ On(k, "final") => Owned(r)
    BY <1>1, ReturnResumes
<1>3. CASE r = Over
    BY <1>1, <1>3, OverIs DEF Good, InsideOf, Knows, ProducerOf, MarkerOf, RuntimeOf, Owned,
           InsideLabels,
                        InsideFrames, Frames, Revoking
<1>4. CASE k.stack # <<>> /\ k.stack[1] \in {"unready", "undo"} /\ Handled(k, r)
    <2>1. k.stack[1] \in Beneath[k.pc]
        BY <1>4 DEF Fits, Top
    <2>2. k.pc \notin Revoking
        BY <2>1, <1>4 DEF Beneath, Revoking, Labels
    <2>3. QED
        BY <1>1, <1>2, <1>4, <2>2, RaisedIsGood DEF Returning, Revoking
<1>5. CASE Resumed(k, r)
    <2>1. k.stack[1] \in Beneath[k.pc] /\ k.stack[1] \in Frames
        BY <1>5, CallFields DEF Fits, Top, Resumed
    <2>2. On(k, k.stack[1])
        BY <1>5, CallFields DEF On, Resumed
    <2>3. \/ k.pc \in {"stop.lock", "stop.idle"} /\ On(k, "motion") /\ r.pc = "move.prepare"
          \/ k.pc \in {"stop.lock", "stop.idle"} /\ On(k, "test") /\ r.pc = "seq.mark"
          \/ k.pc \in {"stop.lock", "stop.idle"} /\ On(k, "off") /\ r.pc = "off.find"
          \/ k.pc = "rev.term" /\ On(k, "stop") /\ r.pc = "stop.again"
          \/ k.pc = "rev.term" /\ On(k, "none") /\ r.pc = "start.spawn"
          \/ k.pc = "rev.term" /\ On(k, "clean") /\ r.pc = "seq.zero"
          \/ k.pc \in {"off.find", "off.gone"} /\ On(k, "old") /\ r.pc = "start.check"
          \/ k.pc = "start.ready" /\ On(k, "start") /\ r.pc = "preempt"
          \/ k.pc = "start.ready" /\ On(k, "slot") /\ r.pc = "move.prepare"
          \/ k.pc = "start.ready" /\ On(k, "rearm") /\ r.pc = "seq.mark"
          \/ k.pc = "seq.watch" /\ On(k, "phase") /\ r.pc = "seq.clean"
        BY <1>5, <2>1, <2>2 DEF Beneath, Returning, Labels, Resumed, StopUsers, OffUsers,
               Starters, Frames,
                                Bottom, OnReturn
    <2>4. /\ r.inside = k.inside /\ r.err = k.err /\ r.pid = k.pid
          /\ r.pass => k.pass /\ r.pc = "stop.again"
          /\ \A f \in Frames : On(r, f) => On(k, f)
        BY <1>5 DEF Resumed, Lands
    <2>5. InsideOf(r)
        BY <2>3, <2>4 DEF InsideOf, InsideLabels, OutsideLabels, InsideFrames, Frames, Revoking
    <2>6. ProducerOf(c, r)'
        BY <2>3, <2>4 DEF Knows, ProducerOf, NoProducer, Frames
    <2>7. MarkerOf(c, r)'
        <3>1. marker' = c => Owned(r)
            BY <1>2, <2>3 DEF Knows, MarkerOf, Owned
        <3>2. c \in revoked' => Owned(r) /\ marker' # c
            BY <1>2, <2>3 DEF Knows, MarkerOf, Owned
        <3>3. r.pc \in {"move.prepare", "seq.mark"} => marker' = Nobody
            BY <2>3 DEF Knows, MarkerOf
        <3>4. r.pass => marker' = Nobody
            BY <2>3, <2>4 DEF Knows, MarkerOf
        <3>5. QED
            BY <2>3, <2>4, <3>1, <3>2, <3>3, <3>4 DEF Knows, MarkerOf, Frames
    <2>8. RuntimeOf(r)'
        BY <2>3, <2>4 DEF Knows, RuntimeOf, Frames
    <2>9. QED
        BY <1>1, <1>5, <2>3, <2>4, <2>5, <2>6, <2>7, <2>8 DEF Good, Knows, Resumed, Lands
<1>6. QED
    BY <1>1, <1>3, <1>4, <1>5, ReturnResumes

-----------------------------------------------------------------------------
(* The types of all that is not a call.                                      *)
HostOK ==
    /\ marker \in Callers \cup {Nobody}
    /\ mail \in Producers \cup {"STOP", "ABSENT"}
    /\ producer \in [Producers -> {"NONE", "STARTING", "ADMITTED", "SUPERSEDED", "GONE"}]
    /\ spawner \in [Producers -> Callers \cup {Nobody}]
    /\ term \subseteq Producers \cup Runtimes
    /\ runtime \in [Runtimes -> {"NONE", "SPAWNED", "BOOTING", "READY", "GONE"}]
    /\ pidFile \in Runtimes \cup {Nobody}
    /\ status \in {"NONE", "IDLE", "BUSY", "CLOSED"}
    /\ abandoned \subseteq Runtimes
    /\ revoked \subseteq Callers

(* Types, in two halves.                                                     *)
LEMMA HostIs == TypeOK <=> call \in [Callers -> CallStates] /\ HostOK
BY DEF TypeOK, HostOK

(* CallKeeps, with the type of the call from what it becomes.                *)
LEMMA StepKeeps ==
    ASSUME IInv, HostOK', Harmless, NEW c \in Callers, NEW k, k = call[c], NEW r,
           Become(c, r), Good(c, k, r),
           k.pc = "start.pid" =>
              \/ r.pc = "start.pid" /\ r.awaits = k.awaits
              \/ abandoned' # {}
              \/ runtime'[k.awaits] # "SPAWNED"
    PROVE  IInv'
<1>1. call' \in [Callers -> CallStates]
    BY DEF IInv, TypeOK, Become, Good
<1>2. TypeOK'
    BY <1>1 DEF TypeOK, HostOK
<1>3. QED
    BY <1>2, CallKeeps

(* A step within a method.                                                   *)
LEMMA SameStack ==
    ASSUME NEW k \in CallStates, Fits(k), NEW r \in CallStates, r.stack = k.stack,
           Top(k.stack) \in Beneath[r.pc]
    PROVE  Fits(r) /\ \A f \in Frames : On(r, f) <=> On(k, f)
BY DEF Fits, On

(* Places where a call need not know anything.                               *)
Plain ==
    {"over", "dead", "stop.first", "rev.marker", "rev.term", "off.first", "off.lock", "off.kill",
     "off.find", "off.gone", "ensure", "preempt", "start.old", "start.ready", "move.lock", "seq.lock",
     "seq.watch", "seq.clean", "seq.final"}

(* A step to such a place.                                                   *)
LEMMA PlainIsGood ==
    ASSUME NEW c \in Callers, NEW k \in CallStates, InsideOf(k), Knows(c, k)',
           NEW r \in CallStates, Fits(r), InsideOf(r), r.pc \in Plain,
           \A f \in {"none", "old", "slot", "rearm", "clean", "final"} : On(r, f) => On(k, f),
           r.pid = k.pid \/ ~On(r, "old"),
           Owned(k) => Owned(r),
           r.inside => k.inside \/ MayEnter(c),
           r.pass /\ r.pc = "rev.term" => marker' = Nobody
    PROVE  Good(c, k, r) /\ r.pc # "start.pid"
<1>1. ProducerOf(c, r)'
    BY DEF Knows, ProducerOf, Plain
<1>2. MarkerOf(c, r)'
    BY DEF Knows, MarkerOf, Plain
<1>3. RuntimeOf(r)'
    BY DEF Knows, RuntimeOf, Plain
<1>4. QED
    BY <1>1, <1>2, <1>3 DEF Good, Knows, Plain

(* What the controllers do to the rest.                                      *)
LEMMA NothingIsHarmless ==
    ASSUME IInv, UNCHANGED <<marker, motion, term, session, status, revoked>>
    PROVE  Harmless /\ HostOK'
BY DEF IInv, TypeOK, Harmless, HostOK, motion, session, Alive, NoProducer

(* A commit of the mailbox, by a producer or a stop.                         *)
LEMMA CommitIs ==
    ASSUME IInv, NEW by \in Producers \cup {Nobody}, NEW what, Commit(by, what)
    PROVE  /\ mail' = what /\ spawner' = spawner
           /\ \A p \in Producers : Alive(p)' <=> Alive(p)
           /\ \A p \in Producers : producer[p] # "NONE" => producer'[p] # "NONE"
           /\ producer' \in [Producers -> {"NONE", "STARTING", "ADMITTED", "SUPERSEDED", "GONE"}]
BY DEF IInv, TypeOK, Commit, Superseded, Alive

(* An unconditional STOP, also one that fails.                               *)
LEMMA PublicationIsHarmless ==
    ASSUME IInv, PublishStop \/ PublicationFails,
           UNCHANGED <<marker, session, status, revoked>>, term' = term
    PROVE  Harmless /\ HostOK' /\ (PublishStop => mail' = "STOP")
<1>1. CASE PublicationFails
    BY <1>1, NothingIsHarmless DEF PublicationFails, motion, PublishStop, Commit
<1>2. CASE PublishStop
    BY <1>2, CommitIs DEF IInv, TypeOK, HostOK, Harmless, NoProducer, PublishStop, session
<1>3. QED
    BY <1>1, <1>2

(* The pid a controller finds is a runtime's.                                *)
LEMMA RuntimePidIs ==
    ASSUME IInv
    PROVE  RuntimePid \subseteq Runtimes
BY OperatorAssumption DEF IInv, TypeOK, RuntimePid, Recorded

(* A runtime is sent SIGTERM.                                                *)
LEMMA KillIsHarmless ==
    ASSUME IInv, RuntimeKill, UNCHANGED <<marker, motion, session, status, revoked>>
    PROVE  Harmless /\ HostOK'
<1>1. term \subseteq term' /\ term' \subseteq Producers \cup Runtimes
    BY RuntimePidIs DEF RuntimeKill, IInv, TypeOK
<1>2. QED
    BY <1>1 DEF IInv, TypeOK, HostOK, Harmless, NoProducer, motion, session, Alive

(* PushFits, for a call with a name.                                         *)
LEMMA PushIs ==
    ASSUME NEW k \in CallStates, Fits(k), NEW l \in Labels, NEW f \in Frames,
           Top(k.stack) \in Under[f], f \in Beneath[l], NEW r, r = Push(k, l, f)
    PROVE  /\ r \in CallStates /\ Fits(r) /\ r.stack[1] = f
           /\ r.pc = l /\ r.inside = k.inside /\ r.err = k.err /\ r.pass = k.pass
           /\ r.budget = k.budget /\ r.awaits = k.awaits /\ r.pid = k.pid
           /\ \A g \in Frames : On(r, g) <=> g = f \/ On(k, g)
BY PushFits

(* Changes of the mark, of what was sent SIGTERM and of the pid file.        *)
LEMMA OtherIsHarmless ==
    ASSUME IInv, UNCHANGED <<motion, runtime, status, revoked>>, marker' \in {marker, Nobody},
           term \subseteq term', term' \subseteq Producers \cup Runtimes,
           abandoned \subseteq abandoned', abandoned' \subseteq Runtimes,
           pidFile' \in Runtimes \cup {Nobody}
    PROVE  Harmless /\ HostOK'
BY DEF IInv, TypeOK, Harmless, HostOK, motion, Alive, NoProducer

(* The end of a call.                                                        *)
LEMMA OverIsGood ==
    ASSUME NEW c \in Callers, NEW k \in CallStates, Knows(c, k)', NEW r,
           r \in {Over, Goto(Over, "dead")}
    PROVE  Good(c, k, r) /\ r.pc # "start.pid"
<1>1. /\ r \in CallStates /\ Fits(r) /\ r.pc \in {"over", "dead"} /\ ~r.inside /\ ~r.pass
      /\ \A f \in Frames : ~On(r, f)
    <2>1. CASE r = Over
        BY <2>1, OverIs
    <2>2. CASE r = Goto(Over, "dead")
        <3>1. r \in CallStates /\ r.pc = "dead" /\ r.stack = Over.stack /\ ~r.inside /\ ~r.pass
            BY <2>2, OverIs DEF Goto, CallStates, Labels
        <3>2. Over.stack = <<>>
            BY DEF Over, NoCall
        <3>3. Fits(r) /\ \A f \in Frames : On(r, f) <=> On(Over, f)
            BY <3>1, <3>2, OverIs, SameStack DEF Top, Beneath, Labels
        <3>4. QED
            BY <3>1, <3>3, OverIs
    <2>3. QED
        BY <2>1, <2>2
<1>2. InsideOf(r)
    BY <1>1 DEF InsideOf, InsideLabels, InsideFrames, Frames
<1>3. Knows(c, r)'
    BY <1>1 DEF Knows, ProducerOf, MarkerOf, RuntimeOf, Frames, Owned
<1>4. QED
    BY <1>1, <1>2, <1>3 DEF Good

(* A call that drops the runtime it held.                                    *)
LEMMA PidIsFree ==
    ASSUME NEW c \in Callers, NEW k \in CallStates, NEW q, Good(c, k, q), ~On(q, "old"),
           q.pc # "start.check", NEW r, r = [q EXCEPT !.pid = Nobody]
    PROVE  Good(c, k, r) /\ r.pc = q.pc
<1>1. /\ r \in CallStates /\ r.pc = q.pc /\ r.stack = q.stack /\ r.inside = q.inside /\ r.err = q.err
      /\ r.pass = q.pass /\ r.awaits = q.awaits
    BY DEF Good, CallStates
<1>2. Fits(r) /\ InsideOf(r) /\ \A f : On(r, f) <=> On(q, f)
    BY <1>1 DEF Good, Fits, InsideOf, On
<1>3. Owned(r) <=> Owned(q)
    BY <1>1, <1>2 DEF Owned
<1>4. ProducerOf(c, r)'
    BY <1>1, <1>2 DEF Good, Knows, ProducerOf
<1>5. MarkerOf(c, r)'
    BY <1>1, <1>2, <1>3 DEF Good, Knows, MarkerOf
<1>6. RuntimeOf(r)'
    BY <1>1, <1>2 DEF Good, Knows, RuntimeOf
<1>7. QED
    BY <1>1, <1>2, <1>4, <1>5, <1>6 DEF Good, Knows

(* Nobody but the one that waits for its pid file has a supervisor without runtime. *)
LEMMA NobodyBoots ==
    ASSUME IInv, NEW c \in Callers, call[c].inside, call[c].pc # "start.pid", abandoned = {}
    PROVE  /\ \A r \in Runtimes : runtime[r] # "SPAWNED"
           /\ RuntimePid = {} => Processes = {}
           /\ \A p \in RuntimePid : p \in Runtimes /\ \A r \in Processes : r = p
<1>1. \A r \in Runtimes : runtime[r] # "SPAWNED"
    <2> SUFFICES ASSUME NEW r \in Runtimes, runtime[r] = "SPAWNED"
                 PROVE  FALSE
        OBVIOUS
    <2>1. PICK d \in Callers : call[d].pc = "start.pid" /\ call[d].awaits = r
        BY DEF IInv, OneProcess
    <2>2. call[d].inside
        BY <2>1 DEF IInv, CallInv, InsideOf, InsideLabels
    <2>3. QED
        BY <2>1, <2>2 DEF IInv, OneInside
<1>2. \A r \in Processes : r \in Runtimes /\ Visible(r)
    BY <1>1 DEF IInv, TypeOK, Processes, Visible
<1>3. RuntimePid = {} => Processes = {}
    BY <1>2 DEF RuntimePid
<1>4. \A p \in RuntimePid : p \in Processes
    BY RuntimePidIs DEF RuntimePid, Recorded, Processes, Visible
<1>5. QED
    BY <1>1, <1>3, <1>4, RuntimePidIs DEF IInv, OneProcess

(* What stands directly on a sequence, or on a phase, has no method inside below.      *)
LEMMA OnlySequence ==
    ASSUME NEW k \in CallStates, Fits(k), Beneath[k.pc] = {"sequence"}
    PROVE  \A f \in Frames : On(k, f) <=> f = "sequence"
<1>1. k.stack \in Seq(Frames) /\ Chained(k.stack) /\ Top(k.stack) = "sequence"
    BY CallFields DEF Fits
<1>2. \A j \in 1 .. Len(k.stack) : k.stack[j] = "sequence"
    BY <1>1, SequenceBelow
<1>3. 1 \in 1 .. Len(k.stack)
    BY <1>1 DEF Top, Bottom
<1>4. QED
    BY <1>1, <1>2, <1>3 DEF On

(* The same of a phase.                                                      *)
LEMMA OnlyPhase ==
    ASSUME NEW k \in CallStates, Fits(k), Beneath[k.pc] = {"phase"}
    PROVE  \A f \in Frames : On(k, f) => f \in {"phase", "sequence"}
<1>1. k.stack \in Seq(Frames) /\ Chained(k.stack) /\ Top(k.stack) = "phase"
    BY CallFields DEF Fits
<1>2. 1 \in 1 .. Len(k.stack) /\ k.stack[1] = "phase"
    BY <1>1 DEF Top, Bottom
<1>3. 1 # Len(k.stack) /\ k.stack[1 + 1] = "sequence"
    <2>1. IF 1 = Len(k.stack) THEN Bottom \in Under[k.stack[1]] ELSE k.stack[1 + 1] \in Under[k.stack[1]]
        BY <1>1, <1>2 DEF Chained
    <2>2. Under["phase"] = {"sequence"} /\ Bottom # "sequence"
        BY DEF Under, Bottom
    <2>3. QED
        BY <1>2, <2>1, <2>2
<1>4. On(k, "sequence")
    <2>1. \A n \in Nat : 1 \in 1 .. n /\ 1 # n => 1 + 1 \in 1 .. n
        OBVIOUS
    <2>2. Len(k.stack) \in Nat
        BY <1>1
    <2>3. 1 + 1 \in 1 .. Len(k.stack)
        BY <1>2, <1>3, <2>1, <2>2
    <2>4. QED
        BY <1>1, <1>3, <2>3 DEF On
<1>5. \A j \in 1 .. Len(k.stack) : k.stack[j] \in {"clean", "phase", "sequence"}
    BY <1>4, OnSequence
<1>6. \A j \in 1 .. Len(k.stack) : k.stack[j] # "clean"
    <2> SUFFICES ASSUME NEW j \in 1 .. Len(k.stack), k.stack[j] = "clean" PROVE FALSE
        OBVIOUS
    <2>1. j = 1
        BY Innermost
    <2>2. QED
        BY <1>2, <2>1
<1>7. QED
    BY <1>1, <1>5, <1>6 DEF On

(* A call that is not inside knows little.                                     *)
OutsideKnows(d, j) ==
    /\ j.pc = "rev.gone" =>
          /\ j.awaits \in Producers /\ producer[j.awaits] # "NONE"
          /\ Alive(j.awaits) => j.awaits \in term
    /\ j.pc = "seq.phase" /\ marker = d => NoProducer
    /\ marker = d => Owned(j)
    /\ d \in revoked => Owned(j) /\ marker # d

(* It knows no more than that.                                               *)
LEMMA OutsideIs ==
    ASSUME NEW d \in Callers, NEW j \in CallStates, InsideOf(j), ~j.inside
    PROVE  /\ Knows(d, j) <=> OutsideKnows(d, j)
           /\ Knows(d, j)' <=> OutsideKnows(d, j)'
<1>1. /\ j.pc \notin InsideLabels /\ ~j.pass /\ j.pc # "stop.idle"
      /\ \A f \in InsideFrames : ~On(j, f)
    BY DEF InsideOf
<1>2. Knows(d, j) <=> OutsideKnows(d, j)
    BY <1>1 DEF Knows, ProducerOf, MarkerOf, RuntimeOf, OutsideKnows, InsideLabels, InsideFrames
<1>3. Knows(d, j)' <=> OutsideKnows(d, j)'
    BY <1>1 DEF Knows, ProducerOf, MarkerOf, RuntimeOf, OutsideKnows, InsideLabels, InsideFrames
<1>4. QED
    BY <1>2, <1>3

(* A step inside that changes what others may know.                             *)
LEMMA InsiderKeeps ==
    ASSUME IInv, HostOK', NEW c \in Callers, call[c].inside, NEW k, k = call[c], NEW r,
           Become(c, r), Good(c, k, r),
           \A d \in Callers \ {c}, j \in CallStates : j = call[d] /\ OutsideKnows(d, j) => OutsideKnows(d, j)',
           OneProducer', MarkedProducers', OneProcess'
    PROVE  IInv'
<1>1. call'[c] = r /\ (\A d \in Callers \ {c} : call'[d] = call[d]) /\ call' \in [Callers -> CallStates]
    BY DEF IInv, TypeOK, Become, Good
<1>2. TypeOK'
    BY <1>1 DEF TypeOK, HostOK
<1>3. OneInside'
    BY <1>1 DEF IInv, OneInside, Good, MayEnter
<1>4. ASSUME NEW d \in Callers
      PROVE  Fits(call'[d]) /\ InsideOf(call'[d]) /\ Knows(d, call[d])'
    <2>1. CASE d = c
        BY <2>1, <1>1 DEF Good
    <2>2. CASE d # c
        <3>1. PICK j \in CallStates : j = call[d]
            BY DEF IInv, TypeOK
        <3>2. Fits(j) /\ InsideOf(j) /\ Knows(d, j) /\ ~j.inside
            BY <3>1, <2>2 DEF IInv, CallInv, Knows, OneInside
        <3>3. OutsideKnows(d, j) /\ (OutsideKnows(d, j)' => Knows(d, j)')
            BY <3>2, OutsideIs
        <3>4. Knows(d, j)'
            BY <3>1, <3>3, <2>2
        <3>5. QED
            BY <3>1, <3>2, <3>4, <2>2, <1>1
    <2>3. QED
        BY <2>1, <2>2
<1>5. CallInv'
    BY <1>4 DEF CallInv, Knows
<1>6. QED
    BY <1>2, <1>3, <1>5 DEF IInv

-----------------------------------------------------------------------------
(* The last STOP of a sequence, under the transition, if it still owns the mark. *)
LEMMA SeqFinalHolds ==
    ASSUME IInv, NEW c \in Callers, SeqFinal(c)
    PROVE  IInv'
<1>1. PICK k \in CallStates : k = call[c]
    BY DEF IInv, TypeOK
<1>2. Fits(k) /\ InsideOf(k) /\ Knows(c, k) /\ k.pc \in {"seq.phase", "seq.final"}
    BY <1>1 DEF IInv, CallInv, Knows, SeqFinal
<1>3. Harmless /\ HostOK'
    BY NothingIsHarmless DEF SeqFinal
<1>4. Knows(c, k)'
    BY <1>2, <1>3, KnowledgeKeeps
<1>5. marker' = marker /\ (marker = c => \A p \in Producers : Alive(p)' => spawner'[p] = c)
    BY OperatorAssumption DEF IInv, MarkedProducers, SeqFinal, motion, Alive
<1>6. PICK r :
        /\ Become(c, r)
        /\ \/ r = Inside(CallStop([k EXCEPT !.stack = <<>>], "final")) /\ marker = c /\ MayEnter(c)
           \/ r = Over
    BY <1>1 DEF SeqFinal, Owns
<1>7. Good(c, k, r)
    <2>1. CASE r = Inside(CallStop([k EXCEPT !.stack = <<>>], "final")) /\ marker = c /\ MayEnter(c)
        <3>1. PICK t : t = <<"final">> /\ t \in Seq(Frames) /\ Len(t) = 1 /\ t[1] = "final" /\ t = <<"final">> \o <<>>
            <4>1. <<"final">> \in Seq(Frames) /\ Len(<<"final">>) = 1 /\ <<"final">>[1] = "final"
                BY DEF Frames
            <4>2. <<"final">> \o <<>> = <<"final">>
                BY <4>1, ConcatEmptySeq
            <4>3. QED
                BY <4>1, <4>2
        <3>2. r = [k EXCEPT !.stack = t, !.pc = "stop.first", !.err = FALSE, !.pass = FALSE, !.inside = TRUE]
            BY <2>1, <3>1 DEF Inside, CallStop, Stopping, Push, CallStates
        <3>3. /\ r \in CallStates /\ r.pc = "stop.first" /\ r.stack = t
              /\ r.inside = TRUE /\ r.err = FALSE /\ r.pass = FALSE
            BY <3>1, <3>2, FramesAre DEF CallStates, Labels
        <3>4. \A f \in Frames : On(r, f) <=> f = "final"
            BY <3>1, <3>3 DEF On
        <3>5. Fits(r)
            BY <3>1, <3>3 DEF Fits, Chained, Top, Under, Beneath, Labels, StopUsers, Bottom
        <3>6. InsideOf(r)
            BY <3>3, <3>4 DEF InsideOf, InsideLabels, OutsideLabels, InsideFrames, Frames,
                   Revoking
        <3>7. ProducerOf(c, r)'
            BY <3>3, <3>4 DEF ProducerOf, Frames
        <3>8. MarkerOf(c, r)'
            BY <2>1, <1>4, <1>5, <3>3, <3>4 DEF Knows, MarkerOf, Owned, Frames
        <3>9. RuntimeOf(r)'
            BY <3>3, <3>4 DEF RuntimeOf, Frames
        <3>10. QED
            BY <2>1, <3>3, <3>5, <3>6, <3>7, <3>8, <3>9 DEF Good, Knows
    <2>2. CASE r = Over
        BY <1>2, <1>4, <2>2, OverIsGood
    <2>3. QED
        BY <1>6, <2>1, <2>2
<1>8. QED
    BY <1>1, <1>2, <1>3, <1>6, <1>7, StepKeeps

(* A call of one of the controller's methods.                                *)
LEMMA BeginHolds ==
    ASSUME IInv, NEW c \in Callers, Begin(c)
    PROVE  IInv'
<1>1. PICK k \in CallStates : k = call[c]
    BY DEF IInv, TypeOK
<1>2. Fits(k) /\ InsideOf(k) /\ Knows(c, k) /\ k.pc = "idle"
    BY <1>1 DEF IInv, CallInv, Knows, Begin, At
<1>3. Harmless /\ HostOK'
    BY NothingIsHarmless DEF Begin
<1>4. Knows(c, k)'
    BY <1>2, <1>3, KnowledgeKeeps
<1>5. PICK r : Become(c, r) /\ \E j \in Jobs :
                 r = [NoCall EXCEPT !.pc = Entry[j], !.budget = IF j = "move" THEN "open" ELSE "none"]
    BY DEF Begin
<1>6. /\ r \in CallStates /\ r.pc \in {"stop.first", "off.first", "move.lock", "seq.lock"}
      /\ r.stack = <<>> /\ r.inside = FALSE /\ r.pass = FALSE
    <2>1. \A j \in Jobs : Entry[j] \in {"stop.first", "off.first", "move.lock", "seq.lock"}
        BY OperatorAssumption DEF Entry
    <2>2. PICK e \in {"stop.first", "off.first", "move.lock", "seq.lock"}, b \in {"open", "none"} :
             r = [NoCall EXCEPT !.pc = e, !.budget = b]
        BY <1>5, <2>1
    <2>3. <<>> \in Seq(Frames)
        OBVIOUS
    <2>4. QED
        BY <2>2, <2>3, FramesAre DEF NoCall, CallStates, Labels
<1>7. Fits(r) /\ \A f \in Frames : ~On(r, f)
    BY <1>6 DEF Fits, Chained, Top, On, Beneath, Labels, StopUsers, OffUsers
<1>8. InsideOf(r)
    BY <1>6, <1>7 DEF InsideOf, InsideLabels, InsideFrames, Frames
<1>9. ~Owned(k)
    BY <1>2, OnNothing DEF Beneath, Labels, Owned
<1>10. Good(c, k, r)
    BY <1>2, <1>4, <1>6, <1>7, <1>8, <1>9, PlainIsGood DEF Plain, Frames
<1>11. QED
    BY <1>1, <1>2, <1>3, <1>5, <1>10, StepKeeps

(* The watch of a transition's budget runs out.                              *)
LEMMA CancelHolds ==
    ASSUME IInv, NEW c \in Callers, Cancel(c)
    PROVE  IInv'
<1>1. PICK k \in CallStates : k = call[c]
    BY DEF IInv, TypeOK
<1>2. Fits(k) /\ InsideOf(k) /\ Knows(c, k)
    BY <1>1 DEF IInv, CallInv, Knows
<1>3. Harmless /\ HostOK'
    BY NothingIsHarmless DEF Cancel
<1>4. Knows(c, k)'
    BY <1>2, <1>3, KnowledgeKeeps
<1>5. PICK r : Become(c, r) /\ r = [k EXCEPT !.budget = "spent"]
    BY <1>1 DEF Cancel
<1>6. /\ r \in CallStates /\ r.pc = k.pc /\ r.stack = k.stack /\ r.inside = k.inside /\ r.err = k.err
      /\ r.pass = k.pass /\ r.awaits = k.awaits /\ r.pid = k.pid
    BY <1>5 DEF CallStates
<1>7. Fits(r) /\ InsideOf(r) /\ \A f : On(r, f) <=> On(k, f)
    BY <1>2, <1>6 DEF Fits, InsideOf, On
<1>8. ProducerOf(c, r)'
    BY <1>4, <1>6, <1>7 DEF Knows, ProducerOf
<1>9. MarkerOf(c, r)'
    <2>1. Owned(r) <=> Owned(k)
        BY <1>6, <1>7 DEF Owned
    <2>2. QED
        BY <1>4, <1>6, <1>7, <2>1 DEF Knows, MarkerOf
<1>10. RuntimeOf(r)'
    BY <1>4, <1>6, <1>7 DEF Knows, RuntimeOf
<1>11. Good(c, k, r)
    BY <1>6, <1>7, <1>8, <1>9, <1>10 DEF Good, Knows
<1>12. QED
    BY <1>1, <1>3, <1>5, <1>6, <1>11, StepKeeps

(* A caller is killed anywhere; the lock of the transition goes with it.     *)
LEMMA CrashHolds ==
    ASSUME IInv, NEW c \in Callers, Crash(c)
    PROVE  IInv'
<1>1. PICK k \in CallStates : k = call[c]
    BY DEF IInv, TypeOK
<1>2. Fits(k) /\ InsideOf(k) /\ Knows(c, k)
    BY <1>1 DEF IInv, CallInv, Knows
<1>3. abandoned' = abandoned \cup Unborn({k.awaits}) /\ Unborn({k.awaits}) \subseteq Runtimes
    BY <1>1 DEF Crash, Unborn
<1>4. Harmless /\ HostOK'
    BY <1>3, OtherIsHarmless DEF IInv, TypeOK, Crash
<1>5. Knows(c, k)'
    BY <1>2, <1>4, KnowledgeKeeps
<1>6. PICK r : Become(c, r) /\ r = Goto(Over, "dead")
    BY DEF Crash
<1>7. Good(c, k, r)
    BY <1>5, <1>6, OverIsGood
<1>8. k.pc = "start.pid" => abandoned' # {} \/ runtime'[k.awaits] # "SPAWNED"
    BY <1>2, <1>3 DEF Crash, Unborn, Knows, RuntimeOf
<1>9. QED
    BY <1>1, <1>4, <1>6, <1>7, <1>8, StepKeeps

(* stop() has succeeded: no producer lives, and sequences that ran are revoked. *)
LEMMA StopSucceedsHolds ==
    ASSUME IInv, NEW c \in Callers, StopSucceeds(c)
    PROVE  IInv'
<1>1. PICK k \in CallStates : k = call[c]
    BY DEF IInv, TypeOK
<1>2. Fits(k) /\ InsideOf(k) /\ Knows(c, k) /\ k.pc = "stop.lock" /\ k.pass /\ ~k.err
    BY <1>1 DEF IInv, CallInv, Knows, StopSucceeds, At
<1>3. /\ UNCHANGED <<marker, motion, term, session, status>>
      /\ revoked' = revoked \cup {d \in Callers \ {c} : InSequence(call[d])}
    BY DEF StopSucceeds
<1>4. HostOK' /\ UNCHANGED <<marker, mail, producer, spawner, term, runtime, pidFile, abandoned>>
    BY <1>3 DEF IInv, TypeOK, HostOK, motion, session
<1>5. marker = Nobody /\ NoProducer /\ mail = "STOP" /\ k.inside
    BY <1>2 DEF InsideOf, Knows, ProducerOf, MarkerOf, Revoking
<1>6. (\A p \in Producers : Alive(p)' <=> Alive(p)) /\ (NoProducer' <=> NoProducer) /\ Processes' = Processes
    BY <1>4 DEF Alive, NoProducer, Processes
<1>7. Knows(c, k)'
    <2>1. ProducerOf(c, k)'
        BY <1>2, <1>5, <1>6, <1>4 DEF ProducerOf, Knows
    <2>2. MarkerOf(c, k)'
        BY <1>2, <1>3, <1>4, <1>6 DEF MarkerOf, Knows
    <2>3. RuntimeOf(k)'
        BY <1>2, <1>4, <1>6 DEF RuntimeOf, Knows
    <2>4. QED
        BY <2>1, <2>2, <2>3 DEF Knows
<1>8. PICK r :
        /\ Become(c, r)
        /\ \/ (\E p \in RuntimePid : r = [k EXCEPT !.pc = "stop.idle", !.awaits = p])
           \/ r = Return(k)
    BY <1>1 DEF StopSucceeds
<1>9. Good(c, k, r)
    <2>1. CASE \E p \in RuntimePid : r = [k EXCEPT !.pc = "stop.idle", !.awaits = p]
        <3>1. /\ r \in CallStates /\ r.pc = "stop.idle" /\ r.stack = k.stack
              /\ r.inside = k.inside /\ r.err = k.err /\ r.pass = k.pass
              /\ r.pid = k.pid
            BY <2>1, RuntimePidIs DEF CallStates, Labels
        <3>2. Fits(r) /\ \A f \in Frames : On(r, f) <=> On(k, f)
            BY <1>2, <3>1, SameStack DEF Fits, Beneath, Labels, StopUsers, OffUsers, Starters
        <3>3. InsideOf(r)
            BY <1>2, <3>1, <3>2 DEF InsideOf, InsideLabels, OutsideLabels, InsideFrames, Frames,
                   Revoking
        <3>4. ProducerOf(c, r)'
            BY <1>4, <1>5, <1>6, <3>1, <3>2 DEF ProducerOf
        <3>5. MarkerOf(c, r)'
            BY <1>2, <1>4, <1>5, <1>6, <1>7, <3>1, <3>2 DEF Knows, MarkerOf, NoProducer, Owned,
                   Frames
        <3>6. RuntimeOf(r)'
            BY <1>7, <3>1, <3>2 DEF Knows, RuntimeOf, Frames
        <3>7. QED
            BY <3>1, <3>2, <3>3, <3>4, <3>5, <3>6 DEF Good, Knows
    <2>2. CASE r = Return(k)
        BY <1>2, <1>4, <1>5, <1>6, <1>7, <2>2, ReturnedIsGood DEF Returning
    <2>3. QED
        BY <1>8, <2>1, <2>2
<1>10. ASSUME NEW d \in Callers \ {c}, NEW j \in CallStates, j = call[d], OutsideKnows(d, j)
       PROVE  OutsideKnows(d, j)'
    <2>1. InSequence(j) => Owned(j)
        BY DEF InSequence, Owned, On
    <2>2. d \in revoked' => d \in revoked \/ InSequence(j)
        BY <1>3, <1>10
    <2>3. QED
        BY <1>4, <1>5, <1>6, <1>10, <2>1, <2>2, OperatorAssumption DEF OutsideKnows
<1>11. OneProducer' /\ MarkedProducers'
    BY <1>5, <1>6, <1>4 DEF OneProducer, MarkedProducers, NoProducer
<1>12. OneProcess'
    <2>1. \A d \in Callers \ {c} : call'[d] = call[d]
        BY <1>8 DEF IInv, TypeOK, Become
    <2>2. QED
        BY <1>1, <1>2, <1>4, <1>6, <2>1 DEF IInv, OneProcess
<1>13. QED
    BY <1>1, <1>4, <1>5, <1>8, <1>9, <1>10, <1>11, <1>12, InsiderKeeps

(* The supervisor is spawned where no other one can live.                    *)
LEMMA StartSpawnHolds ==
    ASSUME IInv, NEW c \in Callers, StartSpawn(c)
    PROVE  IInv'
<1>1. PICK k \in CallStates : k = call[c]
    BY DEF IInv, TypeOK
<1>2. Fits(k) /\ InsideOf(k) /\ Knows(c, k) /\ k.pc = "start.spawn" /\ k.inside /\ ~k.pass
    BY <1>1 DEF IInv, CallInv, Knows, StartSpawn, At, InsideOf, InsideLabels, Revoking
<1>3. /\ UNCHANGED <<marker, term, abandoned, status, revoked, spawner>>
      /\ mail' = "ABSENT" /\ pidFile' = Nobody
      /\ \A p \in Producers : Alive(p)' <=> Alive(p)
      /\ \A p \in Producers : producer[p] # "NONE" => producer'[p] # "NONE"
      /\ producer' \in [Producers -> {"NONE", "STARTING", "ADMITTED", "SUPERSEDED", "GONE"}]
    BY CommitIs DEF StartSpawn
<1>4. NoProducer' <=> NoProducer
    BY <1>3 DEF NoProducer
<1>5. ~On(k, "none") /\ ~On(k, "old")
    <2>1. \A i \in 1 .. Len(k.stack) : k.stack[i] # "none"
        BY <1>2, Innermost DEF Revoking
    <2>2. ~On(k, "none")
        BY <2>1, CallFields DEF On
    <2>3. ~On(k, "old")
        BY <1>2, AboveOld DEF Revoking
    <2>4. QED
        BY <2>2, <2>3
<1>6. PICK r :
        /\ Become(c, r)
        /\ \/ (\E p \in Runtimes : /\ runtime[p] = "NONE" /\ runtime' = [runtime EXCEPT ![p] = "SPAWNED"]
                                   /\ r = [k EXCEPT !.pc = "start.pid", !.awaits = p])
           \/ r = Raise(k) /\ runtime' = runtime
    BY <1>1 DEF StartSpawn
<1>7. HostOK'
    BY <1>3, <1>6 DEF IInv, TypeOK, HostOK
<1>8. ASSUME NEW d \in Callers \ {c}, NEW j \in CallStates, j = call[d], OutsideKnows(d, j)
      PROVE  OutsideKnows(d, j)'
    BY <1>3, <1>4, <1>8 DEF OutsideKnows
<1>9. OneProducer' /\ MarkedProducers'
    BY <1>3 DEF IInv, OneProducer, MarkedProducers
<1>10. call'[c] = r
    BY <1>6 DEF IInv, TypeOK, Become
<1>11. CASE \E p \in Runtimes : /\ runtime[p] = "NONE" /\ runtime' = [runtime EXCEPT ![p] = "SPAWNED"]
                                /\ r = [k EXCEPT !.pc = "start.pid", !.awaits = p]
    <2>1. PICK p \in Runtimes : /\ runtime[p] = "NONE" /\ runtime' = [runtime EXCEPT ![p] = "SPAWNED"]
                                /\ r = [k EXCEPT !.pc = "start.pid", !.awaits = p]
        BY <1>11
    <2>2. /\ r \in CallStates /\ r.pc = "start.pid" /\ r.stack = k.stack /\ r.awaits = p
          /\ r.inside = k.inside /\ r.err = k.err /\ r.pass = k.pass
          /\ r.pid = k.pid
        BY <2>1 DEF CallStates, Labels
    <2>3. Fits(r) /\ \A f \in Frames : On(r, f) <=> On(k, f)
        BY <1>2, <2>2, SameStack DEF Fits, Beneath, Labels, Starters
    <2>4. InsideOf(r)
        BY <1>2, <2>2, <2>3 DEF InsideOf, InsideLabels, OutsideLabels, InsideFrames, Frames,
               Revoking
    <2>5. ProducerOf(c, r)'
        BY <1>2, <1>4, <2>2, <2>3 DEF Knows, ProducerOf, Frames
    <2>6. MarkerOf(c, r)'
        BY <1>2, <1>3, <2>2, <2>3 DEF Knows, MarkerOf, Owned, Frames
    <2>7. RuntimeOf(r)'
        BY <1>5, <2>2, <2>3 DEF RuntimeOf, Frames
    <2>8. Good(c, k, r)
        BY <2>2, <2>3, <2>4, <2>5, <2>6, <2>7 DEF Good, Knows
    <2>9. OneProcess'
        <3>1. abandoned = {} => Processes = {}
            BY <1>2 DEF Knows, RuntimeOf
        <3>2. abandoned = {} => Processes' \subseteq {p}
            BY <2>1, <3>1 DEF IInv, TypeOK, Processes
        <3>3. abandoned = {} => \A s \in Runtimes : runtime'[s] = "SPAWNED" => s = p
            BY <3>2 DEF Processes
        <3>4. QED
            BY <1>3, <1>10, <2>2, <3>2, <3>3 DEF OneProcess
    <2>10. QED
        BY <1>1, <1>2, <1>6, <1>7, <1>8, <1>9, <2>8, <2>9, InsiderKeeps
<1>12. CASE r = Raise(k) /\ runtime' = runtime
    <2>1. Processes' = Processes
        BY <1>12 DEF Processes
    <2>2. ProducerOf(c, k)'
        BY <1>2, <1>3, <1>4 DEF Knows, ProducerOf
    <2>3. MarkerOf(c, k)'
        BY <1>2, <1>3 DEF Knows, MarkerOf
    <2>4. RuntimeOf(k)'
        BY <1>2, <1>3, <1>12, <2>1 DEF Knows, RuntimeOf
    <2>5. Good(c, k, r)
        BY <1>2, <1>12, <2>2, <2>3, <2>4, RaiseIsHandled, RaisedIsGood DEF Knows, Revoking
    <2>6. OneProcess'
        <3>1. abandoned = {} => Processes' = {}
            BY <1>2, <2>1 DEF Knows, RuntimeOf
        <3>2. abandoned = {} => \A s \in Runtimes : runtime'[s] # "SPAWNED"
            BY <3>1 DEF Processes
        <3>3. QED
            BY <1>3, <3>1, <3>2 DEF OneProcess
    <2>7. QED
        BY <1>1, <1>2, <1>6, <1>7, <1>8, <1>9, <2>5, <2>6, InsiderKeeps
<1>13. QED
    BY <1>6, <1>11, <1>12

(* A sequence marks itself the owner, where nobody is.                       *)
LEMMA SeqMarkHolds ==
    ASSUME IInv, NEW c \in Callers, SeqMark(c)
    PROVE  IInv'
<1>1. PICK k \in CallStates : k = call[c]
    BY DEF IInv, TypeOK
<1>2. Fits(k) /\ InsideOf(k) /\ Knows(c, k) /\ k.pc = "seq.mark" /\ k.inside
    BY <1>1 DEF IInv, CallInv, Knows, SeqMark, At, InsideOf, InsideLabels
<1>3. marker = Nobody /\ NoProducer /\ c \notin revoked
    <2>1. ~Owned(k)
        BY <1>2, OnNothing DEF Beneath, Labels, Owned
    <2>2. QED
        BY <1>2, <2>1 DEF Knows, MarkerOf, ProducerOf
<1>4. /\ UNCHANGED <<mail, producer, spawner, term, runtime, pidFile, abandoned, status, revoked>>
      /\ marker' = c /\ HostOK'
    BY DEF IInv, TypeOK, HostOK, SeqMark, motion, session
<1>5. (\A p \in Producers : Alive(p)' <=> Alive(p)) /\ NoProducer' /\ Processes' = Processes
    BY <1>3, <1>4 DEF Alive, NoProducer, Processes
<1>6. PICK r : Become(c, r) /\ r = [NoCall EXCEPT !.pc = "seq.phase", !.stack = <<"sequence">>]
    BY DEF SeqMark
<1>7. PICK t : t = <<"sequence">> /\ t \in Seq(Frames) /\ Len(t) = 1 /\ t[1] = "sequence"
    <2>1. <<"sequence">> \in Seq(Frames) /\ Len(<<"sequence">>) = 1 /\ <<"sequence">>[1] = "sequence"
        BY DEF Frames
    <2>2. QED
        BY <2>1
<1>8. r \in CallStates /\ r.pc = "seq.phase" /\ r.stack = t /\ ~r.inside /\ ~r.pass
    BY <1>6, <1>7, FramesAre DEF NoCall, CallStates, Labels
<1>9. \A f \in Frames : On(r, f) <=> f = "sequence"
    BY <1>7, <1>8 DEF On
<1>10. Fits(r)
    BY <1>7, <1>8 DEF Fits, Chained, Top, Under, Beneath, Labels, Bottom
<1>11. InsideOf(r)
    BY <1>8, <1>9 DEF InsideOf, InsideLabels, InsideFrames, Frames
<1>12. Owned(r)
    BY <1>9 DEF Owned, Frames
<1>13. OutsideKnows(c, r)'
    BY <1>3, <1>4, <1>5, <1>8, <1>12 DEF OutsideKnows
<1>14. Good(c, k, r)
    BY <1>8, <1>10, <1>11, <1>13, OutsideIs DEF Good
<1>15. ASSUME NEW d \in Callers \ {c}, NEW j \in CallStates, j = call[d], OutsideKnows(d, j)
       PROVE  OutsideKnows(d, j)'
    BY <1>4, <1>5, <1>15 DEF OutsideKnows
<1>16. OneProducer' /\ MarkedProducers'
    BY <1>5 DEF OneProducer, MarkedProducers, NoProducer
<1>17. OneProcess'
    <2>1. \A d \in Callers \ {c} : call'[d] = call[d]
        BY <1>6 DEF IInv, TypeOK, Become
    <2>2. QED
        BY <1>1, <1>2, <1>4, <1>5, <2>1 DEF IInv, OneProcess
<1>18. QED
    BY <1>1, <1>2, <1>4, <1>6, <1>14, <1>15, <1>16, <1>17, InsiderKeeps

(* A producer is spawned while there is none.                                *)
LEMMA SpawnIs ==
    ASSUME IInv, NEW c \in Callers, NEW p \in Producers, Spawn(c, p), NoProducer,
           marker \in {Nobody, c}, UNCHANGED <<marker, term, session, status, revoked>>
    PROVE  /\ HostOK' /\ OneProducer' /\ MarkedProducers'
           /\ \A q \in Producers : Alive(q)' <=> q = p
           /\ spawner'[p] = c
           /\ \A d \in Callers \ {c}, j \in CallStates :
                 j = call[d] /\ OutsideKnows(d, j) => OutsideKnows(d, j)'
<1>1. /\ producer[p] = "NONE" /\ producer' = [producer EXCEPT ![p] = "STARTING"]
      /\ spawner' = [spawner EXCEPT ![p] = c] /\ mail' = mail
    BY DEF Spawn
<1>2. HostOK'
    BY <1>1 DEF IInv, TypeOK, HostOK, session
<1>3. \A q \in Producers : Alive(q)' <=> q = p
    BY <1>1 DEF IInv, TypeOK, NoProducer, Alive
<1>4. spawner'[p] = c
    BY <1>1 DEF IInv, TypeOK
<1>5. OneProducer' /\ MarkedProducers'
    BY <1>3, <1>4 DEF OneProducer, MarkedProducers
<1>6. ASSUME NEW d \in Callers \ {c}, NEW j \in CallStates, j = call[d], OutsideKnows(d, j)
      PROVE  OutsideKnows(d, j)'
    <2>1. marker # d /\ marker' # d
        BY OperatorAssumption
    <2>2. j.pc = "rev.gone" => j.awaits \in Producers /\ j.awaits # p /\ producer'[j.awaits] = producer[j.awaits]
        BY <1>1, <1>6 DEF IInv, TypeOK, OutsideKnows
    <2>3. j.pc = "rev.gone" => ~Alive(j.awaits)'
        BY <1>3, <2>2
    <2>4. QED
        BY <1>6, <2>1, <2>2, <2>3 DEF OutsideKnows
<1>7. QED
    BY <1>2, <1>3, <1>4, <1>5, <1>6

(* Spawning a producer does not touch the runtimes.                          *)
LEMMA SpawnKeepsProcesses ==
    ASSUME IInv, NEW c \in Callers, call[c].pc # "start.pid", NEW r, Become(c, r),
           UNCHANGED session
    PROVE  OneProcess'
<1>1. \A d \in Callers \ {c} : call'[d] = call[d]
    BY DEF IInv, TypeOK, Become
<1>2. runtime' = runtime /\ abandoned' = abandoned /\ Processes' = Processes
    BY DEF session, Processes
<1>3. QED
    BY <1>1, <1>2 DEF IInv, OneProcess

(* A motion's producer is spawned where none lives.                          *)
LEMMA MoveSpawnHolds ==
    ASSUME IInv, NEW c \in Callers, MoveSpawn(c)
    PROVE  IInv'
<1>1. PICK k \in CallStates : k = call[c]
    BY DEF IInv, TypeOK
<1>2. Fits(k) /\ InsideOf(k) /\ Knows(c, k) /\ k.pc = "move.spawn" /\ k.inside
    BY <1>1 DEF IInv, CallInv, Knows, MoveSpawn, At, InsideOf, InsideLabels
<1>3. NoProducer /\ marker = Nobody /\ UNCHANGED <<marker, term, session, status, revoked>>
    BY <1>2 DEF Knows, ProducerOf, MarkerOf, MoveSpawn
<1>4. Beneath[k.pc] = {Bottom}
    BY <1>2 DEF Beneath, Labels
<1>5. k.stack = <<>> /\ \A f : ~On(k, f)
    BY <1>2, <1>4, OnNothing
<1>6. CASE \E p \in Producers : Spawn(c, p) /\ Become(c, [k EXCEPT !.pc = "move.allow", !.awaits = p])
    <2>0. PICK p \in Producers : Spawn(c, p) /\ Become(c, [k EXCEPT !.pc = "move.allow", !.awaits = p])
        BY <1>6
    <2>1. PICK r : Spawn(c, p) /\ Become(c, r) /\ r = [k EXCEPT !.pc = "move.allow", !.awaits = p]
        BY <2>0
    <2>2. /\ r \in CallStates /\ r.pc = "move.allow" /\ r.stack = k.stack
          /\ r.inside = k.inside /\ r.err = k.err /\ r.pass = k.pass
          /\ r.pid = k.pid
        BY <2>1 DEF CallStates, Labels
    <2>3. Fits(r) /\ \A f \in Frames : ~On(r, f)
        BY <1>2, <1>5, <2>2, SameStack DEF Fits, Beneath, Labels, Top
    <2>4. InsideOf(r)
        BY <1>2, <2>2, <2>3 DEF InsideOf, InsideLabels, OutsideLabels, InsideFrames, Frames,
               Revoking
    <2>5. ~Owned(k)
        BY <1>2, <1>5 DEF Owned
    <2>6. Knows(c, r)'
        BY <1>2, <1>3, <2>2, <2>3, <2>5, OperatorAssumption DEF Knows, ProducerOf, MarkerOf,
               RuntimeOf, Frames
    <2>7. Good(c, k, r)
        BY <2>2, <2>3, <2>4, <2>6 DEF Good
    <2>8. OneProcess'
        BY <1>1, <1>2, <1>3, <2>1, SpawnKeepsProcesses
    <2>9. QED
        BY <1>1, <1>2, <1>3, <2>1, <2>7, <2>8, SpawnIs, InsiderKeeps
<1>7. CASE Become(c, CallStop(k, "undo")) /\ UNCHANGED motion
    <2>1. PICK r : Become(c, r) /\ r = CallStop(k, "undo")
        BY <1>7
    <2>2. Harmless /\ HostOK'
        BY <1>3, <1>7, NothingIsHarmless
    <2>3. Knows(c, k)'
        BY <1>2, <2>2, KnowledgeKeeps
    <2>4. PICK q \in CallStates :
            /\ q = Push(k, "stop.first", "undo") /\ Fits(q) /\ q.pc = "stop.first"
            /\ q.inside = k.inside
            /\ q.pid = k.pid /\ q.awaits = k.awaits
            /\ \A g \in Frames : On(q, g) <=> g = "undo" \/ On(k, g)
        <3>1. Top(k.stack) \in Under["undo"] /\ "undo" \in Beneath["stop.first"]
              /\ "stop.first" \in Labels /\ "undo" \in Frames
            BY <1>5 DEF Top, Beneath, Under, Labels, Frames, StopUsers
        <3>2. Fits(k) /\ \E q : q = Push(k, "stop.first", "undo")
            BY <1>2
        <3>3. QED
            BY <3>1, <3>2, PushIs
    <2>5. /\ r \in CallStates /\ r.pc = "stop.first" /\ r.stack = q.stack /\ r.inside = k.inside
          /\ r.err = FALSE /\ r.pass = FALSE /\ r.pid = k.pid
        BY <2>1, <2>4 DEF CallStop, Stopping, CallStates, Labels
    <2>6. Fits(r) /\ \A g \in Frames : On(r, g) <=> g = "undo" \/ On(k, g)
        BY <2>4, <2>5, SameStack DEF Fits
    <2>7. InsideOf(r)
        BY <1>2, <2>5, <2>6 DEF InsideOf, InsideLabels, OutsideLabels, InsideFrames, Frames,
               Revoking
    <2>8. Good(c, k, r)
        BY <1>2, <1>5, <2>3, <2>5, <2>6, <2>7, PlainIsGood DEF Plain, Owned, Frames
    <2>9. QED
        BY <1>1, <1>2, <2>1, <2>2, <2>8, StepKeeps
<1>8. QED
    <2>1. \/ \E p \in Producers : Spawn(c, p) /\ Become(c, [k EXCEPT !.pc = "move.allow", !.awaits = p])
          \/ Become(c, CallStop(k, "undo")) /\ UNCHANGED motion
        BY <1>1 DEF MoveSpawn
    <2>2. QED
        BY <1>6, <1>7, <2>1

(* A sequence's producer is spawned where none lives, by the owner of the mark or by one *)
(* that no stop() revoked.                                                   *)
LEMMA SeqSpawnHolds ==
    ASSUME IInv, NEW c \in Callers, SeqSpawn(c)
    PROVE  IInv'
<1>1. PICK k \in CallStates : k = call[c]
    BY DEF IInv, TypeOK
<1>2. Fits(k) /\ InsideOf(k) /\ Knows(c, k) /\ k.pc = "seq.spawn" /\ k.inside /\ ~k.pass
    BY <1>1 DEF IInv, CallInv, Knows, SeqSpawn, At, InsideOf, InsideLabels, Revoking
<1>3. NoProducer /\ marker \in {Nobody, c} /\ c \notin revoked
      /\ UNCHANGED <<marker, term, session, status, revoked>>
    BY <1>2 DEF Knows, ProducerOf, MarkerOf, SeqSpawn
<1>4. \A f \in Frames : On(k, f) => f \in {"phase", "sequence"}
    BY <1>2, OnlyPhase DEF Beneath, Labels
<1>5. CASE \E p \in Producers : /\ Spawn(c, p)
                               /\ Become(c, [k EXCEPT !.pc = "seq.watch", !.awaits = p, !.inside = FALSE])
    <2>0. PICK p \in Producers :
             Spawn(c, p) /\ Become(c, [k EXCEPT !.pc = "seq.watch", !.awaits = p, !.inside = FALSE])
        BY <1>5
    <2>1. PICK r : /\ Spawn(c, p) /\ Become(c, r)
                   /\ r = [k EXCEPT !.pc = "seq.watch", !.awaits = p, !.inside = FALSE]
        BY <2>0
    <2>2. /\ r \in CallStates /\ r.pc = "seq.watch" /\ r.stack = k.stack
          /\ r.inside = FALSE /\ r.err = k.err /\ r.pass = k.pass
          /\ r.pid = k.pid
        BY <2>1 DEF CallStates, Labels
    <2>3. Fits(r) /\ \A f \in Frames : On(r, f) <=> On(k, f)
        BY <1>2, <2>2, SameStack DEF Fits, Beneath, Labels
    <2>4. InsideOf(r)
        BY <1>2, <1>4, <2>2, <2>3 DEF InsideOf, InsideLabels, InsideFrames, Frames
    <2>5. OutsideKnows(c, r)'
        BY <1>2, <1>3, <2>2, <2>3 DEF Knows, MarkerOf, OutsideKnows, Owned, Frames
    <2>6. Good(c, k, r)
        BY <2>2, <2>3, <2>4, <2>5, OutsideIs DEF Good
    <2>7. OneProcess'
        BY <1>1, <1>2, <1>3, <2>1, SpawnKeepsProcesses
    <2>8. QED
        BY <1>1, <1>2, <1>3, <2>1, <2>6, <2>7, SpawnIs, InsiderKeeps
<1>6. CASE Become(c, Raise(k)) /\ UNCHANGED motion
    <2>1. Harmless /\ HostOK'
        BY <1>3, <1>6, NothingIsHarmless
    <2>2. Knows(c, k)'
        BY <1>2, <2>1, KnowledgeKeeps
    <2>3. PICK r : Become(c, r) /\ r = Raise(k)
        BY <1>6
    <2>4. Good(c, k, r)
        BY <1>2, <2>2, <2>3, RaiseIsHandled, RaisedIsGood DEF Revoking
    <2>5. QED
        BY <1>1, <1>2, <2>1, <2>3, <2>4, StepKeeps
<1>7. QED
    <2>1. \/ \E p \in Producers : /\ Spawn(c, p)
                                 /\ Become(c, [k EXCEPT !.pc = "seq.watch", !.awaits = p, !.inside = FALSE])
          \/ Become(c, Raise(k)) /\ UNCHANGED motion
        BY <1>1 DEF SeqSpawn
    <2>2. QED
        BY <1>5, <1>6, <2>1

-----------------------------------------------------------------------------
(* A producer is admitted, sends, unwinds and ends; none of this helps another one to live. *)
LEMMA AdmitHolds ==
    ASSUME IInv, NEW p \in Producers, Admit(p)
    PROVE  IInv'
<1>1. TypeOK' /\ Harmless
    BY DEF IInv, TypeOK, Admit, Harmless, Alive, NoProducer, session
<1>2. QED
    BY <1>1, ProcessKeeps DEF Admit

(* Its commands.                                                             *)
LEMMA HeartbeatHolds ==
    ASSUME IInv, NEW p \in Producers, Heartbeat(p)
    PROVE  IInv'
<1>1. ~NoProducer
    BY DEF Heartbeat, NoProducer, Alive
<1>2. TypeOK' /\ Harmless
    BY <1>1, CommitIs DEF IInv, TypeOK, Heartbeat, Harmless, session
<1>3. QED
    BY <1>2, ProcessKeeps DEF Heartbeat

(* Its unwinding.                                                            *)
LEMMA UnwindProducerHolds ==
    ASSUME IInv, NEW p \in Producers, UnwindProducer(p)
    PROVE  IInv'
<1>1. TypeOK' /\ Harmless
    BY DEF IInv, TypeOK, UnwindProducer, Ends, Superseded, Harmless, Alive, NoProducer, session
<1>2. QED
    BY <1>1, ProcessKeeps DEF UnwindProducer, Ends

(* Its end.                                                                  *)
LEMMA EndProducerHolds ==
    ASSUME IInv, NEW p \in Producers, EndProducer(p)
    PROVE  IInv'
<1>1. TypeOK' /\ Harmless
    BY DEF IInv, TypeOK, EndProducer, Ends, Harmless, Alive, NoProducer, session
<1>2. QED
    BY <1>1, ProcessKeeps DEF EndProducer, Ends

(* A runtime boots, records its pid, reports and ends.                       *)
LEMMA RuntimeStepHolds ==
    ASSUME IInv, NEW r \in Runtimes, Supervise(r) \/ Record(r) \/ Ready(r) \/ Report(r) \/ EndRuntime(r)
    PROVE  IInv'
<1>1. CASE Supervise(r)
    BY <1>1, ProcessKeeps DEF IInv, TypeOK, Supervise, Harmless, Alive, NoProducer, motion
<1>2. CASE Record(r)
    BY <1>2, ProcessKeeps DEF IInv, TypeOK, Record, Harmless, Alive, NoProducer, motion
<1>3. CASE Ready(r)
    BY <1>3, ProcessKeeps DEF IInv, TypeOK, Ready, Harmless, Alive, NoProducer, motion
<1>4. CASE Report(r)
    BY <1>4, ProcessKeeps DEF IInv, TypeOK, Report, Harmless, Alive, NoProducer, motion, session
<1>5. CASE EndRuntime(r)
    BY <1>5, ProcessKeeps, OperatorAssumption DEF IInv, TypeOK, EndRuntime, Harmless, Alive,
           NoProducer, motion
<1>6. QED
    BY <1>1, <1>2, <1>3, <1>4, <1>5

(* The invariant is about the state alone.                                   *)
LEMMA StutterHolds ==
    ASSUME IInv, UNCHANGED vars
    PROVE  IInv'
<1>1. TypeOK' /\ Harmless
    BY DEF IInv, TypeOK, vars, motion, session, Harmless, Alive, NoProducer
<1>2. QED
    BY <1>1, ProcessKeeps DEF vars

(* At the start there is no call, no process and no mark.                    *)
LEMMA InitHolds == Init => IInv
<1> SUFFICES ASSUME Init PROVE IInv
    OBVIOUS
<1>1. NoCall \in CallStates /\ NoCall.stack = <<>> /\ NoCall.pc = "idle" /\ ~NoCall.inside /\ ~NoCall.pass
    BY FramesAre DEF NoCall, CallStates, Labels
<1>2. Fits(NoCall) /\ \A f \in Frames : ~On(NoCall, f)
    BY <1>1 DEF Fits, Chained, Top, On, Beneath, Labels
<1>3. InsideOf(NoCall)
    BY <1>1, <1>2 DEF InsideOf, InsideLabels, InsideFrames, Frames
<1>4. TypeOK
    BY <1>1 DEF Init, TypeOK
<1>5. \A c \in Callers : call[c] = NoCall
    BY DEF Init
<1>6. \A p \in Producers : ~Alive(p)
    BY DEF Init, Alive
<1>7. Processes = {} /\ \A r \in Runtimes : runtime[r] # "SPAWNED"
    BY DEF Init, Processes
<1>8. \A c \in Callers : ProducerOf(c, NoCall) /\ MarkerOf(c, NoCall) /\ RuntimeOf(NoCall)
    BY <1>1, <1>2, OperatorAssumption DEF Init, ProducerOf, MarkerOf, RuntimeOf, Frames
<1>9. CallInv /\ OneInside
    BY <1>1, <1>2, <1>3, <1>5, <1>8 DEF CallInv, OneInside
<1>10. OneProducer /\ MarkedProducers /\ OneProcess
    BY <1>6, <1>7 DEF OneProducer, MarkedProducers, OneProcess
<1>11. QED
    BY <1>4, <1>9, <1>10 DEF IInv

-----------------------------------------------------------------------------
(* stop() publishes its first STOP and revokes.                              *)
LEMMA StopFirstHolds ==
    ASSUME IInv, NEW c \in Callers, StopFirst(c)
    PROVE  IInv'
<1>1. PICK k \in CallStates : k = call[c]
    BY DEF IInv, TypeOK
<1>2. Fits(k) /\ InsideOf(k) /\ Knows(c, k) /\ k.pc = "stop.first"
    BY <1>1 DEF IInv, CallInv, Knows, StopFirst, At
<1>3. Harmless /\ HostOK' /\ (PublishStop => mail' = "STOP")
    BY PublicationIsHarmless DEF StopFirst
<1>4. Knows(c, k)'
    BY <1>2, <1>3, KnowledgeKeeps
<1>5. PICK r : Become(c, r) /\ r = Push(k, "rev.marker", "stop")
    BY <1>1 DEF StopFirst
<1>6. Good(c, k, r)
    <2>1. CASE r = Push(k, "rev.marker", "stop")
        <3>1. Top(k.stack) \in Under["stop"] /\ "stop" \in Beneath["rev.marker"]
              /\ "rev.marker" \in Labels /\ "stop" \in Frames
            BY <1>2 DEF Fits, Beneath, Under, Labels, Frames, StopUsers, OffUsers, Starters
        <3>2. /\ r \in CallStates /\ r.pc = "rev.marker" /\ Fits(r) /\ r.stack[1] = "stop"
              /\ r.inside = k.inside /\ r.err = k.err /\ r.pass = k.pass
              /\ r.pid = k.pid /\ r.awaits = k.awaits
              /\ \A g \in Frames : On(r, g) <=> g = "stop" \/ On(k, g)
            BY <1>2, <2>1, <3>1, PushIs
        <3>3. InsideOf(r)
            BY <1>2, <1>3, <1>4, <2>1, <3>2 DEF InsideOf, InsideLabels, OutsideLabels,
                   InsideFrames, Frames, Revoking
        <3>4. QED
            BY <1>2, <1>3, <1>4, <2>1, <3>2, <3>3, PlainIsGood DEF Plain, Owned, Frames
    <2>2. QED
        BY <1>5, <2>1
<1>7. QED
    BY <1>1, <1>2, <1>3, <1>5, <1>6, StepKeeps

(* After the revocation stop() publishes its STOP again.                     *)
LEMMA StopAgainHolds ==
    ASSUME IInv, NEW c \in Callers, StopAgain(c)
    PROVE  IInv'
<1>1. PICK k \in CallStates : k = call[c]
    BY DEF IInv, TypeOK
<1>2. Fits(k) /\ InsideOf(k) /\ Knows(c, k) /\ k.pc = "stop.again"
    BY <1>1 DEF IInv, CallInv, Knows, StopAgain, At
<1>3. Harmless /\ HostOK' /\ (PublishStop => mail' = "STOP")
    BY PublicationIsHarmless DEF StopAgain
<1>4. Knows(c, k)'
    BY <1>2, <1>3, KnowledgeKeeps
<1>5. PICK r :
          /\ Become(c, r)
          /\ \/ r = Goto(k, "stop.lock") /\ PublishStop
             \/ r = [k EXCEPT !.pc = "stop.lock", !.err = TRUE]
    BY <1>1 DEF StopAgain
<1>6. Good(c, k, r)
    <2>1. CASE r = Goto(k, "stop.lock") /\ PublishStop
        <3>1. /\ r \in CallStates /\ r.pc = "stop.lock" /\ r.stack = k.stack
              /\ r.inside = k.inside /\ r.err = k.err /\ r.pass = k.pass
              /\ r.pid = k.pid /\ r.awaits = k.awaits
            BY <1>2, <1>3, <1>4, <2>1 DEF CallStates, Labels, Goto
        <3>2. Fits(r) /\ \A f \in Frames : On(r, f) <=> On(k, f)
            BY <1>2, <3>1, SameStack DEF Fits, Beneath, Labels, StopUsers, OffUsers, Starters
        <3>3. InsideOf(r)
            BY <1>2, <1>3, <1>4, <2>1, <3>1, <3>2 DEF InsideOf, InsideLabels, OutsideLabels,
                   InsideFrames, Frames, Revoking
        <3>4. ProducerOf(c, r)'
            BY <1>2, <1>3, <1>4, <2>1, <3>1, <3>2 DEF Knows, ProducerOf, NoProducer, Frames
        <3>5. MarkerOf(c, r)'
            BY <1>2, <1>3, <1>4, <2>1, <3>1, <3>2 DEF Knows, MarkerOf, Owned, Frames, Revoking,
                   InsideOf
        <3>6. RuntimeOf(r)'
            BY <1>2, <1>3, <1>4, <2>1, <3>1, <3>2 DEF Knows, RuntimeOf, Frames, Processes
        <3>7. QED
            BY <1>2, <1>3, <1>4, <2>1, <3>1, <3>2, <3>3, <3>4, <3>5, <3>6 DEF Good, Knows
    <2>2. CASE r = [k EXCEPT !.pc = "stop.lock", !.err = TRUE]
        <3>1. /\ r \in CallStates /\ r.pc = "stop.lock" /\ r.stack = k.stack
              /\ r.inside = k.inside /\ r.err = TRUE /\ r.pass = k.pass
              /\ r.pid = k.pid /\ r.awaits = k.awaits
            BY <1>2, <1>3, <1>4, <2>2 DEF CallStates, Labels
        <3>2. Fits(r) /\ \A f \in Frames : On(r, f) <=> On(k, f)
            BY <1>2, <3>1, SameStack DEF Fits, Beneath, Labels, StopUsers, OffUsers, Starters
        <3>3. InsideOf(r)
            BY <1>2, <1>3, <1>4, <2>2, <3>1, <3>2 DEF InsideOf, InsideLabels, OutsideLabels,
                   InsideFrames, Frames, Revoking
        <3>4. ProducerOf(c, r)'
            BY <1>2, <1>3, <1>4, <2>2, <3>1, <3>2 DEF Knows, ProducerOf, NoProducer, Frames
        <3>5. MarkerOf(c, r)'
            BY <1>2, <1>3, <1>4, <2>2, <3>1, <3>2 DEF Knows, MarkerOf, Owned, Frames, Revoking,
                   InsideOf
        <3>6. RuntimeOf(r)'
            BY <1>2, <1>3, <1>4, <2>2, <3>1, <3>2 DEF Knows, RuntimeOf, Frames, Processes
        <3>7. QED
            BY <1>2, <1>3, <1>4, <2>2, <3>1, <3>2, <3>3, <3>4, <3>5, <3>6 DEF Good, Knows
    <2>3. QED
        BY <1>5, <2>1, <2>2
<1>7. QED
    BY <1>1, <1>2, <1>3, <1>5, <1>6, StepKeeps

(* An unlocked stop() takes the transition and repeats the whole preemption. *)
LEMMA StopRepeatsHolds ==
    ASSUME IInv, NEW c \in Callers, StopRepeats(c)
    PROVE  IInv'
<1>1. PICK k \in CallStates : k = call[c]
    BY DEF IInv, TypeOK
<1>2. Fits(k) /\ InsideOf(k) /\ Knows(c, k) /\ k.pc = "stop.lock"
    BY <1>1 DEF IInv, CallInv, Knows, StopRepeats, At
<1>3. Harmless /\ HostOK'
    BY NothingIsHarmless DEF StopRepeats
<1>4. Knows(c, k)'
    BY <1>2, <1>3, KnowledgeKeeps
<1>5. PICK r : Become(c, r) /\ r = [Inside(k) EXCEPT !.pc = "stop.first", !.pass = TRUE] /\ MayEnter(c)
    BY <1>1 DEF StopRepeats
<1>6. Good(c, k, r)
    <2>1. CASE r = [Inside(k) EXCEPT !.pc = "stop.first", !.pass = TRUE] /\ MayEnter(c)
        <3>1. /\ r \in CallStates /\ r.pc = "stop.first" /\ r.stack = k.stack
              /\ r.inside = TRUE /\ r.err = k.err /\ r.pass = TRUE
              /\ r.pid = k.pid /\ r.awaits = k.awaits
            BY <1>2, <1>3, <1>4, <2>1 DEF CallStates, Labels, Inside
        <3>2. Fits(r) /\ \A f \in Frames : On(r, f) <=> On(k, f)
            BY <1>2, <3>1, SameStack DEF Fits, Beneath, Labels, StopUsers, OffUsers, Starters
        <3>3. InsideOf(r)
            BY <1>2, <1>3, <1>4, <2>1, <3>1, <3>2 DEF InsideOf, InsideLabels, OutsideLabels,
                   InsideFrames, Frames, Revoking
        <3>4. QED
            BY <1>2, <1>3, <1>4, <2>1, <3>1, <3>2, <3>3, PlainIsGood DEF Plain, Owned, Frames
    <2>2. QED
        BY <1>5, <2>1
<1>7. QED
    BY <1>1, <1>2, <1>3, <1>5, <1>6, StepKeeps

(* A stop() whose budget is spent ends without the lock.                     *)
LEMMA StopCutShortHolds ==
    ASSUME IInv, NEW c \in Callers, StopCutShort(c)
    PROVE  IInv'
<1>1. PICK k \in CallStates : k = call[c]
    BY DEF IInv, TypeOK
<1>2. Fits(k) /\ InsideOf(k) /\ Knows(c, k) /\ k.pc = "stop.lock"
    BY <1>1 DEF IInv, CallInv, Knows, StopCutShort, At
<1>3. Harmless /\ HostOK'
    BY NothingIsHarmless DEF StopCutShort
<1>4. Knows(c, k)'
    BY <1>2, <1>3, KnowledgeKeeps
<1>5. PICK r : Become(c, r) /\ r = Raise(k)
    BY <1>1 DEF StopCutShort
<1>6. Good(c, k, r)
    <2>1. CASE r = Raise(k)
        BY <1>2, <1>3, <1>4, <2>1, RaiseIsHandled, RaisedIsGood DEF Revoking
    <2>2. QED
        BY <1>5, <2>1
<1>7. QED
    BY <1>1, <1>2, <1>3, <1>5, <1>6, StepKeeps

(* A stop() with a producer it could not end takes the runtime down and raises. *)
LEMMA StopFailsHolds ==
    ASSUME IInv, NEW c \in Callers, StopFails(c)
    PROVE  IInv'
<1>1. PICK k \in CallStates : k = call[c]
    BY DEF IInv, TypeOK
<1>2. Fits(k) /\ InsideOf(k) /\ Knows(c, k) /\ k.pc = "stop.lock"
    BY <1>1 DEF IInv, CallInv, Knows, StopFails, At
<1>3. Harmless /\ HostOK'
    BY KillIsHarmless DEF StopFails
<1>4. Knows(c, k)'
    BY <1>2, <1>3, KnowledgeKeeps
<1>5. PICK r : Become(c, r) /\ r = Raise(k)
    BY <1>1 DEF StopFails
<1>6. Good(c, k, r)
    <2>1. CASE r = Raise(k)
        BY <1>2, <1>3, <1>4, <2>1, RaiseIsHandled, RaisedIsGood DEF Revoking
    <2>2. QED
        BY <1>5, <2>1
<1>7. QED
    BY <1>1, <1>2, <1>3, <1>5, <1>6, StepKeeps

(* stop() waits until the runtime reports that it is idle.                   *)
LEMMA StopIdleHolds ==
    ASSUME IInv, NEW c \in Callers, StopIdle(c)
    PROVE  IInv'
<1>1. PICK k \in CallStates : k = call[c]
    BY DEF IInv, TypeOK
<1>2. Fits(k) /\ InsideOf(k) /\ Knows(c, k) /\ k.pc = "stop.idle"
    BY <1>1 DEF IInv, CallInv, Knows, StopIdle, At
<1>3. Harmless /\ HostOK'
    BY NothingIsHarmless DEF StopIdle
<1>4. Knows(c, k)'
    BY <1>2, <1>3, KnowledgeKeeps
<1>5. PICK r :
          /\ Become(c, r)
          /\ \/ r = Return(k)
             \/ r = Raise(k)
    BY <1>1 DEF StopIdle
<1>6. Good(c, k, r)
    <2>1. CASE r = Return(k)
        BY <1>2, <1>3, <1>4, <2>1, ReturnedIsGood DEF Returning, InsideOf, Knows, ProducerOf,
               MarkerOf
    <2>2. CASE r = Raise(k)
        BY <1>2, <1>3, <1>4, <2>2, RaiseIsHandled, RaisedIsGood DEF Revoking
    <2>3. QED
        BY <1>5, <2>1, <2>2
<1>7. QED
    BY <1>1, <1>2, <1>3, <1>5, <1>6, StepKeeps

(* runtime_off() begins with a stop().                                       *)
LEMMA OffFirstHolds ==
    ASSUME IInv, NEW c \in Callers, OffFirst(c)
    PROVE  IInv'
<1>1. PICK k \in CallStates : k = call[c]
    BY DEF IInv, TypeOK
<1>2. Fits(k) /\ InsideOf(k) /\ Knows(c, k) /\ k.pc = "off.first"
    BY <1>1 DEF IInv, CallInv, Knows, OffFirst, At
<1>3. Harmless /\ HostOK'
    BY PublicationIsHarmless, KillIsHarmless DEF OffFirst, PublicationFails
<1>4. Knows(c, k)'
    BY <1>2, <1>3, KnowledgeKeeps
<1>5. PICK r : Become(c, r) /\ r = Goto(k, "off.lock")
    BY <1>1 DEF OffFirst
<1>6. Good(c, k, r)
    <2>1. CASE r = Goto(k, "off.lock")
        <3>1. /\ r \in CallStates /\ r.pc = "off.lock" /\ r.stack = k.stack
              /\ r.inside = k.inside /\ r.err = k.err /\ r.pass = k.pass
              /\ r.pid = k.pid /\ r.awaits = k.awaits
            BY <1>2, <1>3, <1>4, <2>1 DEF CallStates, Labels, Goto
        <3>2. Fits(r) /\ \A f \in Frames : On(r, f) <=> On(k, f)
            BY <1>2, <3>1, SameStack DEF Fits, Beneath, Labels, StopUsers, OffUsers, Starters
        <3>3. InsideOf(r)
            BY <1>2, <1>3, <1>4, <2>1, <3>1, <3>2 DEF InsideOf, InsideLabels, OutsideLabels,
                   InsideFrames, Frames, Revoking
        <3>4. QED
            BY <1>2, <1>3, <1>4, <2>1, <3>1, <3>2, <3>3, PlainIsGood DEF Plain, Owned, Frames
    <2>2. QED
        BY <1>5, <2>1
<1>7. QED
    BY <1>1, <1>2, <1>3, <1>5, <1>6, StepKeeps

(* It takes the transition.                                                  *)
LEMMA OffLockHolds ==
    ASSUME IInv, NEW c \in Callers, OffLock(c)
    PROVE  IInv'
<1>1. PICK k \in CallStates : k = call[c]
    BY DEF IInv, TypeOK
<1>2. Fits(k) /\ InsideOf(k) /\ Knows(c, k) /\ k.pc = "off.lock"
    BY <1>1 DEF IInv, CallInv, Knows, OffLock, At
<1>3. Harmless /\ HostOK'
    BY NothingIsHarmless DEF OffLock
<1>4. Knows(c, k)'
    BY <1>2, <1>3, KnowledgeKeeps
<1>5. PICK r :
          /\ Become(c, r)
          /\ \/ r = Raise(k)
             \/ r = Inside(CallStop(k, "off")) /\ MayEnter(c)
    BY <1>1 DEF OffLock
<1>6. Good(c, k, r)
    <2>1. CASE r = Raise(k)
        BY <1>2, <1>3, <1>4, <2>1, RaiseIsHandled, RaisedIsGood DEF Revoking
    <2>2. CASE r = Inside(CallStop(k, "off")) /\ MayEnter(c)
        <3>1. Top(k.stack) \in Under["off"] /\ "off" \in Beneath["stop.first"]
              /\ "stop.first" \in Labels /\ "off" \in Frames
            BY <1>2 DEF Fits, Beneath, Under, Labels, Frames, StopUsers, OffUsers, Starters
        <3>2. PICK q \in CallStates :
              /\ q = Push(k, "stop.first", "off") /\ q.pc = "stop.first" /\ Fits(q) /\ q.stack[1] = "off"
              /\ q.inside = k.inside /\ q.err = k.err /\ q.pass = k.pass
              /\ q.pid = k.pid /\ q.awaits = k.awaits
              /\ \A g \in Frames : On(q, g) <=> g = "off" \/ On(k, g)
            BY <1>2, <3>1, PushIs
        <3>3. /\ r \in CallStates /\ r.pc = "stop.first" /\ r.stack = q.stack
               /\ r.inside = TRUE /\ r.err = FALSE /\ r.pass = FALSE
               /\ r.pid = q.pid /\ r.awaits = q.awaits
            BY <1>2, <1>3, <1>4, <2>2, <3>2 DEF CallStates, Labels, Inside, CallStop, Stopping
        <3>4. Fits(r) /\ \A g \in Frames : On(r, g) <=> On(q, g)
            BY <3>2, <3>3, SameStack DEF Fits
        <3>5. /\ r \in CallStates /\ r.pc = "stop.first" /\ Fits(r) /\ r.stack[1] = "off"
              /\ r.inside = TRUE /\ r.err = FALSE /\ r.pass = FALSE
              /\ r.pid = k.pid /\ r.awaits = k.awaits
              /\ \A g \in Frames : On(r, g) <=> g = "off" \/ On(k, g)
            BY <3>2, <3>3, <3>4
        <3>6. InsideOf(r)
            BY <1>2, <1>3, <1>4, <2>2, <3>5 DEF InsideOf, InsideLabels, OutsideLabels,
                   InsideFrames, Frames, Revoking
        <3>7. QED
            BY <1>2, <1>3, <1>4, <2>2, <3>5, <3>6, PlainIsGood DEF Plain, Owned, Frames
    <2>3. QED
        BY <1>5, <2>1, <2>2
<1>7. QED
    BY <1>1, <1>2, <1>3, <1>5, <1>6, StepKeeps

(* Its stop() raised: it takes the runtime down.                             *)
LEMMA OffKillHolds ==
    ASSUME IInv, NEW c \in Callers, OffKill(c)
    PROVE  IInv'
<1>1. PICK k \in CallStates : k = call[c]
    BY DEF IInv, TypeOK
<1>2. Fits(k) /\ InsideOf(k) /\ Knows(c, k) /\ k.pc = "off.kill"
    BY <1>1 DEF IInv, CallInv, Knows, OffKill, At
<1>3. Harmless /\ HostOK'
    BY KillIsHarmless DEF OffKill
<1>4. Knows(c, k)'
    BY <1>2, <1>3, KnowledgeKeeps
<1>5. PICK r : Become(c, r) /\ r = Goto(k, "off.find")
    BY <1>1 DEF OffKill
<1>6. Good(c, k, r)
    <2>1. CASE r = Goto(k, "off.find")
        <3>1. /\ r \in CallStates /\ r.pc = "off.find" /\ r.stack = k.stack
              /\ r.inside = k.inside /\ r.err = k.err /\ r.pass = k.pass
              /\ r.pid = k.pid /\ r.awaits = k.awaits
            BY <1>2, <1>3, <1>4, <2>1 DEF CallStates, Labels, Goto
        <3>2. Fits(r) /\ \A f \in Frames : On(r, f) <=> On(k, f)
            BY <1>2, <3>1, SameStack DEF Fits, Beneath, Labels, StopUsers, OffUsers, Starters
        <3>3. InsideOf(r)
            BY <1>2, <1>3, <1>4, <2>1, <3>1, <3>2 DEF InsideOf, InsideLabels, OutsideLabels,
                   InsideFrames, Frames, Revoking
        <3>4. QED
            BY <1>2, <1>3, <1>4, <2>1, <3>1, <3>2, <3>3, PlainIsGood DEF Plain, Owned, Frames
    <2>2. QED
        BY <1>5, <2>1
<1>7. QED
    BY <1>1, <1>2, <1>3, <1>5, <1>6, StepKeeps

(* _ensure_runtime takes a runtime that lives, or starts one.                *)
LEMMA EnsureHolds ==
    ASSUME IInv, NEW c \in Callers, Ensure(c)
    PROVE  IInv'
<1>1. PICK k \in CallStates : k = call[c]
    BY DEF IInv, TypeOK
<1>2. Fits(k) /\ InsideOf(k) /\ Knows(c, k) /\ k.pc = "ensure"
    BY <1>1 DEF IInv, CallInv, Knows, Ensure, At
<1>3. Harmless /\ HostOK'
    BY NothingIsHarmless DEF Ensure
<1>4. Knows(c, k)'
    BY <1>2, <1>3, KnowledgeKeeps
<1>5. PICK r :
          /\ Become(c, r)
          /\ \/ r = Goto(k, "preempt")
             \/ r = Push(k, "start.old", "start")
             \/ r = Raise(k)
    BY <1>1 DEF Ensure
<1>6. Good(c, k, r)
    <2>1. CASE r = Goto(k, "preempt")
        <3>1. /\ r \in CallStates /\ r.pc = "preempt" /\ r.stack = k.stack
              /\ r.inside = k.inside /\ r.err = k.err /\ r.pass = k.pass
              /\ r.pid = k.pid /\ r.awaits = k.awaits
            BY <1>2, <1>3, <1>4, <2>1 DEF CallStates, Labels, Goto
        <3>2. Fits(r) /\ \A f \in Frames : On(r, f) <=> On(k, f)
            BY <1>2, <3>1, SameStack DEF Fits, Beneath, Labels, StopUsers, OffUsers, Starters
        <3>3. InsideOf(r)
            BY <1>2, <1>3, <1>4, <2>1, <3>1, <3>2 DEF InsideOf, InsideLabels, OutsideLabels,
                   InsideFrames, Frames, Revoking
        <3>4. QED
            BY <1>2, <1>3, <1>4, <2>1, <3>1, <3>2, <3>3, PlainIsGood DEF Plain, Owned, Frames
    <2>2. CASE r = Push(k, "start.old", "start")
        <3>1. Top(k.stack) \in Under["start"] /\ "start" \in Beneath["start.old"]
              /\ "start.old" \in Labels /\ "start" \in Frames
            BY <1>2 DEF Fits, Beneath, Under, Labels, Frames, StopUsers, OffUsers, Starters
        <3>2. /\ r \in CallStates /\ r.pc = "start.old" /\ Fits(r) /\ r.stack[1] = "start"
              /\ r.inside = k.inside /\ r.err = k.err /\ r.pass = k.pass
              /\ r.pid = k.pid /\ r.awaits = k.awaits
              /\ \A g \in Frames : On(r, g) <=> g = "start" \/ On(k, g)
            BY <1>2, <2>2, <3>1, PushIs
        <3>3. InsideOf(r)
            BY <1>2, <1>3, <1>4, <2>2, <3>2 DEF InsideOf, InsideLabels, OutsideLabels,
                   InsideFrames, Frames, Revoking
        <3>4. QED
            BY <1>2, <1>3, <1>4, <2>2, <3>2, <3>3, PlainIsGood DEF Plain, Owned, Frames
    <2>3. CASE r = Raise(k)
        BY <1>2, <1>3, <1>4, <2>3, RaiseIsHandled, RaisedIsGood DEF Revoking
    <2>4. QED
        BY <1>5, <2>1, <2>2, <2>3
<1>7. QED
    BY <1>1, <1>2, <1>3, <1>5, <1>6, StepKeeps

(* A motion preempts with a stop() of its own.                               *)
LEMMA PreemptHolds ==
    ASSUME IInv, NEW c \in Callers, Preempt(c)
    PROVE  IInv'
<1>1. PICK k \in CallStates : k = call[c]
    BY DEF IInv, TypeOK
<1>2. Fits(k) /\ InsideOf(k) /\ Knows(c, k) /\ k.pc = "preempt"
    BY <1>1 DEF IInv, CallInv, Knows, Preempt, At
<1>3. Harmless /\ HostOK'
    BY NothingIsHarmless DEF Preempt
<1>4. Knows(c, k)'
    BY <1>2, <1>3, KnowledgeKeeps
<1>5. PICK r : Become(c, r) /\ r = Stopping(k)
    BY <1>1 DEF Preempt
<1>6. Good(c, k, r)
    <2>1. CASE r = Stopping(k)
        <3>1. /\ r \in CallStates /\ r.pc = "stop.first" /\ r.stack = k.stack
              /\ r.inside = k.inside /\ r.err = FALSE /\ r.pass = FALSE
              /\ r.pid = k.pid /\ r.awaits = k.awaits
            BY <1>2, <1>3, <1>4, <2>1 DEF CallStates, Labels, Stopping
        <3>2. Fits(r) /\ \A f \in Frames : On(r, f) <=> On(k, f)
            BY <1>2, <3>1, SameStack DEF Fits, Beneath, Labels, StopUsers, OffUsers, Starters
        <3>3. InsideOf(r)
            BY <1>2, <1>3, <1>4, <2>1, <3>1, <3>2 DEF InsideOf, InsideLabels, OutsideLabels,
                   InsideFrames, Frames, Revoking
        <3>4. QED
            BY <1>2, <1>3, <1>4, <2>1, <3>1, <3>2, <3>3, PlainIsGood DEF Plain, Owned, Frames
    <2>2. QED
        BY <1>5, <2>1
<1>7. QED
    BY <1>1, <1>2, <1>3, <1>5, <1>6, StepKeeps

(* move() takes the transition.                                              *)
LEMMA MoveLockHolds ==
    ASSUME IInv, NEW c \in Callers, MoveLock(c)
    PROVE  IInv'
<1>1. PICK k \in CallStates : k = call[c]
    BY DEF IInv, TypeOK
<1>2. Fits(k) /\ InsideOf(k) /\ Knows(c, k) /\ k.pc = "move.lock"
    BY <1>1 DEF IInv, CallInv, Knows, MoveLock, At
<1>3. Harmless /\ HostOK'
    BY NothingIsHarmless DEF MoveLock
<1>4. Knows(c, k)'
    BY <1>2, <1>3, KnowledgeKeeps
<1>5. PICK r :
          /\ Become(c, r)
          /\ \/ r = Inside(Push(k, "ensure", "motion")) /\ MayEnter(c)
             \/ r = Raise(k)
    BY <1>1 DEF MoveLock
<1>6. Good(c, k, r)
    <2>1. CASE r = Inside(Push(k, "ensure", "motion")) /\ MayEnter(c)
        <3>1. Top(k.stack) \in Under["motion"] /\ "motion" \in Beneath["ensure"]
              /\ "ensure" \in Labels /\ "motion" \in Frames
            BY <1>2 DEF Fits, Beneath, Under, Labels, Frames, StopUsers, OffUsers, Starters
        <3>2. PICK q \in CallStates :
              /\ q = Push(k, "ensure", "motion") /\ q.pc = "ensure" /\ Fits(q) /\ q.stack[1] = "motion"
              /\ q.inside = k.inside /\ q.err = k.err /\ q.pass = k.pass
              /\ q.pid = k.pid /\ q.awaits = k.awaits
              /\ \A g \in Frames : On(q, g) <=> g = "motion" \/ On(k, g)
            BY <1>2, <3>1, PushIs
        <3>3. /\ r \in CallStates /\ r.pc = "ensure" /\ r.stack = q.stack
               /\ r.inside = TRUE /\ r.err = q.err /\ r.pass = q.pass
               /\ r.pid = q.pid /\ r.awaits = q.awaits
            BY <1>2, <1>3, <1>4, <2>1, <3>2 DEF CallStates, Labels, Inside
        <3>4. Fits(r) /\ \A g \in Frames : On(r, g) <=> On(q, g)
            BY <3>2, <3>3, SameStack DEF Fits
        <3>5. /\ r \in CallStates /\ r.pc = "ensure" /\ Fits(r) /\ r.stack[1] = "motion"
              /\ r.inside = TRUE /\ r.err = k.err /\ r.pass = k.pass
              /\ r.pid = k.pid /\ r.awaits = k.awaits
              /\ \A g \in Frames : On(r, g) <=> g = "motion" \/ On(k, g)
            BY <3>2, <3>3, <3>4
        <3>6. InsideOf(r)
            BY <1>2, <1>3, <1>4, <2>1, <3>5 DEF InsideOf, InsideLabels, OutsideLabels,
                   InsideFrames, Frames, Revoking
        <3>7. QED
            BY <1>2, <1>3, <1>4, <2>1, <3>5, <3>6, PlainIsGood DEF Plain, Owned, Frames
    <2>2. CASE r = Raise(k)
        BY <1>2, <1>3, <1>4, <2>2, RaiseIsHandled, RaisedIsGood DEF Revoking
    <2>3. QED
        BY <1>5, <2>1, <2>2
<1>7. QED
    BY <1>1, <1>2, <1>3, <1>5, <1>6, StepKeeps

(* A test sequence takes it.                                                 *)
LEMMA SeqLockHolds ==
    ASSUME IInv, NEW c \in Callers, SeqLock(c)
    PROVE  IInv'
<1>1. PICK k \in CallStates : k = call[c]
    BY DEF IInv, TypeOK
<1>2. Fits(k) /\ InsideOf(k) /\ Knows(c, k) /\ k.pc = "seq.lock"
    BY <1>1 DEF IInv, CallInv, Knows, SeqLock, At
<1>3. Harmless /\ HostOK'
    BY NothingIsHarmless DEF SeqLock
<1>4. Knows(c, k)'
    BY <1>2, <1>3, KnowledgeKeeps
<1>5. PICK r : Become(c, r) /\ r = Inside(Push(k, "ensure", "test")) /\ MayEnter(c)
    BY <1>1 DEF SeqLock
<1>6. Good(c, k, r)
    <2>1. CASE r = Inside(Push(k, "ensure", "test")) /\ MayEnter(c)
        <3>1. Top(k.stack) \in Under["test"] /\ "test" \in Beneath["ensure"]
              /\ "ensure" \in Labels /\ "test" \in Frames
            BY <1>2 DEF Fits, Beneath, Under, Labels, Frames, StopUsers, OffUsers, Starters
        <3>2. PICK q \in CallStates :
              /\ q = Push(k, "ensure", "test") /\ q.pc = "ensure" /\ Fits(q) /\ q.stack[1] = "test"
              /\ q.inside = k.inside /\ q.err = k.err /\ q.pass = k.pass
              /\ q.pid = k.pid /\ q.awaits = k.awaits
              /\ \A g \in Frames : On(q, g) <=> g = "test" \/ On(k, g)
            BY <1>2, <3>1, PushIs
        <3>3. /\ r \in CallStates /\ r.pc = "ensure" /\ r.stack = q.stack
               /\ r.inside = TRUE /\ r.err = q.err /\ r.pass = q.pass
               /\ r.pid = q.pid /\ r.awaits = q.awaits
            BY <1>2, <1>3, <1>4, <2>1, <3>2 DEF CallStates, Labels, Inside
        <3>4. Fits(r) /\ \A g \in Frames : On(r, g) <=> On(q, g)
            BY <3>2, <3>3, SameStack DEF Fits
        <3>5. /\ r \in CallStates /\ r.pc = "ensure" /\ Fits(r) /\ r.stack[1] = "test"
              /\ r.inside = TRUE /\ r.err = k.err /\ r.pass = k.pass
              /\ r.pid = k.pid /\ r.awaits = k.awaits
              /\ \A g \in Frames : On(r, g) <=> g = "test" \/ On(k, g)
            BY <3>2, <3>3, <3>4
        <3>6. InsideOf(r)
            BY <1>2, <1>3, <1>4, <2>1, <3>5 DEF InsideOf, InsideLabels, OutsideLabels,
                   InsideFrames, Frames, Revoking
        <3>7. QED
            BY <1>2, <1>3, <1>4, <2>1, <3>5, <3>6, PlainIsGood DEF Plain, Owned, Frames
    <2>2. QED
        BY <1>5, <2>1
<1>7. QED
    BY <1>1, <1>2, <1>3, <1>5, <1>6, StepKeeps

(* A sequence watches its producer, outside.                                 *)
LEMMA SeqWatchHolds ==
    ASSUME IInv, NEW c \in Callers, SeqWatch(c)
    PROVE  IInv'
<1>1. PICK k \in CallStates : k = call[c]
    BY DEF IInv, TypeOK
<1>2. Fits(k) /\ InsideOf(k) /\ Knows(c, k) /\ k.pc = "seq.watch"
    BY <1>1 DEF IInv, CallInv, Knows, SeqWatch, At
<1>3. Harmless /\ HostOK'
    BY NothingIsHarmless DEF SeqWatch
<1>4. Knows(c, k)'
    BY <1>2, <1>3, KnowledgeKeeps
<1>5. PICK r :
          /\ Become(c, r)
          /\ \/ r = Return(k)
             \/ r = Raise(k)
    BY <1>1 DEF SeqWatch
<1>6. Good(c, k, r)
    <2>1. CASE r = Return(k)
        BY <1>2, <1>3, <1>4, <2>1, ReturnedIsGood DEF Returning
    <2>2. CASE r = Raise(k)
        BY <1>2, <1>3, <1>4, <2>2, RaiseIsHandled, RaisedIsGood DEF Revoking
    <2>3. QED
        BY <1>5, <2>1, <2>2
<1>7. QED
    BY <1>1, <1>2, <1>3, <1>5, <1>6, StepKeeps

-----------------------------------------------------------------------------
(* The mark of a sequence is removed.                                        *)
LEMMA RevokeMarkerHolds ==
    ASSUME IInv, NEW c \in Callers, RevokeMarker(c)
    PROVE  IInv'
<1>1. PICK k \in CallStates : k = call[c]
    BY DEF IInv, TypeOK
<1>2. Fits(k) /\ InsideOf(k) /\ Knows(c, k) /\ k.pc = "rev.marker"
    BY <1>1 DEF IInv, CallInv, Knows, RevokeMarker, At
<1>3. Harmless /\ HostOK'
    BY OtherIsHarmless, RuntimePidIs DEF IInv, TypeOK, session, motion, RevokeMarker
<1>4. Knows(c, k)'
    BY <1>2, <1>3, KnowledgeKeeps
<1>5. PICK r : Become(c, r) /\ r = Goto(k, "rev.term") /\ marker' = Nobody
    BY <1>1 DEF RevokeMarker
<1>6. Good(c, k, r)
    <2>1. CASE r = Goto(k, "rev.term") /\ marker' = Nobody
        <3>1. /\ r \in CallStates /\ r.pc = "rev.term" /\ r.stack = k.stack
              /\ r.inside = k.inside /\ r.err = k.err /\ r.pass = k.pass
              /\ r.pid = k.pid /\ r.awaits = k.awaits
            BY <1>2, <1>3, <1>4, <2>1 DEF CallStates, Labels, Goto
        <3>2. Fits(r) /\ \A f \in Frames : On(r, f) <=> On(k, f)
            BY <1>2, <3>1, SameStack DEF Fits, Beneath, Labels, StopUsers, OffUsers, Starters
        <3>3. InsideOf(r)
            BY <1>2, <1>3, <1>4, <2>1, <3>1, <3>2 DEF InsideOf, InsideLabels, OutsideLabels,
                   InsideFrames, Frames, Revoking
        <3>4. QED
            BY <1>2, <1>3, <1>4, <2>1, <3>1, <3>2, <3>3, PlainIsGood DEF Plain, Owned, Frames
    <2>2. QED
        BY <1>5, <2>1
<1>7. QED
    BY <1>1, <1>2, <1>3, <1>5, <1>6, StepKeeps

(* A producer that was sent SIGTERM is gone, or did not go in time.          *)
LEMMA RevokeGoneHolds ==
    ASSUME IInv, NEW c \in Callers, RevokeGone(c)
    PROVE  IInv'
<1>1. PICK k \in CallStates : k = call[c]
    BY DEF IInv, TypeOK
<1>2. Fits(k) /\ InsideOf(k) /\ Knows(c, k) /\ k.pc = "rev.gone"
    BY <1>1 DEF IInv, CallInv, Knows, RevokeGone, At
<1>3. Harmless /\ HostOK'
    BY NothingIsHarmless DEF RevokeGone
<1>4. Knows(c, k)'
    BY <1>2, <1>3, KnowledgeKeeps
<1>5. Alive(k.awaits) => (\A p \in Producers : Alive(p) => p \in term)'
    BY <1>1, <1>2 DEF IInv, OneProducer, Knows, ProducerOf, RevokeGone, motion, Alive
<1>6. PICK r :
          /\ Become(c, r)
          /\ \/ r = Raise(k) /\ Alive(k.awaits)
             \/ r = [k EXCEPT !.pc = "rev.term", !.awaits = Nobody]
    BY <1>1 DEF RevokeGone
<1>7. Good(c, k, r)
    <2>1. CASE r = Raise(k) /\ Alive(k.awaits)
        BY <1>2, <1>3, <1>4, <1>5, <2>1, RaiseIsHandled, RaisedIsGood DEF Revoking
    <2>2. CASE r = [k EXCEPT !.pc = "rev.term", !.awaits = Nobody]
        <3>1. /\ r \in CallStates /\ r.pc = "rev.term" /\ r.stack = k.stack
              /\ r.inside = k.inside /\ r.err = k.err /\ r.pass = k.pass
              /\ r.pid = k.pid /\ r.awaits = Nobody
            BY <1>2, <1>3, <1>4, <1>5, <2>2 DEF CallStates, Labels
        <3>2. Fits(r) /\ \A f \in Frames : On(r, f) <=> On(k, f)
            BY <1>2, <3>1, SameStack DEF Fits, Beneath, Labels, StopUsers, OffUsers, Starters
        <3>3. InsideOf(r)
            BY <1>2, <1>3, <1>4, <1>5, <2>2, <3>1, <3>2 DEF InsideOf, InsideLabels,
                   OutsideLabels, InsideFrames, Frames, Revoking
        <3>4. QED
            BY <1>2, <1>3, <1>4, <1>5, <2>2, <3>1, <3>2, <3>3, PlainIsGood DEF Plain, Owned,
                   Frames, Knows, MarkerOf
    <2>3. QED
        BY <1>6, <2>1, <2>2
<1>8. QED
    BY <1>1, <1>2, <1>3, <1>6, <1>7, StepKeeps

(* runtime_off() looks for the runtime and sends it SIGTERM.                 *)
LEMMA OffFindHolds ==
    ASSUME IInv, NEW c \in Callers, OffFind(c)
    PROVE  IInv'
<1>1. PICK k \in CallStates : k = call[c]
    BY DEF IInv, TypeOK
<1>2. Fits(k) /\ InsideOf(k) /\ Knows(c, k) /\ k.pc = "off.find"
    BY <1>1 DEF IInv, CallInv, Knows, OffFind, At
<1>3. Harmless /\ HostOK'
    BY OtherIsHarmless, RuntimePidIs DEF IInv, TypeOK, session, motion, OffFind
<1>4. Knows(c, k)'
    BY <1>2, <1>3, KnowledgeKeeps
<1>5. PICK r :
          /\ Become(c, r)
          /\ \/ r = Return(k)
             \/ (\E p \in Runtimes : r = [k EXCEPT !.pc = "off.gone", !.awaits = p])
             \/ r = Raise(k)
    BY <1>1, RuntimePidIs DEF OffFind
<1>6. Good(c, k, r)
    <2>1. CASE r = Return(k)
        BY <1>2, <1>3, <1>4, <2>1, ReturnedIsGood DEF Returning
    <2>2. CASE (\E p \in Runtimes : r = [k EXCEPT !.pc = "off.gone", !.awaits = p])
        <3>1. /\ r \in CallStates /\ r.pc = "off.gone" /\ r.stack = k.stack
              /\ r.inside = k.inside /\ r.err = k.err /\ r.pass = k.pass
              /\ r.pid = k.pid
            BY <1>2, <1>3, <1>4, <2>2 DEF CallStates, Labels
        <3>2. Fits(r) /\ \A f \in Frames : On(r, f) <=> On(k, f)
            BY <1>2, <3>1, SameStack DEF Fits, Beneath, Labels, StopUsers, OffUsers, Starters
        <3>3. InsideOf(r)
            BY <1>2, <1>3, <1>4, <2>2, <3>1, <3>2 DEF InsideOf, InsideLabels, OutsideLabels,
                   InsideFrames, Frames, Revoking
        <3>4. QED
            BY <1>2, <1>3, <1>4, <2>2, <3>1, <3>2, <3>3, PlainIsGood DEF Plain, Owned, Frames
    <2>3. CASE r = Raise(k)
        BY <1>2, <1>3, <1>4, <2>3, RaiseIsHandled, RaisedIsGood DEF Revoking
    <2>4. QED
        BY <1>5, <2>1, <2>2, <2>3
<1>7. QED
    BY <1>1, <1>2, <1>3, <1>5, <1>6, StepKeeps

(* It waits for the runtime to end.                                          *)
LEMMA OffGoneHolds ==
    ASSUME IInv, NEW c \in Callers, OffGone(c)
    PROVE  IInv'
<1>1. PICK k \in CallStates : k = call[c]
    BY DEF IInv, TypeOK
<1>2. Fits(k) /\ InsideOf(k) /\ Knows(c, k) /\ k.pc = "off.gone"
    BY <1>1 DEF IInv, CallInv, Knows, OffGone, At
<1>3. Harmless /\ HostOK'
    BY OtherIsHarmless, RuntimePidIs DEF IInv, TypeOK, session, motion, OffGone
<1>4. Knows(c, k)'
    BY <1>2, <1>3, KnowledgeKeeps
<1>5. PICK r :
          /\ Become(c, r)
          /\ \/ r = Raise(k)
             \/ r = Return(k)
    BY <1>1 DEF OffGone
<1>6. Good(c, k, r)
    <2>1. CASE r = Raise(k)
        BY <1>2, <1>3, <1>4, <2>1, RaiseIsHandled, RaisedIsGood DEF Revoking
    <2>2. CASE r = Return(k)
        BY <1>2, <1>3, <1>4, <2>2, ReturnedIsGood DEF Returning
    <2>3. QED
        BY <1>5, <2>1, <2>2
<1>7. QED
    BY <1>1, <1>2, <1>3, <1>5, <1>6, StepKeeps

(* A motion that was allowed ends its call, one that was not is stopped.     *)
LEMMA MoveAllowHolds ==
    ASSUME IInv, NEW c \in Callers, MoveAllow(c)
    PROVE  IInv'
<1>1. PICK k \in CallStates : k = call[c]
    BY DEF IInv, TypeOK
<1>2. Fits(k) /\ InsideOf(k) /\ Knows(c, k) /\ k.pc = "move.allow"
    BY <1>1 DEF IInv, CallInv, Knows, MoveAllow, At
<1>3. Harmless /\ HostOK'
    BY NothingIsHarmless DEF MoveAllow
<1>4. Knows(c, k)'
    BY <1>2, <1>3, KnowledgeKeeps
<1>5. PICK r :
          /\ Become(c, r)
          /\ \/ r = Return(k)
             \/ r = CallStop(k, "undo")
    BY <1>1 DEF MoveAllow
<1>6. Good(c, k, r)
    <2>1. CASE r = Return(k)
        BY <1>2, <1>3, <1>4, <2>1, ReturnedIsGood DEF Returning
    <2>2. CASE r = CallStop(k, "undo")
        <3>1. Top(k.stack) \in Under["undo"] /\ "undo" \in Beneath["stop.first"]
              /\ "stop.first" \in Labels /\ "undo" \in Frames
            BY <1>2 DEF Fits, Beneath, Under, Labels, Frames, StopUsers, OffUsers, Starters
        <3>2. PICK q \in CallStates :
              /\ q = Push(k, "stop.first", "undo") /\ q.pc = "stop.first" /\ Fits(q) /\ q.stack[1] = "undo"
              /\ q.inside = k.inside /\ q.err = k.err /\ q.pass = k.pass
              /\ q.pid = k.pid /\ q.awaits = k.awaits
              /\ \A g \in Frames : On(q, g) <=> g = "undo" \/ On(k, g)
            BY <1>2, <3>1, PushIs
        <3>3. /\ r \in CallStates /\ r.pc = "stop.first" /\ r.stack = q.stack
               /\ r.inside = q.inside /\ r.err = FALSE /\ r.pass = FALSE
               /\ r.pid = q.pid /\ r.awaits = q.awaits
            BY <1>2, <1>3, <1>4, <2>2, <3>2 DEF CallStates, Labels, CallStop, Stopping
        <3>4. Fits(r) /\ \A g \in Frames : On(r, g) <=> On(q, g)
            BY <3>2, <3>3, SameStack DEF Fits
        <3>5. /\ r \in CallStates /\ r.pc = "stop.first" /\ Fits(r) /\ r.stack[1] = "undo"
              /\ r.inside = k.inside /\ r.err = FALSE /\ r.pass = FALSE
              /\ r.pid = k.pid /\ r.awaits = k.awaits
              /\ \A g \in Frames : On(r, g) <=> g = "undo" \/ On(k, g)
            BY <3>2, <3>3, <3>4
        <3>6. InsideOf(r)
            BY <1>2, <1>3, <1>4, <2>2, <3>5 DEF InsideOf, InsideLabels, OutsideLabels,
                   InsideFrames, Frames, Revoking
        <3>7. QED
            BY <1>2, <1>3, <1>4, <2>2, <3>5, <3>6, PlainIsGood DEF Plain, Owned, Frames
    <2>3. QED
        BY <1>5, <2>1, <2>2
<1>7. QED
    BY <1>1, <1>2, <1>3, <1>5, <1>6, StepKeeps

(* A motion needs a runtime, again after its preemption.                     *)
LEMMA MovePrepareHolds ==
    ASSUME IInv, NEW c \in Callers, MovePrepare(c)
    PROVE  IInv'
<1>1. PICK k \in CallStates : k = call[c]
    BY DEF IInv, TypeOK
<1>2. Fits(k) /\ InsideOf(k) /\ Knows(c, k) /\ k.pc = "move.prepare"
    BY <1>1 DEF IInv, CallInv, Knows, MovePrepare, At
<1>3. Harmless /\ HostOK'
    BY NothingIsHarmless DEF MovePrepare
<1>4. Knows(c, k)'
    BY <1>2, <1>3, KnowledgeKeeps
<1>5. ~On(k, "old")
    BY <1>2, AboveOld DEF Revoking
<1>6. PICK r :
          /\ Become(c, r)
          /\ \/ (\E p \in Runtimes : r = [k EXCEPT !.pc = "move.admit", !.pid = p])
             \/ r = Goto(k, "move.spawn")
             \/ r = Push(k, "start.old", "slot")
             \/ r = Raise(k)
    BY <1>1, RuntimePidIs DEF MovePrepare
<1>7. Good(c, k, r)
    <2>1. CASE (\E p \in Runtimes : r = [k EXCEPT !.pc = "move.admit", !.pid = p])
        <3>1. /\ r \in CallStates /\ r.pc = "move.admit" /\ r.stack = k.stack
              /\ r.inside = k.inside /\ r.err = k.err /\ r.pass = k.pass /\ r.awaits = k.awaits
            BY <1>2, <1>3, <1>4, <1>5, <2>1 DEF CallStates, Labels
        <3>2. Fits(r) /\ \A f \in Frames : On(r, f) <=> On(k, f)
            BY <1>2, <3>1, SameStack DEF Fits, Beneath, Labels, StopUsers, OffUsers, Starters
        <3>3. InsideOf(r)
            BY <1>2, <1>3, <1>4, <1>5, <2>1, <3>1, <3>2 DEF InsideOf, InsideLabels,
                   OutsideLabels, InsideFrames, Frames, Revoking
        <3>4. ProducerOf(c, r)'
            BY <1>2, <1>3, <1>4, <1>5, <2>1, <3>1, <3>2 DEF Knows, ProducerOf, NoProducer,
                   Frames
        <3>5. MarkerOf(c, r)'
            BY <1>2, <1>3, <1>4, <1>5, <2>1, <3>1, <3>2 DEF Knows, MarkerOf, Owned, Frames,
                   Revoking, InsideOf
        <3>6. RuntimeOf(r)'
            BY <1>2, <1>3, <1>4, <1>5, <2>1, <3>1, <3>2 DEF Knows, RuntimeOf, Frames, Processes
        <3>7. QED
            BY <1>2, <1>3, <1>4, <1>5, <2>1, <3>1, <3>2, <3>3, <3>4, <3>5, <3>6 DEF Good, Knows
    <2>2. CASE r = Goto(k, "move.spawn")
        <3>1. /\ r \in CallStates /\ r.pc = "move.spawn" /\ r.stack = k.stack
              /\ r.inside = k.inside /\ r.err = k.err /\ r.pass = k.pass
              /\ r.pid = k.pid /\ r.awaits = k.awaits
            BY <1>2, <1>3, <1>4, <1>5, <2>2 DEF CallStates, Labels, Goto
        <3>2. Fits(r) /\ \A f \in Frames : On(r, f) <=> On(k, f)
            BY <1>2, <3>1, SameStack DEF Fits, Beneath, Labels, StopUsers, OffUsers, Starters
        <3>3. InsideOf(r)
            BY <1>2, <1>3, <1>4, <1>5, <2>2, <3>1, <3>2 DEF InsideOf, InsideLabels,
                   OutsideLabels, InsideFrames, Frames, Revoking
        <3>4. ProducerOf(c, r)'
            BY <1>2, <1>3, <1>4, <1>5, <2>2, <3>1, <3>2 DEF Knows, ProducerOf, NoProducer,
                   Frames
        <3>5. MarkerOf(c, r)'
            BY <1>2, <1>3, <1>4, <1>5, <2>2, <3>1, <3>2 DEF Knows, MarkerOf, Owned, Frames,
                   Revoking, InsideOf
        <3>6. RuntimeOf(r)'
            BY <1>2, <1>3, <1>4, <1>5, <2>2, <3>1, <3>2 DEF Knows, RuntimeOf, Frames, Processes
        <3>7. QED
            BY <1>2, <1>3, <1>4, <1>5, <2>2, <3>1, <3>2, <3>3, <3>4, <3>5, <3>6 DEF Good, Knows
    <2>3. CASE r = Push(k, "start.old", "slot")
        <3>1. Top(k.stack) \in Under["slot"] /\ "slot" \in Beneath["start.old"]
              /\ "start.old" \in Labels /\ "slot" \in Frames
            BY <1>2 DEF Fits, Beneath, Under, Labels, Frames, StopUsers, OffUsers, Starters
        <3>2. /\ r \in CallStates /\ r.pc = "start.old" /\ Fits(r) /\ r.stack[1] = "slot"
              /\ r.inside = k.inside /\ r.err = k.err /\ r.pass = k.pass
              /\ r.pid = k.pid /\ r.awaits = k.awaits
              /\ \A g \in Frames : On(r, g) <=> g = "slot" \/ On(k, g)
            BY <1>2, <2>3, <3>1, PushIs
        <3>3. InsideOf(r)
            BY <1>2, <1>3, <1>4, <1>5, <2>3, <3>2 DEF InsideOf, InsideLabels, OutsideLabels,
                   InsideFrames, Frames, Revoking
        <3>4. ProducerOf(c, r)'
            BY <1>2, <1>3, <1>4, <1>5, <2>3, <3>2 DEF Knows, ProducerOf, NoProducer, Frames
        <3>5. MarkerOf(c, r)'
            BY <1>2, <1>3, <1>4, <1>5, <2>3, <3>2 DEF Knows, MarkerOf, Owned, Frames, Revoking,
                   InsideOf
        <3>6. RuntimeOf(r)'
            BY <1>2, <1>3, <1>4, <1>5, <2>3, <3>2 DEF Knows, RuntimeOf, Frames, Processes
        <3>7. QED
            BY <1>2, <1>3, <1>4, <1>5, <2>3, <3>2, <3>3, <3>4, <3>5, <3>6 DEF Good, Knows
    <2>4. CASE r = Raise(k)
        BY <1>2, <1>3, <1>4, <1>5, <2>4, RaiseIsHandled, RaisedIsGood DEF Revoking
    <2>5. QED
        BY <1>6, <2>1, <2>2, <2>3, <2>4
<1>8. QED
    BY <1>1, <1>2, <1>3, <1>6, <1>7, StepKeeps

(* A sequence may have to restart the runtime before it marks itself.        *)
LEMMA SeqPrepareHolds ==
    ASSUME IInv, NEW c \in Callers, SeqPrepare(c)
    PROVE  IInv'
<1>1. PICK k \in CallStates : k = call[c]
    BY DEF IInv, TypeOK
<1>2. Fits(k) /\ InsideOf(k) /\ Knows(c, k) /\ k.pc = "seq.mark"
    BY <1>1 DEF IInv, CallInv, Knows, SeqPrepare, At
<1>3. Harmless /\ HostOK'
    BY NothingIsHarmless DEF SeqPrepare
<1>4. Knows(c, k)'
    BY <1>2, <1>3, KnowledgeKeeps
<1>5. ~On(k, "old")
    BY <1>2, AboveOld DEF Revoking
<1>6. PICK r : Become(c, r) /\ (r = Push(k, "start.old", "rearm") \/ r = Raise(k))
    BY <1>1 DEF SeqPrepare
<1>7. Good(c, k, r)
    <2>1. CASE r = Push(k, "start.old", "rearm")
        <3>1. Top(k.stack) \in Under["rearm"] /\ "rearm" \in Beneath["start.old"]
              /\ "start.old" \in Labels /\ "rearm" \in Frames
            BY <1>2 DEF Fits, Beneath, Under, Labels, Frames, StopUsers, OffUsers, Starters
        <3>2. /\ r \in CallStates /\ r.pc = "start.old" /\ Fits(r) /\ r.stack[1] = "rearm"
              /\ r.inside = k.inside /\ r.err = k.err /\ r.pass = k.pass
              /\ r.pid = k.pid /\ r.awaits = k.awaits
              /\ \A g \in Frames : On(r, g) <=> g = "rearm" \/ On(k, g)
            BY <1>2, <2>1, <3>1, PushIs
        <3>3. InsideOf(r)
            BY <1>2, <1>3, <1>4, <1>5, <2>1, <3>2 DEF InsideOf, InsideLabels, OutsideLabels,
                   InsideFrames, Frames, Revoking
        <3>4. ProducerOf(c, r)'
            BY <1>2, <1>3, <1>4, <1>5, <2>1, <3>2 DEF Knows, ProducerOf, NoProducer, Frames
        <3>5. MarkerOf(c, r)'
            BY <1>2, <1>3, <1>4, <1>5, <2>1, <3>2 DEF Knows, MarkerOf, Owned, Frames, Revoking,
                   InsideOf
        <3>6. RuntimeOf(r)'
            BY <1>2, <1>3, <1>4, <1>5, <2>1, <3>2 DEF Knows, RuntimeOf, Frames, Processes
        <3>7. QED
            BY <1>2, <1>3, <1>4, <1>5, <2>1, <3>2, <3>3, <3>4, <3>5, <3>6 DEF Good, Knows
    <2>2. CASE r = Raise(k)
        BY <1>2, <1>3, <1>4, <1>5, <2>2, RaiseIsHandled, RaisedIsGood DEF Revoking
    <2>3. QED
        BY <1>6, <2>1, <2>2
<1>8. QED
    BY <1>1, <1>2, <1>3, <1>6, <1>7, StepKeeps

(* A motion is admitted into the producers' slot, or the budget is spent.    *)
LEMMA MoveAdmitHolds ==
    ASSUME IInv, NEW c \in Callers, MoveAdmit(c)
    PROVE  IInv'
<1>1. PICK k \in CallStates : k = call[c]
    BY DEF IInv, TypeOK
<1>2. Fits(k) /\ InsideOf(k) /\ Knows(c, k) /\ k.pc = "move.admit"
    BY <1>1 DEF IInv, CallInv, Knows, MoveAdmit, At
<1>3. Harmless /\ HostOK'
    BY NothingIsHarmless DEF MoveAdmit
<1>4. Knows(c, k)'
    BY <1>2, <1>3, KnowledgeKeeps
<1>5. ~On(k, "old")
    BY <1>2, AboveOld DEF Revoking
<1>6. PICK r :
          /\ Become(c, r)
          /\ \/ r = [k EXCEPT !.pc = "move.spawn", !.pid = Nobody]
             \/ r = Raise(k)
    BY <1>1 DEF MoveAdmit
<1>7. Good(c, k, r)
    <2>1. CASE r = [k EXCEPT !.pc = "move.spawn", !.pid = Nobody]
        <3>1. /\ r \in CallStates /\ r.pc = "move.spawn" /\ r.stack = k.stack
              /\ r.inside = k.inside /\ r.err = k.err /\ r.pass = k.pass
              /\ r.pid = Nobody /\ r.awaits = k.awaits
            BY <1>2, <1>3, <1>4, <1>5, <2>1 DEF CallStates, Labels
        <3>2. Fits(r) /\ \A f \in Frames : On(r, f) <=> On(k, f)
            BY <1>2, <3>1, SameStack DEF Fits, Beneath, Labels, StopUsers, OffUsers, Starters
        <3>3. InsideOf(r)
            BY <1>2, <1>3, <1>4, <1>5, <2>1, <3>1, <3>2 DEF InsideOf, InsideLabels,
                   OutsideLabels, InsideFrames, Frames, Revoking
        <3>4. ProducerOf(c, r)'
            BY <1>2, <1>3, <1>4, <1>5, <2>1, <3>1, <3>2 DEF Knows, ProducerOf, NoProducer,
                   Frames
        <3>5. MarkerOf(c, r)'
            BY <1>2, <1>3, <1>4, <1>5, <2>1, <3>1, <3>2 DEF Knows, MarkerOf, Owned, Frames,
                   Revoking, InsideOf
        <3>6. RuntimeOf(r)'
            BY <1>2, <1>3, <1>4, <1>5, <2>1, <3>1, <3>2 DEF Knows, RuntimeOf, Frames, Processes
        <3>7. QED
            BY <1>2, <1>3, <1>4, <1>5, <2>1, <3>1, <3>2, <3>3, <3>4, <3>5, <3>6 DEF Good, Knows
    <2>2. CASE r = Raise(k)
        BY <1>2, <1>3, <1>4, <1>5, <2>2, RaiseIsHandled, RaisedIsGood DEF Revoking
    <2>3. QED
        BY <1>6, <2>1, <2>2
<1>8. QED
    BY <1>1, <1>2, <1>3, <1>6, <1>7, StepKeeps

(* The next phase of a sequence, inside, if it still owns the mark.          *)
LEMMA SeqPhaseHolds ==
    ASSUME IInv, NEW c \in Callers, SeqPhase(c)
    PROVE  IInv'
<1>1. PICK k \in CallStates : k = call[c]
    BY DEF IInv, TypeOK
<1>2. Fits(k) /\ InsideOf(k) /\ Knows(c, k) /\ k.pc = "seq.phase"
    BY <1>1 DEF IInv, CallInv, Knows, SeqPhase, At
<1>3. Harmless /\ HostOK' /\ (PublishStop => mail' = "STOP")
    BY PublicationIsHarmless DEF SeqPhase
<1>4. Knows(c, k)'
    BY <1>2, <1>3, KnowledgeKeeps
<1>5. PICK r :
          /\ Become(c, r)
          /\ \/ r = Inside(Push(k, "seq.spawn", "phase")) /\ MayEnter(c) /\ marker' = c
             \/ r = [k EXCEPT !.pc = "seq.clean", !.err = TRUE]
    BY <1>1 DEF SeqPhase, OwnsPhase
<1>6. Good(c, k, r)
    <2>1. CASE r = Inside(Push(k, "seq.spawn", "phase")) /\ MayEnter(c) /\ marker' = c
        <3>1. Top(k.stack) \in Under["phase"] /\ "phase" \in Beneath["seq.spawn"]
              /\ "seq.spawn" \in Labels /\ "phase" \in Frames
            BY <1>2 DEF Fits, Beneath, Under, Labels, Frames, StopUsers, OffUsers, Starters
        <3>2. PICK q \in CallStates :
              /\ q = Push(k, "seq.spawn", "phase") /\ q.pc = "seq.spawn" /\ Fits(q) /\ q.stack[1] = "phase"
              /\ q.inside = k.inside /\ q.err = k.err /\ q.pass = k.pass
              /\ q.pid = k.pid /\ q.awaits = k.awaits
              /\ \A g \in Frames : On(q, g) <=> g = "phase" \/ On(k, g)
            BY <1>2, <3>1, PushIs
        <3>3. /\ r \in CallStates /\ r.pc = "seq.spawn" /\ r.stack = q.stack
               /\ r.inside = TRUE /\ r.err = q.err /\ r.pass = q.pass
               /\ r.pid = q.pid /\ r.awaits = q.awaits
            BY <1>2, <1>3, <1>4, <2>1, <3>2 DEF CallStates, Labels, Inside
        <3>4. Fits(r) /\ \A g \in Frames : On(r, g) <=> On(q, g)
            BY <3>2, <3>3, SameStack DEF Fits
        <3>5. /\ r \in CallStates /\ r.pc = "seq.spawn" /\ Fits(r) /\ r.stack[1] = "phase"
              /\ r.inside = TRUE /\ r.err = k.err /\ r.pass = k.pass
              /\ r.pid = k.pid /\ r.awaits = k.awaits
              /\ \A g \in Frames : On(r, g) <=> g = "phase" \/ On(k, g)
            BY <3>2, <3>3, <3>4
        <3>6. InsideOf(r)
            BY <1>2, <1>3, <1>4, <2>1, <3>5 DEF InsideOf, InsideLabels, OutsideLabels,
                   InsideFrames, Frames, Revoking
        <3>7. ProducerOf(c, r)'
            BY <1>2, <1>3, <1>4, <2>1, <3>5 DEF Knows, ProducerOf, NoProducer, Frames
        <3>8. MarkerOf(c, r)'
            BY <1>2, <1>3, <1>4, <2>1, <3>5 DEF Knows, MarkerOf, Owned, Frames, Revoking,
                   InsideOf
        <3>9. RuntimeOf(r)'
            BY <1>2, <1>3, <1>4, <2>1, <3>5 DEF Knows, RuntimeOf, Frames, Processes
        <3>10. QED
            BY <1>2, <1>3, <1>4, <2>1, <3>5, <3>6, <3>7, <3>8, <3>9 DEF Good, Knows
    <2>2. CASE r = [k EXCEPT !.pc = "seq.clean", !.err = TRUE]
        <3>1. /\ r \in CallStates /\ r.pc = "seq.clean" /\ r.stack = k.stack
              /\ r.inside = k.inside /\ r.err = TRUE /\ r.pass = k.pass
              /\ r.pid = k.pid /\ r.awaits = k.awaits
            BY <1>2, <1>3, <1>4, <2>2 DEF CallStates, Labels
        <3>2. Fits(r) /\ \A f \in Frames : On(r, f) <=> On(k, f)
            BY <1>2, <3>1, SameStack DEF Fits, Beneath, Labels, StopUsers, OffUsers, Starters
        <3>3. InsideOf(r)
            BY <1>2, <1>3, <1>4, <2>2, <3>1, <3>2 DEF InsideOf, InsideLabels, OutsideLabels,
                   InsideFrames, Frames, Revoking
        <3>4. QED
            BY <1>2, <1>3, <1>4, <2>2, <3>1, <3>2, <3>3, PlainIsGood DEF Plain, Owned, Frames
    <2>3. QED
        BY <1>5, <2>1, <2>2
<1>7. QED
    BY <1>1, <1>2, <1>3, <1>5, <1>6, StepKeeps

-----------------------------------------------------------------------------
(* A living producer is sent SIGTERM.                                        *)
LEMMA RevokeTermHolds ==
    ASSUME IInv, NEW c \in Callers, RevokeTerm(c)
    PROVE  IInv'
<1>1. PICK k \in CallStates : k = call[c]
    BY DEF IInv, TypeOK
<1>2. Fits(k) /\ InsideOf(k) /\ Knows(c, k) /\ k.pc = "rev.term"
    BY <1>1 DEF IInv, CallInv, Knows, RevokeTerm, At
<1>3. Harmless /\ HostOK'
    BY OtherIsHarmless, RuntimePidIs DEF IInv, TypeOK, session, motion, RevokeTerm
<1>4. Knows(c, k)'
    BY <1>2, <1>3, KnowledgeKeeps
<1>5. \A p \in Producers : Alive(p)' <=> Alive(p)
    BY DEF RevokeTerm, motion, Alive
<1>6. PICK r :
          /\ Become(c, r)
          /\ \/ (\E p \in Producers : r = [k EXCEPT !.pc = "rev.gone", !.awaits = p] /\ Alive(p)' /\ p \in term')
             \/ r = Return(k) /\ NoProducer'
    <2>1. \/ (\E p \in Producers : Become(c, [k EXCEPT !.pc = "rev.gone", !.awaits = p]) /\ Alive(p)' /\ p \in term')
          \/ Become(c, Return(k)) /\ NoProducer'
        BY <1>1, <1>2, <1>3, <1>4, <1>5 DEF RevokeTerm, NoProducer, NoProducer
    <2>2. QED
        BY <2>1
<1>7. Good(c, k, r)
    <2>1. CASE (\E p \in Producers : r = [k EXCEPT !.pc = "rev.gone", !.awaits = p] /\ Alive(p)' /\ p \in term')
        <3>1. /\ r \in CallStates /\ r.pc = "rev.gone" /\ r.stack = k.stack
              /\ r.inside = k.inside /\ r.err = k.err /\ r.pass = k.pass
              /\ r.pid = k.pid
              /\ r.awaits \in Producers /\ producer'[r.awaits] # "NONE" /\ r.awaits \in term'
            BY <1>2, <1>3, <1>4, <1>5, <2>1 DEF CallStates, Labels, Alive
        <3>2. Fits(r) /\ \A f \in Frames : On(r, f) <=> On(k, f)
            BY <1>2, <3>1, SameStack DEF Fits, Beneath, Labels, StopUsers, OffUsers, Starters
        <3>3. InsideOf(r)
            BY <1>2, <1>3, <1>4, <1>5, <2>1, <3>1, <3>2 DEF InsideOf, InsideLabels,
                   OutsideLabels, InsideFrames, Frames, Revoking
        <3>4. ProducerOf(c, r)'
            BY <1>2, <1>3, <1>4, <1>5, <2>1, <3>1, <3>2 DEF Knows, ProducerOf, NoProducer,
                   Frames
        <3>5. MarkerOf(c, r)'
            BY <1>2, <1>3, <1>4, <1>5, <2>1, <3>1, <3>2 DEF Knows, MarkerOf, Owned, Frames,
                   Revoking, InsideOf
        <3>6. RuntimeOf(r)'
            BY <1>2, <1>3, <1>4, <1>5, <2>1, <3>1, <3>2 DEF Knows, RuntimeOf, Frames, Processes
        <3>7. QED
            BY <1>2, <1>3, <1>4, <1>5, <2>1, <3>1, <3>2, <3>3, <3>4, <3>5, <3>6 DEF Good, Knows
    <2>2. CASE r = Return(k) /\ NoProducer'
        BY <1>2, <1>3, <1>4, <1>5, <2>2, ReturnedIsGood DEF Returning
    <2>3. QED
        BY <1>6, <2>1, <2>2
<1>8. QED
    BY <1>1, <1>2, <1>3, <1>6, <1>7, StepKeeps

(* start_runtime() takes down what is left of an old runtime.                *)
LEMMA StartOldHolds ==
    ASSUME IInv, NEW c \in Callers, StartOld(c)
    PROVE  IInv'
<1>1. PICK k \in CallStates : k = call[c]
    BY DEF IInv, TypeOK
<1>2. Fits(k) /\ InsideOf(k) /\ Knows(c, k) /\ k.pc = "start.old"
    BY <1>1 DEF IInv, CallInv, Knows, StartOld, At
<1>3. Harmless /\ HostOK'
    BY NothingIsHarmless DEF StartOld
<1>4. Knows(c, k)'
    BY <1>2, <1>3, KnowledgeKeeps
<1>5. abandoned = {} => (RuntimePid = {} => Processes = {}) /\ \A r \in Runtimes : runtime[r] # "SPAWNED"
    BY <1>1, <1>2, NobodyBoots DEF InsideOf, InsideLabels
<1>6. abandoned = {} => \A p \in RuntimePid : \A r \in Processes : r = p
    BY <1>1, <1>2, NobodyBoots DEF InsideOf, InsideLabels
<1>7. abandoned' = abandoned /\ Processes' = Processes /\ runtime' = runtime
    BY DEF StartOld, session, Processes
<1>8. \A p \in RuntimePid : p \in Runtimes
    BY RuntimePidIs
<1>9. PICK r :
          /\ Become(c, r)
          /\ \/ r = Push(k, "rev.marker", "none") /\ RuntimePid = {}
             \/ (\E p \in RuntimePid : r = [Push(k, "off.first", "old") EXCEPT !.pid = p])
             \/ r = Raise(k)
    BY <1>1, RuntimePidIs DEF StartOld
<1>10. Good(c, k, r)
    <2>1. CASE r = Push(k, "rev.marker", "none") /\ RuntimePid = {}
        <3>1. Top(k.stack) \in Under["none"] /\ "none" \in Beneath["rev.marker"]
              /\ "rev.marker" \in Labels /\ "none" \in Frames
            BY <1>2 DEF Fits, Beneath, Under, Labels, Frames, StopUsers, OffUsers, Starters
        <3>2. /\ r \in CallStates /\ r.pc = "rev.marker" /\ Fits(r) /\ r.stack[1] = "none"
              /\ r.inside = k.inside /\ r.err = k.err /\ r.pass = k.pass
              /\ r.pid = k.pid /\ r.awaits = k.awaits
              /\ \A g \in Frames : On(r, g) <=> g = "none" \/ On(k, g)
            BY <1>2, <2>1, <3>1, PushIs
        <3>3. InsideOf(r)
            BY <1>2, <1>3, <1>4, <1>5, <1>6, <1>7, <1>8, <2>1, <3>2 DEF InsideOf, InsideLabels,
                   OutsideLabels, InsideFrames, Frames, Revoking
        <3>4. ProducerOf(c, r)'
            BY <1>2, <1>3, <1>4, <1>5, <1>6, <1>7, <1>8, <2>1, <3>2 DEF Knows, ProducerOf,
                   NoProducer, Frames
        <3>5. MarkerOf(c, r)'
            BY <1>2, <1>3, <1>4, <1>5, <1>6, <1>7, <1>8, <2>1, <3>2 DEF Knows, MarkerOf, Owned,
                   Frames, Revoking, InsideOf
        <3>6. RuntimeOf(r)'
            BY <1>2, <1>3, <1>4, <1>5, <1>6, <1>7, <1>8, <2>1, <3>2 DEF Knows, RuntimeOf,
                   Frames, Processes
        <3>7. QED
            BY <1>2, <1>3, <1>4, <1>5, <1>6, <1>7, <1>8, <2>1, <3>2, <3>3, <3>4, <3>5, <3>6
               DEF Good, Knows
    <2>2. CASE (\E p \in RuntimePid : r = [Push(k, "off.first", "old") EXCEPT !.pid = p])
        <3>1. Top(k.stack) \in Under["old"] /\ "old" \in Beneath["off.first"]
              /\ "off.first" \in Labels /\ "old" \in Frames
            BY <1>2 DEF Fits, Beneath, Under, Labels, Frames, StopUsers, OffUsers, Starters
        <3>2. PICK q \in CallStates :
              /\ q = Push(k, "off.first", "old") /\ q.pc = "off.first" /\ Fits(q) /\ q.stack[1] = "old"
              /\ q.inside = k.inside /\ q.err = k.err /\ q.pass = k.pass
              /\ q.pid = k.pid /\ q.awaits = k.awaits
              /\ \A g \in Frames : On(q, g) <=> g = "old" \/ On(k, g)
            BY <1>2, <3>1, PushIs
        <3>3. /\ r \in CallStates /\ r.pc = "off.first" /\ r.stack = q.stack
               /\ r.inside = q.inside /\ r.err = q.err /\ r.pass = q.pass /\ r.awaits = q.awaits
              /\ r.pid \in RuntimePid
            BY <1>2, <1>3, <1>4, <1>5, <1>6, <1>7, <1>8, <2>2, <3>2 DEF CallStates, Labels
        <3>4. Fits(r) /\ \A g \in Frames : On(r, g) <=> On(q, g)
            BY <3>2, <3>3, SameStack DEF Fits
        <3>5. /\ r \in CallStates /\ r.pc = "off.first" /\ Fits(r) /\ r.stack[1] = "old"
              /\ r.inside = k.inside /\ r.err = k.err /\ r.pass = k.pass /\ r.awaits = k.awaits
              /\ r.pid \in RuntimePid
              /\ \A g \in Frames : On(r, g) <=> g = "old" \/ On(k, g)
            BY <3>2, <3>3, <3>4
        <3>6. InsideOf(r)
            BY <1>2, <1>3, <1>4, <1>5, <1>6, <1>7, <1>8, <2>2, <3>5 DEF InsideOf, InsideLabels,
                   OutsideLabels, InsideFrames, Frames, Revoking
        <3>7. ProducerOf(c, r)'
            BY <1>2, <1>3, <1>4, <1>5, <1>6, <1>7, <1>8, <2>2, <3>5 DEF Knows, ProducerOf,
                   NoProducer, Frames
        <3>8. MarkerOf(c, r)'
            BY <1>2, <1>3, <1>4, <1>5, <1>6, <1>7, <1>8, <2>2, <3>5 DEF Knows, MarkerOf, Owned,
                   Frames, Revoking, InsideOf
        <3>9. RuntimeOf(r)'
            BY <1>2, <1>3, <1>4, <1>5, <1>6, <1>7, <1>8, <2>2, <3>5 DEF Knows, RuntimeOf,
                   Frames, Processes
        <3>10. QED
            BY <1>2, <1>3, <1>4, <1>5, <1>6, <1>7, <1>8, <2>2, <3>5, <3>6, <3>7, <3>8, <3>9
               DEF Good, Knows
    <2>3. CASE r = Raise(k)
        BY <1>2, <1>3, <1>4, <1>5, <1>6, <1>7, <1>8, <2>3, RaiseIsHandled, RaisedIsGood
           DEF Revoking
    <2>4. QED
        BY <1>9, <2>1, <2>2, <2>3
<1>11. QED
    BY <1>1, <1>2, <1>3, <1>9, <1>10, StepKeeps

(* The runtime it has just looked for is the only one there can be.          *)
LEMMA StartCheckHolds ==
    ASSUME IInv, NEW c \in Callers, StartCheck(c)
    PROVE  IInv'
<1>1. PICK k \in CallStates : k = call[c]
    BY DEF IInv, TypeOK
<1>2. Fits(k) /\ InsideOf(k) /\ Knows(c, k) /\ k.pc = "start.check"
    BY <1>1 DEF IInv, CallInv, Knows, StartCheck, At
<1>3. Harmless /\ HostOK'
    BY OtherIsHarmless DEF IInv, TypeOK, session, motion, StartCheck
<1>4. Knows(c, k)'
    BY <1>2, <1>3, KnowledgeKeeps
<1>5. ~On(k, "old")
    BY <1>2, AboveOld DEF Revoking
<1>6. abandoned = {} /\ ~Visible(k.pid) => Processes = {}
    BY <1>2 DEF IInv, TypeOK, Knows, RuntimeOf, Processes, Visible
<1>7. abandoned' = abandoned /\ Processes' = Processes
    BY DEF StartCheck, Processes
<1>8. PICK r :
          /\ Become(c, r)
          /\ \/ r = Raise(k)
             \/ r = [k EXCEPT !.pc = "start.spawn", !.pid = Nobody] /\ ~Visible(k.pid)
    <2>1. \/ Become(c, Raise(k))
          \/ Become(c, [k EXCEPT !.pc = "start.spawn", !.pid = Nobody]) /\ ~Visible(k.pid)
        BY <1>1, <1>2, <1>3, <1>4, <1>5, <1>6, <1>7 DEF StartCheck, StillRunning
    <2>2. QED
        BY <2>1
<1>9. Good(c, k, r)
    <2>1. CASE r = Raise(k)
        BY <1>2, <1>3, <1>4, <1>5, <1>6, <1>7, <2>1, RaiseIsHandled, RaisedIsGood DEF Revoking
    <2>2. CASE r = [k EXCEPT !.pc = "start.spawn", !.pid = Nobody] /\ ~Visible(k.pid)
        <3>1. /\ r \in CallStates /\ r.pc = "start.spawn" /\ r.stack = k.stack
              /\ r.inside = k.inside /\ r.err = k.err /\ r.pass = k.pass
              /\ r.pid = Nobody /\ r.awaits = k.awaits
            BY <1>2, <1>3, <1>4, <1>5, <1>6, <1>7, <2>2 DEF CallStates, Labels
        <3>2. Fits(r) /\ \A f \in Frames : On(r, f) <=> On(k, f)
            BY <1>2, <3>1, SameStack DEF Fits, Beneath, Labels, StopUsers, OffUsers, Starters
        <3>3. InsideOf(r)
            BY <1>2, <1>3, <1>4, <1>5, <1>6, <1>7, <2>2, <3>1, <3>2 DEF InsideOf, InsideLabels,
                   OutsideLabels, InsideFrames, Frames, Revoking
        <3>4. ProducerOf(c, r)'
            BY <1>2, <1>3, <1>4, <1>5, <1>6, <1>7, <2>2, <3>1, <3>2 DEF Knows, ProducerOf,
                   NoProducer, Frames
        <3>5. MarkerOf(c, r)'
            BY <1>2, <1>3, <1>4, <1>5, <1>6, <1>7, <2>2, <3>1, <3>2 DEF Knows, MarkerOf, Owned,
                   Frames, Revoking, InsideOf
        <3>6. RuntimeOf(r)'
            BY <1>2, <1>3, <1>4, <1>5, <1>6, <1>7, <2>2, <3>1, <3>2 DEF Knows, RuntimeOf,
                   Frames, Processes
        <3>7. QED
            BY <1>2, <1>3, <1>4, <1>5, <1>6, <1>7, <2>2, <3>1, <3>2, <3>3, <3>4, <3>5, <3>6
               DEF Good, Knows
    <2>3. QED
        BY <1>8, <2>1, <2>2
<1>10. QED
    BY <1>1, <1>2, <1>3, <1>8, <1>9, StepKeeps

(* The supervisor's runtime shows itself in the pid file, or its starter gives up. *)
LEMMA StartPidHolds ==
    ASSUME IInv, NEW c \in Callers, StartPid(c)
    PROVE  IInv'
<1>1. PICK k \in CallStates : k = call[c]
    BY DEF IInv, TypeOK
<1>2. Fits(k) /\ InsideOf(k) /\ Knows(c, k) /\ k.pc = "start.pid"
    BY <1>1 DEF IInv, CallInv, Knows, StartPid, At
<1>3. abandoned' \subseteq Runtimes /\ abandoned \subseteq abandoned'
    BY DEF IInv, TypeOK, StartPid, Unborn
<1>4. abandoned' # {} \/ runtime'[k.awaits] # "SPAWNED"
    <2>1. CASE Recorded /\ abandoned' = abandoned
        BY <1>1, <1>2, <2>1 DEF IInv, TypeOK, Knows, RuntimeOf, OneProcess, Processes, Recorded,
               Visible, StartPid
    <2>2. CASE abandoned' = abandoned \cup Unborn({call[c].awaits})
        BY <1>1, <1>2, <2>2 DEF Knows, RuntimeOf, Unborn, StartPid
    <2>3. QED
        BY <2>1, <2>2 DEF StartPid
<1>5. Harmless /\ HostOK'
    BY <1>2, <1>3, <1>4, OtherIsHarmless, OperatorAssumption DEF IInv, TypeOK, motion, StartPid
<1>6. Knows(c, k)'
    BY <1>2, <1>5, KnowledgeKeeps
<1>7. ~On(k, "old")
    BY <1>2, AboveOld DEF Revoking
<1>8. PICK r :
          /\ Become(c, r)
          /\ \/ (\E p \in Runtimes : r = [k EXCEPT !.pc = "start.ready", !.pid = p, !.awaits = Nobody])
             \/ r = Raise(k)
    <2>1. Recorded => pidFile \in Runtimes
        BY DEF IInv, TypeOK, Recorded
    <2>2. QED
        BY <1>1, <2>1 DEF StartPid
<1>9. Good(c, k, r)
    <2>1. CASE (\E p \in Runtimes : r = [k EXCEPT !.pc = "start.ready", !.pid = p, !.awaits = Nobody])
        <3>1. /\ r \in CallStates /\ r.pc = "start.ready" /\ r.stack = k.stack
              /\ r.inside = k.inside /\ r.err = k.err /\ r.pass = k.pass /\ r.awaits = Nobody
            BY <1>2, <1>3, <1>4, <1>5, <1>6, <1>7, <2>1 DEF CallStates, Labels
        <3>2. Fits(r) /\ \A f \in Frames : On(r, f) <=> On(k, f)
            BY <1>2, <3>1, SameStack DEF Fits, Beneath, Labels, StopUsers, OffUsers, Starters
        <3>3. InsideOf(r)
            BY <1>2, <1>3, <1>4, <1>5, <1>6, <1>7, <2>1, <3>1, <3>2 DEF InsideOf, InsideLabels,
                   OutsideLabels, InsideFrames, Frames, Revoking
        <3>4. QED
            BY <1>2, <1>3, <1>4, <1>5, <1>6, <1>7, <2>1, <3>1, <3>2, <3>3, PlainIsGood
               DEF Plain, Owned, Frames
    <2>2. CASE r = Raise(k)
        BY <1>2, <1>3, <1>4, <1>5, <1>6, <1>7, <2>2, RaiseIsHandled, RaisedIsGood DEF Revoking
    <2>3. QED
        BY <1>8, <2>1, <2>2
<1>10. QED
    BY <1>1, <1>2, <1>5, <1>8, <1>9, StepKeeps, <1>2, <1>3, <1>4, <1>5, <1>6, <1>7

(* It is ready, or it is taken down.                                         *)
LEMMA StartReadyHolds ==
    ASSUME IInv, NEW c \in Callers, StartReady(c)
    PROVE  IInv'
<1>1. PICK k \in CallStates : k = call[c]
    BY DEF IInv, TypeOK
<1>2. Fits(k) /\ InsideOf(k) /\ Knows(c, k) /\ k.pc = "start.ready"
    BY <1>1 DEF IInv, CallInv, Knows, StartReady, At
<1>3. Harmless /\ HostOK'
    BY NothingIsHarmless DEF StartReady
<1>4. Knows(c, k)'
    BY <1>2, <1>3, KnowledgeKeeps
<1>5. ~On(k, "old")
    BY <1>2, AboveOld DEF Revoking
<1>6. PICK r :
          /\ Become(c, r)
          /\ \/ r = [Return(k) EXCEPT !.pid = Nobody]
             \/ r = [Push(k, "off.first", "unready") EXCEPT !.pid = Nobody]
    BY <1>1 DEF StartReady
<1>7. Good(c, k, r)
    <2>1. CASE r = [Return(k) EXCEPT !.pid = Nobody]
        <3>1. Good(c, k, Return(k)) /\ Return(k).pc # "start.pid"
            BY <1>2, <1>3, <1>4, <1>5, ReturnedIsGood DEF Returning
        <3>2. k.stack # <<>> /\ k.stack[1] \in {"start", "slot", "rearm"}
            BY <1>2, CallFields DEF Fits, Top, Beneath, Labels, Starters, Bottom
        <3>3. ~On(Return(k), "old") /\ Return(k).pc # "start.check"
            BY <1>2, <1>3, <1>4, <1>5, <3>2, ReturnResumes, OverIs DEF Resumed, Lands, OnReturn,
                   Frames
        <3>4. QED
            BY <2>1, <3>1, <3>3, PidIsFree
    <2>2. CASE r = [Push(k, "off.first", "unready") EXCEPT !.pid = Nobody]
        <3>1. Top(k.stack) \in Under["unready"] /\ "unready" \in Beneath["off.first"]
              /\ "off.first" \in Labels /\ "unready" \in Frames
            BY <1>2 DEF Fits, Beneath, Under, Labels, Frames, StopUsers, OffUsers, Starters
        <3>2. PICK q \in CallStates :
              /\ q = Push(k, "off.first", "unready") /\ q.pc = "off.first" /\ Fits(q) /\ q.stack[1] = "unready"
              /\ q.inside = k.inside /\ q.err = k.err /\ q.pass = k.pass
              /\ q.pid = k.pid /\ q.awaits = k.awaits
              /\ \A g \in Frames : On(q, g) <=> g = "unready" \/ On(k, g)
            BY <1>2, <3>1, PushIs
        <3>3. /\ r \in CallStates /\ r.pc = "off.first" /\ r.stack = q.stack
               /\ r.inside = q.inside /\ r.err = q.err /\ r.pass = q.pass
               /\ r.pid = Nobody /\ r.awaits = q.awaits
            BY <1>2, <1>3, <1>4, <1>5, <2>2, <3>2 DEF CallStates, Labels
        <3>4. Fits(r) /\ \A g \in Frames : On(r, g) <=> On(q, g)
            BY <3>2, <3>3, SameStack DEF Fits
        <3>5. /\ r \in CallStates /\ r.pc = "off.first" /\ Fits(r) /\ r.stack[1] = "unready"
              /\ r.inside = k.inside /\ r.err = k.err /\ r.pass = k.pass
              /\ r.pid = Nobody /\ r.awaits = k.awaits
              /\ \A g \in Frames : On(r, g) <=> g = "unready" \/ On(k, g)
            BY <3>2, <3>3, <3>4
        <3>6. InsideOf(r)
            BY <1>2, <1>3, <1>4, <1>5, <2>2, <3>5 DEF InsideOf, InsideLabels, OutsideLabels,
                   InsideFrames, Frames, Revoking
        <3>7. QED
            BY <1>2, <1>3, <1>4, <1>5, <2>2, <3>5, <3>6, PlainIsGood DEF Plain, Owned, Frames
    <2>3. QED
        BY <1>6, <2>1, <2>2
<1>8. QED
    BY <1>1, <1>2, <1>3, <1>6, <1>7, StepKeeps

(* A phase is over: its producers are revoked, inside, if the sequence owns the mark. *)
LEMMA SeqCleanHolds ==
    ASSUME IInv, NEW c \in Callers, SeqClean(c)
    PROVE  IInv'
<1>1. PICK k \in CallStates : k = call[c]
    BY DEF IInv, TypeOK
<1>2. Fits(k) /\ InsideOf(k) /\ Knows(c, k) /\ k.pc = "seq.clean"
    BY <1>1 DEF IInv, CallInv, Knows, SeqClean, At
<1>3. Harmless /\ HostOK'
    BY NothingIsHarmless DEF SeqClean
<1>4. Knows(c, k)'
    BY <1>2, <1>3, KnowledgeKeeps
<1>5. marker' = marker /\ (marker = c => \A p \in Producers : Alive(p)' => spawner'[p] = c)
    BY OperatorAssumption DEF IInv, MarkedProducers, SeqClean, motion, Alive
<1>6. PICK r :
          /\ Become(c, r)
          /\ \/ r = Inside(Push(k, "rev.term", "clean")) /\ MayEnter(c) /\ marker = c
             \/ r = Goto(k, "seq.final") /\ marker # c
             \/ r = Goto(k, "seq.phase") /\ marker # c
    <2>1. \/ Become(c, Inside(Push(k, "rev.term", "clean"))) /\ MayEnter(c) /\ marker = c
          \/ Become(c, Goto(k, "seq.final")) /\ marker # c
          \/ Become(c, Goto(k, "seq.phase")) /\ marker # c
        BY <1>1, <1>2, <1>3, <1>4, <1>5 DEF SeqClean, Owns, AfterPhase
    <2>2. QED
        BY <2>1
<1>7. Good(c, k, r)
    <2>1. CASE r = Inside(Push(k, "rev.term", "clean")) /\ MayEnter(c) /\ marker = c
        <3>1. Top(k.stack) \in Under["clean"] /\ "clean" \in Beneath["rev.term"]
              /\ "rev.term" \in Labels /\ "clean" \in Frames
            BY <1>2 DEF Fits, Beneath, Under, Labels, Frames, StopUsers, OffUsers, Starters
        <3>2. PICK q \in CallStates :
              /\ q = Push(k, "rev.term", "clean") /\ q.pc = "rev.term" /\ Fits(q) /\ q.stack[1] = "clean"
              /\ q.inside = k.inside /\ q.err = k.err /\ q.pass = k.pass
              /\ q.pid = k.pid /\ q.awaits = k.awaits
              /\ \A g \in Frames : On(q, g) <=> g = "clean" \/ On(k, g)
            BY <1>2, <3>1, PushIs
        <3>3. /\ r \in CallStates /\ r.pc = "rev.term" /\ r.stack = q.stack
               /\ r.inside = TRUE /\ r.err = q.err /\ r.pass = q.pass
               /\ r.pid = q.pid /\ r.awaits = q.awaits
            BY <1>2, <1>3, <1>4, <1>5, <2>1, <3>2 DEF CallStates, Labels, Inside
        <3>4. Fits(r) /\ \A g \in Frames : On(r, g) <=> On(q, g)
            BY <3>2, <3>3, SameStack DEF Fits
        <3>5. /\ r \in CallStates /\ r.pc = "rev.term" /\ Fits(r) /\ r.stack[1] = "clean"
              /\ r.inside = TRUE /\ r.err = k.err /\ r.pass = k.pass
              /\ r.pid = k.pid /\ r.awaits = k.awaits
              /\ \A g \in Frames : On(r, g) <=> g = "clean" \/ On(k, g)
            BY <3>2, <3>3, <3>4
        <3>6. InsideOf(r)
            BY <1>2, <1>3, <1>4, <1>5, <2>1, <3>5 DEF InsideOf, InsideLabels, OutsideLabels,
                   InsideFrames, Frames, Revoking
        <3>7. ProducerOf(c, r)'
            BY <1>2, <1>3, <1>4, <1>5, <2>1, <3>5 DEF Knows, ProducerOf, NoProducer, Frames
        <3>8. MarkerOf(c, r)'
            BY <1>2, <1>3, <1>4, <1>5, <2>1, <3>5 DEF Knows, MarkerOf, Owned, Frames, Revoking,
                   InsideOf
        <3>9. RuntimeOf(r)'
            BY <1>2, <1>3, <1>4, <1>5, <2>1, <3>5 DEF Knows, RuntimeOf, Frames, Processes
        <3>10. QED
            BY <1>2, <1>3, <1>4, <1>5, <2>1, <3>5, <3>6, <3>7, <3>8, <3>9 DEF Good, Knows
    <2>2. CASE r = Goto(k, "seq.final") /\ marker # c
        <3>1. /\ r \in CallStates /\ r.pc = "seq.final" /\ r.stack = k.stack
              /\ r.inside = k.inside /\ r.err = k.err /\ r.pass = k.pass
              /\ r.pid = k.pid /\ r.awaits = k.awaits
            BY <1>2, <1>3, <1>4, <1>5, <2>2 DEF CallStates, Labels, Goto
        <3>2. Fits(r) /\ \A f \in Frames : On(r, f) <=> On(k, f)
            BY <1>2, <3>1, SameStack DEF Fits, Beneath, Labels, StopUsers, OffUsers, Starters
        <3>3. InsideOf(r)
            BY <1>2, <1>3, <1>4, <1>5, <2>2, <3>1, <3>2 DEF InsideOf, InsideLabels,
                   OutsideLabels, InsideFrames, Frames, Revoking
        <3>4. QED
            BY <1>2, <1>3, <1>4, <1>5, <2>2, <3>1, <3>2, <3>3, PlainIsGood DEF Plain, Owned,
                   Frames
    <2>3. CASE r = Goto(k, "seq.phase") /\ marker # c
        <3>1. /\ r \in CallStates /\ r.pc = "seq.phase" /\ r.stack = k.stack
              /\ r.inside = k.inside /\ r.err = k.err /\ r.pass = k.pass
              /\ r.pid = k.pid /\ r.awaits = k.awaits
            BY <1>2, <1>3, <1>4, <1>5, <2>3 DEF CallStates, Labels, Goto
        <3>2. Fits(r) /\ \A f \in Frames : On(r, f) <=> On(k, f)
            BY <1>2, <3>1, SameStack DEF Fits, Beneath, Labels, StopUsers, OffUsers, Starters
        <3>3. InsideOf(r)
            BY <1>2, <1>3, <1>4, <1>5, <2>3, <3>1, <3>2 DEF InsideOf, InsideLabels,
                   OutsideLabels, InsideFrames, Frames, Revoking
        <3>4. ProducerOf(c, r)'
            BY <1>2, <1>3, <1>4, <1>5, <2>3, <3>1, <3>2 DEF Knows, ProducerOf, NoProducer,
                   Frames
        <3>5. MarkerOf(c, r)'
            BY <1>2, <1>3, <1>4, <1>5, <2>3, <3>1, <3>2 DEF Knows, MarkerOf, Owned, Frames,
                   Revoking, InsideOf
        <3>6. RuntimeOf(r)'
            BY <1>2, <1>3, <1>4, <1>5, <2>3, <3>1, <3>2 DEF Knows, RuntimeOf, Frames, Processes
        <3>7. QED
            BY <1>2, <1>3, <1>4, <1>5, <2>3, <3>1, <3>2, <3>3, <3>4, <3>5, <3>6 DEF Good, Knows
    <2>4. QED
        BY <1>6, <2>1, <2>2, <2>3
<1>8. QED
    BY <1>1, <1>2, <1>3, <1>6, <1>7, StepKeeps

(* The zero of the motors at the end of a phase.                             *)
LEMMA SeqZeroHolds ==
    ASSUME IInv, NEW c \in Callers, SeqZero(c)
    PROVE  IInv'
<1>1. PICK k \in CallStates : k = call[c]
    BY DEF IInv, TypeOK
<1>2. Fits(k) /\ InsideOf(k) /\ Knows(c, k) /\ k.pc = "seq.zero"
    BY <1>1 DEF IInv, CallInv, Knows, SeqZero, At
<1>3. Harmless /\ HostOK' /\ (PublishStop => mail' = "STOP")
    BY PublicationIsHarmless DEF SeqZero
<1>4. Knows(c, k)'
    BY <1>2, <1>3, KnowledgeKeeps
<1>5. \A f \in InsideFrames : ~On(k, f)
    BY <1>2, OnlySequence DEF Beneath, Labels, InsideFrames, Frames
<1>6. PICK r :
          /\ Become(c, r)
          /\ \/ r = [k EXCEPT !.pc = "seq.final", !.inside = FALSE]
             \/ r = [k EXCEPT !.pc = "seq.phase", !.inside = FALSE] /\ ~k.err
    <2>1. \/ Become(c, [k EXCEPT !.pc = "seq.final", !.inside = FALSE])
          \/ Become(c, [k EXCEPT !.pc = "seq.phase", !.inside = FALSE]) /\ ~k.err
        BY <1>1, <1>2, <1>3, <1>4, <1>5 DEF SeqZero, AfterPhase
    <2>2. QED
        BY <2>1
<1>7. Good(c, k, r)
    <2>1. CASE r = [k EXCEPT !.pc = "seq.final", !.inside = FALSE]
        <3>1. /\ r \in CallStates /\ r.pc = "seq.final" /\ r.stack = k.stack
              /\ r.inside = FALSE /\ r.err = k.err /\ r.pass = k.pass
              /\ r.pid = k.pid /\ r.awaits = k.awaits
            BY <1>2, <1>3, <1>4, <1>5, <2>1 DEF CallStates, Labels
        <3>2. Fits(r) /\ \A f \in Frames : On(r, f) <=> On(k, f)
            BY <1>2, <3>1, SameStack DEF Fits, Beneath, Labels, StopUsers, OffUsers, Starters
        <3>3. InsideOf(r)
            BY <1>2, <1>3, <1>4, <1>5, <2>1, <3>1, <3>2 DEF InsideOf, InsideLabels,
                   OutsideLabels, InsideFrames, Frames, Revoking
        <3>4. QED
            BY <1>2, <1>3, <1>4, <1>5, <2>1, <3>1, <3>2, <3>3, PlainIsGood DEF Plain, Owned,
                   Frames
    <2>2. CASE r = [k EXCEPT !.pc = "seq.phase", !.inside = FALSE] /\ ~k.err
        <3>1. /\ r \in CallStates /\ r.pc = "seq.phase" /\ r.stack = k.stack
              /\ r.inside = FALSE /\ r.err = k.err /\ r.pass = k.pass
              /\ r.pid = k.pid /\ r.awaits = k.awaits
            BY <1>2, <1>3, <1>4, <1>5, <2>2 DEF CallStates, Labels
        <3>2. Fits(r) /\ \A f \in Frames : On(r, f) <=> On(k, f)
            BY <1>2, <3>1, SameStack DEF Fits, Beneath, Labels, StopUsers, OffUsers, Starters
        <3>3. InsideOf(r)
            BY <1>2, <1>3, <1>4, <1>5, <2>2, <3>1, <3>2 DEF InsideOf, InsideLabels,
                   OutsideLabels, InsideFrames, Frames, Revoking
        <3>4. ProducerOf(c, r)'
            BY <1>2, <1>3, <1>4, <1>5, <2>2, <3>1, <3>2 DEF Knows, ProducerOf, NoProducer,
                   Frames
        <3>5. MarkerOf(c, r)'
            BY <1>2, <1>3, <1>4, <1>5, <2>2, <3>1, <3>2 DEF Knows, MarkerOf, Owned, Frames,
                   Revoking, InsideOf
        <3>6. RuntimeOf(r)'
            BY <1>2, <1>3, <1>4, <1>5, <2>2, <3>1, <3>2 DEF Knows, RuntimeOf, Frames, Processes
        <3>7. QED
            BY <1>2, <1>3, <1>4, <1>5, <2>2, <3>1, <3>2, <3>3, <3>4, <3>5, <3>6 DEF Good, Knows
    <2>3. QED
        BY <1>6, <2>1, <2>2
<1>8. QED
    BY <1>1, <1>2, <1>3, <1>6, <1>7, StepKeeps

-----------------------------------------------------------------------------
(* Every step of a call keeps the invariant.                                 *)
LEMMA CallStepHolds ==
    ASSUME IInv, NEW c \in Callers, CallStep(c)
    PROVE  IInv'
<1>1. CASE StopFirst(c) \/ StopAgain(c) \/ StopRepeats(c) \/ StopCutShort(c)
    BY <1>1, StopFirstHolds, StopAgainHolds, StopRepeatsHolds, StopCutShortHolds
<1>2. CASE StopFails(c) \/ StopIdle(c) \/ RevokeMarker(c)
    BY <1>2, StopFailsHolds, StopIdleHolds, RevokeMarkerHolds
<1>3. CASE RevokeTerm(c) \/ RevokeGone(c) \/ OffFirst(c) \/ OffLock(c) \/ OffKill(c)
    BY <1>3, RevokeTermHolds, RevokeGoneHolds, OffFirstHolds, OffLockHolds, OffKillHolds
<1>4. CASE OffFind(c) \/ OffGone(c) \/ Ensure(c) \/ Preempt(c)
    BY <1>4, OffFindHolds, OffGoneHolds, EnsureHolds, PreemptHolds
<1>5. CASE StartOld(c) \/ StartCheck(c) \/ StartSpawn(c) \/ StartPid(c) \/ StartReady(c)
    BY <1>5, StartOldHolds, StartCheckHolds, StartSpawnHolds, StartPidHolds, StartReadyHolds
<1>6. CASE MoveLock(c) \/ MovePrepare(c) \/ MoveAdmit(c) \/ MoveSpawn(c) \/ MoveAllow(c)
    BY <1>6, MoveLockHolds, MovePrepareHolds, MoveAdmitHolds, MoveSpawnHolds, MoveAllowHolds
<1>7. CASE SeqLock(c) \/ SeqPrepare(c) \/ SeqMark(c) \/ SeqPhase(c) \/ SeqSpawn(c) \/ SeqWatch(c)
    BY <1>7, SeqLockHolds, SeqPrepareHolds, SeqMarkHolds, SeqPhaseHolds, SeqSpawnHolds, SeqWatchHolds
<1>8. CASE SeqClean(c) \/ SeqZero(c) \/ SeqFinal(c)
    BY <1>8, SeqCleanHolds, SeqZeroHolds, SeqFinalHolds
<1>9. CASE StopSucceeds(c)
    BY <1>9, StopSucceedsHolds
<1>10. QED
    BY <1>1, <1>2, <1>3, <1>4, <1>5, <1>6, <1>7, <1>8, <1>9 DEF CallStep

(* Every step keeps it.                                                      *)
LEMMA NextHolds == IInv /\ [Next]_vars => IInv'
<1> SUFFICES ASSUME IInv, [Next]_vars PROVE IInv'
    OBVIOUS
<1>1. ASSUME NEW c \in Callers, Begin(c) \/ CallStep(c) \/ Cancel(c) \/ Crash(c) PROVE IInv'
    BY <1>1, BeginHolds, CallStepHolds, CancelHolds, CrashHolds
<1>2. ASSUME NEW p \in Producers, Admit(p) \/ Heartbeat(p) \/ UnwindProducer(p) \/ EndProducer(p) PROVE IInv'
    BY <1>2, AdmitHolds, HeartbeatHolds, UnwindProducerHolds, EndProducerHolds
<1>3. ASSUME NEW r \in Runtimes, Supervise(r) \/ Record(r) \/ Ready(r) \/ Report(r) \/ EndRuntime(r) PROVE IInv'
    BY <1>3, RuntimeStepHolds
<1>4. CASE Finished \/ UNCHANGED vars
    BY <1>4, StutterHolds DEF Finished
<1>5. QED
    BY <1>1, <1>2, <1>3, <1>4 DEF Next

(* The invariant holds in every reachable state, for any number of callers and processes. *)
THEOREM OperatorInvariant == Spec => []IInv
<1>1. QED
    BY InitHolds, NextHolds, PTL DEF Spec

(* Every variable is well typed.                                             *)
THEOREM OperatorTypeCorrect == Spec => []TypeOK
<1>1. IInv => TypeOK
    BY DEF IInv
<1>2. QED
    BY <1>1, OperatorInvariant, PTL

(* When stop() has succeeded under the transition's lock no producer lives and the mailbox *)
(* holds a STOP.                                                             *)
THEOREM StoppedIsFinal == Spec => []StopIsFinal
<1>1. IInv => StopIsFinal
    BY DEF IInv, CallInv, StopIsFinal, At, InsideOf, ProducerOf, NoProducer
<1>2. QED
    BY <1>1, OperatorInvariant, PTL

(* Whatever a call runs into, it is not inside the transition where its method has ended *)
(* or waits for a phase.                                                     *)
THEOREM TransitionEnds == Spec => []TransitionIsLeft
<1>1. IInv => TransitionIsLeft
    BY DEF IInv, CallInv, OneInside, InsideOf, OutsideLabels, TransitionIsLeft
<1>2. QED
    BY <1>1, OperatorInvariant, PTL

(* Controllers start a runtime only where none lives: there are never two, unless a starter *)
(* gave up on its supervisor.                                                *)
THEOREM RuntimeIsAlone == Spec => []OneRuntime
<1>1. IInv => OneRuntime
    <2> SUFFICES ASSUME IInv, abandoned = {}
                 PROVE  /\ Cardinality(Processes) <= 1
                        /\ \A c \in Callers : At(c, "start.spawn") => Processes = {}
        BY DEF OneRuntime, Processes
    <2>1. Cardinality(Processes) <= 1
        <3>1. CASE Processes = {}
            BY <3>1, FS_EmptySet
        <3>2. ASSUME NEW r \in Processes
              PROVE  Cardinality(Processes) <= 1
            <4>1. Processes = {r}
                BY DEF IInv, OneProcess
            <4>2. QED
                BY <4>1, FS_Singleton
        <3>3. QED
            BY <3>1, <3>2
    <2>2. \A c \in Callers : At(c, "start.spawn") => Processes = {}
        BY DEF IInv, CallInv, RuntimeOf, At
    <2>3. QED
        BY <2>1, <2>2
<1>2. QED
    BY <1>1, OperatorInvariant, PTL

-----------------------------------------------------------------------------
(* A step is that of one call or of none.                                    *)
LEMMA CallStepIs ==
    ASSUME NEW c \in Callers, CallStep(c)
    PROVE  \E r : Become(c, r)
<1>1. CASE StopSucceeds(c)
    BY <1>1 DEF StopSucceeds
<1>2. CASE StopFirst(c) \/ StopAgain(c) \/ StopRepeats(c) \/ StopCutShort(c)
    BY <1>2 DEF StopFirst, StopAgain, StopRepeats, StopCutShort
<1>3. CASE StopFails(c) \/ StopIdle(c) \/ RevokeMarker(c)
    BY <1>3 DEF StopFails, StopIdle, RevokeMarker
<1>4. CASE RevokeTerm(c) \/ RevokeGone(c) \/ OffFirst(c) \/ OffLock(c) \/ OffKill(c)
    BY <1>4 DEF RevokeTerm, RevokeGone, OffFirst, OffLock, OffKill
<1>5. CASE OffFind(c) \/ OffGone(c) \/ Ensure(c) \/ Preempt(c)
    BY <1>5 DEF OffFind, OffGone, Ensure, Preempt
<1>6. CASE StartOld(c) \/ StartCheck(c) \/ StartSpawn(c) \/ StartPid(c) \/ StartReady(c)
    BY <1>6 DEF StartOld, StartCheck, StartSpawn, StartPid, StartReady
<1>7. CASE MoveLock(c) \/ MovePrepare(c) \/ MoveAdmit(c) \/ MoveSpawn(c) \/ MoveAllow(c)
    BY <1>7 DEF MoveLock, MovePrepare, MoveAdmit, MoveSpawn, MoveAllow
<1>8. CASE SeqLock(c) \/ SeqPrepare(c) \/ SeqMark(c) \/ SeqPhase(c) \/ SeqSpawn(c) \/ SeqWatch(c)
    BY <1>8 DEF SeqLock, SeqPrepare, SeqMark, SeqPhase, SeqSpawn, SeqWatch
<1>9. CASE SeqClean(c) \/ SeqZero(c) \/ SeqFinal(c)
    BY <1>9 DEF SeqClean, SeqZero, SeqFinal
<1>10. QED
    BY <1>1, <1>2, <1>3, <1>4, <1>5, <1>6, <1>7, <1>8, <1>9 DEF CallStep

(* A call changes by a step of its own.                                      *)
LEMMA OneCallSteps ==
    ASSUME IInv, Next, NEW c \in Callers, call'[c] # call[c]
    PROVE  Begin(c) \/ CallStep(c) \/ Cancel(c) \/ Crash(c)
<1>1. ASSUME NEW d \in Callers, Begin(d) \/ CallStep(d) \/ Cancel(d) \/ Crash(d)
      PROVE  d = c
    <2>1. \E r : Become(d, r)
        BY <1>1, CallStepIs DEF Begin, Cancel, Crash
    <2>2. QED
        BY <2>1 DEF IInv, TypeOK, Become
<1>2. ASSUME NEW p \in Producers, Admit(p) \/ Heartbeat(p) \/ UnwindProducer(p) \/ EndProducer(p)
      PROVE  FALSE
    BY <1>2 DEF Admit, Heartbeat, UnwindProducer, EndProducer, Ends
<1>3. ASSUME NEW r \in Runtimes, Supervise(r) \/ Record(r) \/ Ready(r) \/ Report(r) \/ EndRuntime(r)
      PROVE  FALSE
    BY <1>3 DEF Supervise, Record, Ready, Report, EndRuntime
<1>4. CASE Finished
    BY <1>4 DEF Finished, vars
<1>5. QED
    BY <1>1, <1>2, <1>3, <1>4 DEF Next

(* The four ways on from the lock of a stop().                               *)
LEMMA StopLockSteps ==
    ASSUME IInv, NEW c \in Callers, At(c, "stop.lock"), CallStep(c)
    PROVE  StopRepeats(c) \/ StopCutShort(c) \/ StopSucceeds(c) \/ StopFails(c)
<1>1. CASE StopFirst(c) \/ StopAgain(c)
    BY <1>1 DEF At, StopFirst, StopAgain
<1>2. CASE StopIdle(c) \/ RevokeMarker(c)
    BY <1>2 DEF At, StopIdle, RevokeMarker
<1>3. CASE RevokeTerm(c) \/ RevokeGone(c) \/ OffFirst(c) \/ OffLock(c) \/ OffKill(c)
    BY <1>3 DEF At, RevokeTerm, RevokeGone, OffFirst, OffLock, OffKill
<1>4. CASE OffFind(c) \/ OffGone(c) \/ Ensure(c) \/ Preempt(c)
    BY <1>4 DEF At, OffFind, OffGone, Ensure, Preempt
<1>5. CASE StartOld(c) \/ StartCheck(c) \/ StartSpawn(c) \/ StartPid(c) \/ StartReady(c)
    BY <1>5 DEF At, StartOld, StartCheck, StartSpawn, StartPid, StartReady
<1>6. CASE MoveLock(c) \/ MovePrepare(c) \/ MoveAdmit(c) \/ MoveSpawn(c) \/ MoveAllow(c)
    BY <1>6 DEF At, MoveLock, MovePrepare, MoveAdmit, MoveSpawn, MoveAllow
<1>7. CASE SeqLock(c) \/ SeqPrepare(c) \/ SeqMark(c) \/ SeqPhase(c) \/ SeqSpawn(c) \/ SeqWatch(c)
    BY <1>7 DEF At, SeqLock, SeqPrepare, SeqMark, SeqPhase, SeqSpawn, SeqWatch
<1>8. CASE SeqClean(c) \/ SeqZero(c) \/ SeqFinal(c)
    BY <1>8 DEF At, SeqClean, SeqZero, SeqFinal
<1>9. QED
    BY <1>1, <1>2, <1>3, <1>4, <1>5, <1>6, <1>7, <1>8 DEF CallStep

(* A stop() that ends, also by an error, leaves no living producer that was not sent SIGTERM, *)
(* or has sent the runtime SIGTERM.                                          *)
THEOREM StopRevokes == Spec => EndedStopRevokes
<1> DEFINE Revokes(c) ==
        At(c, "stop.lock") /\ call'[c].pc \notin {"stop.lock", "stop.first", "dead"}
           => \/ \A p \in Producers : Alive(p) => p \in term
              \/ RuntimePid = {}
              \/ RuntimePid \cap term' # {}
<1>1. IInv /\ [Next]_vars => \A c \in Callers : Revokes(c)
    <2> SUFFICES ASSUME IInv, [Next]_vars, NEW c \in Callers, At(c, "stop.lock"),
                        call'[c].pc \notin {"stop.lock", "stop.first", "dead"}
                 PROVE  \/ \A p \in Producers : Alive(p) => p \in term
                        \/ RuntimePid = {}
                        \/ RuntimePid \cap term' # {}
        OBVIOUS
    <2>1. Next /\ call'[c] # call[c]
        BY DEF At, vars
    <2>2. PICK k \in CallStates : k = call[c]
        BY DEF IInv, TypeOK
    <2>3. k.pc = "stop.lock" /\ InsideOf(k) /\ ProducerOf(c, k)
        BY <2>2 DEF IInv, CallInv, At
    <2>4. CASE Begin(c) \/ Cancel(c) \/ Crash(c)
        <3>1. ~Begin(c)
            BY DEF Begin, At
        <3>2. ~Crash(c)
            <4>1. Crash(c) => call'[c] = Goto(Over, "dead")
                BY DEF Crash, Become, IInv, TypeOK
            <4>2. Goto(Over, "dead").pc = "dead"
                BY OverIs DEF Goto, CallStates
            <4>3. QED
                BY <4>1, <4>2
        <3>3. ~Cancel(c)
            <4>1. Cancel(c) => call'[c] = [k EXCEPT !.budget = "spent"]
                BY <2>2 DEF Cancel, Become, IInv, TypeOK
            <4>2. [k EXCEPT !.budget = "spent"].pc = k.pc
                BY DEF CallStates
            <4>3. QED
                BY <2>3, <4>1, <4>2
        <3>4. QED
            BY <2>4, <3>1, <3>2, <3>3
    <2>5. ~StopRepeats(c)
        <3>1. StopRepeats(c) => call'[c] = [Inside(k) EXCEPT !.pc = "stop.first", !.pass = TRUE]
            BY <2>2 DEF StopRepeats, Become, IInv, TypeOK
        <3>2. [Inside(k) EXCEPT !.pc = "stop.first", !.pass = TRUE].pc = "stop.first"
            BY DEF Inside, CallStates
        <3>3. QED
            BY <3>1, <3>2
    <2>6. CASE StopCutShort(c)
        BY <2>2, <2>3, <2>6 DEF StopCutShort, CutShort, ProducerOf
    <2>7. CASE StopSucceeds(c)
        BY <2>2, <2>3, <2>7 DEF StopSucceeds, ProducerOf, InsideOf, NoProducer
    <2>8. CASE StopFails(c)
        BY <2>8 DEF StopFails, RuntimeKill
    <2>9. QED
        BY <2>1, <2>4, <2>5, <2>6, <2>7, <2>8, OneCallSteps, StopLockSteps
<1>2. QED
    BY <1>1, OperatorInvariant, PTL DEF Spec, EndedStopRevokes

(* A return never comes to the middle of a revocation.                        *)
LEMMA ReturnPlaces ==
    ASSUME NEW k \in CallStates, Fits(k)
    PROVE  Return(k).pc # "rev.gone"
<1>1. PICK r : r = Return(k)
    OBVIOUS
<1>0. SUFFICES r.pc # "rev.gone"
    BY <1>1
<1>3. CASE Handled(k, r)
    BY <1>3, OverIs DEF Handled
<1>4. CASE Resumed(k, r)
    <2>1. k.stack[1] \in Frames
        BY <1>4, CallFields DEF Resumed
    <2>2. QED
        BY <1>4, <2>1 DEF Resumed, OnReturn, Frames
<1>5. CASE r = Over
    BY <1>5, OverIs
<1>6. QED
    BY <1>1, <1>3, <1>4, <1>5, ReturnResumes

(* The one way on from the end of a revocation's producers.                  *)
LEMMA RevokeTermSteps ==
    ASSUME IInv, NEW c \in Callers, At(c, "rev.term"), CallStep(c)
    PROVE  RevokeTerm(c)
<1>1. CASE StopSucceeds(c)
    BY <1>1 DEF At, StopSucceeds
<1>2. CASE StopFirst(c) \/ StopAgain(c) \/ StopRepeats(c) \/ StopCutShort(c)
    BY <1>2 DEF At, StopFirst, StopAgain, StopRepeats, StopCutShort
<1>3. CASE StopFails(c) \/ StopIdle(c) \/ RevokeMarker(c)
    BY <1>3 DEF At, StopFails, StopIdle, RevokeMarker
<1>4. CASE RevokeGone(c) \/ OffFirst(c) \/ OffLock(c) \/ OffKill(c)
    BY <1>4 DEF At, RevokeGone, OffFirst, OffLock, OffKill
<1>5. CASE OffFind(c) \/ OffGone(c) \/ Ensure(c) \/ Preempt(c)
    BY <1>5 DEF At, OffFind, OffGone, Ensure, Preempt
<1>6. CASE StartOld(c) \/ StartCheck(c) \/ StartSpawn(c) \/ StartPid(c) \/ StartReady(c)
    BY <1>6 DEF At, StartOld, StartCheck, StartSpawn, StartPid, StartReady
<1>7. CASE MoveLock(c) \/ MovePrepare(c) \/ MoveAdmit(c) \/ MoveSpawn(c) \/ MoveAllow(c)
    BY <1>7 DEF At, MoveLock, MovePrepare, MoveAdmit, MoveSpawn, MoveAllow
<1>8. CASE SeqLock(c) \/ SeqPrepare(c) \/ SeqMark(c) \/ SeqPhase(c) \/ SeqSpawn(c) \/ SeqWatch(c)
    BY <1>8 DEF At, SeqLock, SeqPrepare, SeqMark, SeqPhase, SeqSpawn, SeqWatch
<1>9. CASE SeqClean(c) \/ SeqZero(c) \/ SeqFinal(c)
    BY <1>9 DEF At, SeqClean, SeqZero, SeqFinal
<1>10. QED
    BY <1>1, <1>2, <1>3, <1>4, <1>5, <1>6, <1>7, <1>8, <1>9 DEF CallStep

(* A sequence that a stop() revoked spawns no producer again, and its cleanup ends its own *)
(* producers only.                                                           *)
THEOREM RevokedRests == Spec => RevokedSequenceRests
<1> DEFINE OwnOnly(c) ==
        /\ At(c, "rev.term") /\ call'[c].pc = "rev.gone"
        /\ \E i \in DOMAIN call[c].stack : call[c].stack[i] \in {"clean", "final"}
        => spawner[call'[c].awaits] = c
<1>1. IInv => \A c \in revoked : ~(At(c, "seq.spawn") /\ call'[c].pc = "seq.watch")
    BY DEF IInv, TypeOK, CallInv, MarkerOf, At
<1>2. IInv /\ [Next]_vars => \A c \in Callers : OwnOnly(c)
    <2> SUFFICES ASSUME IInv, [Next]_vars, NEW c \in Callers, At(c, "rev.term"), call'[c].pc = "rev.gone",
                        On(call[c], "clean") \/ On(call[c], "final")
                 PROVE  spawner[call'[c].awaits] = c
        BY DEF On
    <2>1. Next /\ call'[c] # call[c]
        BY DEF At, vars
    <2>2. PICK k \in CallStates : k = call[c]
        BY DEF IInv, TypeOK
    <2>3. k.pc = "rev.term" /\ Fits(k) /\ \A p \in Producers : Alive(p) => spawner[p] = c
        BY <2>2 DEF IInv, CallInv, MarkerOf, At
    <2>4. ~Begin(c) /\ ~Crash(c) /\ ~Cancel(c)
        <3>1. ~Begin(c)
            BY DEF Begin, At
        <3>2. ~Crash(c)
            <4>1. Crash(c) => call'[c] = Goto(Over, "dead")
                BY DEF Crash, Become, IInv, TypeOK
            <4>2. Goto(Over, "dead").pc = "dead"
                BY OverIs DEF Goto, CallStates
            <4>3. QED
                BY <4>1, <4>2
        <3>3. ~Cancel(c)
            <4>1. Cancel(c) => call'[c] = [k EXCEPT !.budget = "spent"]
                BY <2>2 DEF Cancel, Become, IInv, TypeOK
            <4>2. [k EXCEPT !.budget = "spent"].pc = k.pc
                BY DEF CallStates
            <4>3. QED
                BY <2>3, <4>1, <4>2
        <3>4. QED
            BY <3>1, <3>2, <3>3
    <2>5. RevokeTerm(c)
        BY <2>1, <2>4, OneCallSteps, RevokeTermSteps
    <2>6. CASE \E p \in Producers : Alive(p) /\ Become(c, [k EXCEPT !.pc = "rev.gone", !.awaits = p])
        <3>1. PICK p \in Producers : Alive(p) /\ Become(c, [k EXCEPT !.pc = "rev.gone", !.awaits = p])
            BY <2>6
        <3>2. call'[c] = [k EXCEPT !.pc = "rev.gone", !.awaits = p]
            BY <3>1 DEF Become, IInv, TypeOK
        <3>3. call'[c].awaits = p
            BY <3>2 DEF CallStates
        <3>4. QED
            BY <2>3, <3>1, <3>3
    <2>7. CASE Become(c, Return(k))
        <3>1. call'[c] = Return(k)
            BY <2>7 DEF Become, IInv, TypeOK
        <3>2. Return(k).pc # "rev.gone"
            BY <2>3, ReturnPlaces
        <3>3. QED
            BY <3>1, <3>2
    <2>8. QED
        BY <2>2, <2>5, <2>6, <2>7 DEF RevokeTerm
<1>3. QED
    BY <1>1, <1>2, OperatorInvariant, PTL DEF Spec, RevokedSequenceRests
=============================================================================
