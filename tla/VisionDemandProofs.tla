------------------------ MODULE VisionDemandProofs ------------------------
(***************************************************************************)
(* Proofs about VisionDemand, for any number of sessions, demands, camera      *)
(* generations and crashes, and about MultirateInputs, for any devices, period,  *)
(* history size and age limit: the two sources of the ticks' inputs.             *)
(***************************************************************************)
EXTENDS VisionDemand, MultirateInputs, SequenceTheorems, WellFoundedInduction, TLAPS

(* A session that was given its demand is still entered for it.               *)
HoldInv ==
    \A s \in Sessions :
        /\ session[s].at \in {"read", "serve", "end"} => s \in demands /\ camera.run # "OFF"
        /\ session[s].at = "serve" => session[s].gen = camera.gen

(* What is published came with the generation that was accepted, an error stays   *)
(* as long as its demand, and after it the collector waits.                    *)
PortInv ==
    /\ PublishedIsCurrent
    /\ view # Blank => view.gen = generation /\ generation # 0
    /\ failed => collector.at = "park" /\ Wanted
    /\ collector.at = "accept" => collector.got # 0
    /\ collector.at \in {"linked", "stream", "accept"} => collector.conn \in Sessions
    /\ ~closed => revision <= MaxRevision

DemandInv == TypeOK /\ HoldInv /\ PortInv

-----------------------------------------------------------------------------
LEMMA InitInv == Init => DemandInv
<1> SUFFICES ASSUME Init PROVE DemandInv
  OBVIOUS
<1>1. TypeOK
  <2>1. /\ camera \in [gen : 0..MaxGeneration, run : {"OFF", "ON", "DEAD"}]
        /\ generations \in 0..MaxGeneration /\ crashes \in 0..MaxCrashes
        /\ generation \in 0..MaxGeneration /\ revision \in 0..MaxRevision + 1
        /\ view \in [gen : 0..MaxGeneration, rev : 0..MaxRevision + 1]
    BY VisionAssumption DEF Init, Off, Blank
  <2>2. session \in [Sessions -> [at : {"free", "open", "asked", "read", "serve", "end", "over"},
                                  kind : {"PERSON", "IMAGE"}, gen : 0..MaxGeneration]]
    BY VisionAssumption DEF Init, Unused
  <2>3. wire \in [Sessions -> Seq(0..MaxGeneration)]
    BY DEF Init
  <2>4. collector \in [at : {"idle", "connect", "linked", "stream", "accept", "fail", "park"},
                       rev : 0..MaxRevision + 1, conn : Sessions \cup {Nobody},
                       got : 0..MaxGeneration]
    BY VisionAssumption DEF Init, Resting
  <2>5. QED
    BY <2>1, <2>2, <2>3, <2>4 DEF Init, TypeOK
<1>2. HoldInv
  BY DEF Init, HoldInv, Unused
<1>3. PortInv
  BY VisionAssumption DEF Init, PortInv, PublishedIsCurrent, Resting
<1>4. QED
  BY <1>1, <1>2, <1>3 DEF DemandInv

-----------------------------------------------------------------------------
(* The owner: a camera in use is neither turned off nor replaced.              *)
OwnerType ==
    /\ camera \in [gen : 0..MaxGeneration, run : {"OFF", "ON", "DEAD"}]
    /\ detecting \in BOOLEAN /\ idle \in BOOLEAN
    /\ demands \subseteq Sessions \cup {"manual"}
    /\ generations \in 0..MaxGeneration /\ crashes \in 0..MaxCrashes

LEMMA ActivateKeeps ==
    ASSUME OwnerType, NEW person \in BOOLEAN, NEW d \in Sessions \cup {"manual"},
           Acquire(d, person) \/ ActivateFails(person)
    PROVE  /\ OwnerType'
           /\ camera.run # "OFF" => camera' = camera
           /\ demands \subseteq demands'
           /\ Acquire(d, person) => d \in demands' /\ camera'.run = "ON"
<1>1. CASE Acquire(d, person)
  <2>1. /\ demands' = demands \cup {d} /\ idle' = FALSE /\ crashes' = crashes
        /\ detecting' \in BOOLEAN
    BY <1>1 DEF Acquire, Activate, OwnerType
  <2>2. \/ camera.run = "ON" /\ camera' = camera /\ generations' = generations
        \/ /\ camera.run = "OFF" /\ generations < MaxGeneration
           /\ generations' = generations + 1
           /\ camera' = [gen |-> generations + 1, run |-> "ON"]
    BY <1>1 DEF Acquire, Activate
  <2>3. /\ generations' \in 0..MaxGeneration /\ camera'.run = "ON"
        /\ camera' \in [gen : 0..MaxGeneration, run : {"OFF", "ON", "DEAD"}]
    BY <2>2, VisionAssumption DEF OwnerType
  <2>4. QED
    BY <2>1, <2>2, <2>3 DEF OwnerType
<1>2. CASE ActivateFails(person)
  <2>1. demands' = demands /\ crashes' = crashes /\ idle' \in BOOLEAN /\ detecting' = detecting
    BY <1>2 DEF ActivateFails, OwnerType
  <2>2. \/ camera' = camera /\ generations' = generations
        \/ /\ camera.run = "OFF" /\ generations < MaxGeneration
           /\ generations' = generations + 1
           /\ camera' \in {[gen |-> generations + 1, run |-> "DEAD"],
                           [gen |-> generations + 1, run |-> "ON"]}
    BY <1>2 DEF ActivateFails
  <2>3. /\ generations' \in 0..MaxGeneration
        /\ camera' \in [gen : 0..MaxGeneration, run : {"OFF", "ON", "DEAD"}]
    BY <2>2, VisionAssumption DEF OwnerType
  <2>4. CASE ~Acquire(d, person)
    BY <2>1, <2>2, <2>3, <2>4 DEF OwnerType
  <2>5. QED
    BY <1>1, <2>4
<1>3. QED
  BY <1>1, <1>2

LEMMA ReleaseKeeps ==
    ASSUME OwnerType, NEW d, Release(d)
    PROVE  OwnerType' /\ camera' = camera /\ demands' = demands \ {d}
BY DEF OwnerType, Release, Released

(* A step of the owner alone that keeps a running camera and every demand.        *)
LEMMA HoldKept ==
    ASSUME HoldInv, session' = session, \A s \in Sessions : s \in demands => s \in demands',
           camera.run # "OFF" => camera'.run # "OFF" /\ camera'.gen = camera.gen
    PROVE  HoldInv'
BY DEF HoldInv

LEMMA OwnerStep ==
    ASSUME DemandInv, Manual \/ Idle \/ CameraDies \/ OwnerDies
    PROVE  DemandInv'
<1>0. TypeOK /\ HoldInv /\ PortInv /\ OwnerType
  BY DEF DemandInv, TypeOK, OwnerType
<1>1. UNCHANGED <<wire, hung, port, collector>>
  BY DEF Manual, Idle, CameraDies, OwnerDies, server
<1>2. PortInv'
  BY <1>0, <1>1 DEF PortInv, PublishedIsCurrent, Wanted, port
<1>3. CASE Manual
  <2>1. session' = session
    BY <1>3 DEF Manual, server
  <2>2. OwnerType' /\ HoldInv'
    <3>1. CASE Acquire("manual", FALSE) \/ ActivateFails(FALSE)
      <4>1. OwnerType' /\ demands \subseteq demands' /\ (camera.run # "OFF" => camera' = camera)
        BY <1>0, <3>1, ActivateKeeps
      <4>2. QED
        BY <1>0, <2>1, <4>1, HoldKept
    <3>2. CASE Release("manual")
      <4>1. OwnerType' /\ camera' = camera /\ demands' = demands \ {"manual"}
        BY <1>0, <3>2, ReleaseKeeps
      <4>2. QED
        BY <1>0, <2>1, <4>1, HoldKept, VisionAssumption
    <3>3. QED
      BY <1>3, <3>1, <3>2 DEF Manual
  <2>3. QED
    BY <1>0, <1>1, <1>2, <2>1, <2>2 DEF DemandInv, TypeOK, OwnerType, port
<1>4. CASE Idle
  <2>1. demands = {} /\ session' = session /\ demands' = {} /\ idle' = FALSE /\ detecting' = FALSE
        /\ UNCHANGED <<generations, crashes>>
    BY <1>4 DEF Idle, server
  <2>2. camera' \in [gen : 0..MaxGeneration, run : {"OFF", "ON", "DEAD"}]
    BY <1>0, <1>4, VisionAssumption DEF Idle, OwnerType, Off
  <2>3. HoldInv'
    BY <1>0, <2>1 DEF HoldInv
  <2>4. QED
    BY <1>0, <1>1, <1>2, <2>1, <2>2, <2>3 DEF DemandInv, TypeOK, port
<1>5. CASE CameraDies
  <2>1. /\ UNCHANGED <<session, demands, detecting, idle, generations, crashes>>
        /\ camera' = [camera EXCEPT !.run = "DEAD"]
    BY <1>5 DEF CameraDies, server
  <2>2. /\ camera' \in [gen : 0..MaxGeneration, run : {"OFF", "ON", "DEAD"}]
        /\ camera'.run = "DEAD" /\ camera'.gen = camera.gen
    BY <1>0, <2>1 DEF OwnerType
  <2>3. HoldInv'
    BY <1>0, <2>1, <2>2, HoldKept
  <2>4. QED
    BY <1>0, <1>1, <1>2, <2>1, <2>2, <2>3 DEF DemandInv, TypeOK, port
<1>6. CASE OwnerDies
  <2>1. \A s \in Sessions : session'[s] \in {Unused, Over}
    BY <1>6 DEF OwnerDies
  <2>2. HoldInv'
    BY <2>1 DEF HoldInv, Unused, Over
  <2>3. session' \in [Sessions -> [at : {"free", "open", "asked", "read", "serve", "end", "over"},
                                   kind : {"PERSON", "IMAGE"}, gen : 0..MaxGeneration]]
    BY <1>6, VisionAssumption DEF OwnerDies, Unused, Over
  <2>4. OwnerType'
    <3>1. camera' \in [gen : 0..MaxGeneration, run : {"OFF", "ON", "DEAD"}]
      BY <1>6, VisionAssumption DEF OwnerDies, Off
    <3>2. crashes' \in 0..MaxCrashes
      BY <1>0, <1>6, VisionAssumption DEF OwnerDies, OwnerType
    <3>3. QED
      BY <1>0, <1>6, <3>1, <3>2 DEF OwnerDies, OwnerType
  <2>5. QED
    BY <1>0, <1>1, <1>2, <2>2, <2>3, <2>4 DEF DemandInv, TypeOK, OwnerType, port
<1>7. QED
  BY <1>3, <1>4, <1>5, <1>6
-----------------------------------------------------------------------------
(* The server: a session is entered before it is served and released when it    *)
(* ends.                                                                    *)
SessionType ==
    session \in [Sessions -> [at : {"free", "open", "asked", "read", "serve", "end", "over"},
                              kind : {"PERSON", "IMAGE"}, gen : 0..MaxGeneration]]

LEMMA ToType ==
    ASSUME SessionType, NEW s \in Sessions,
           NEW step \in {"open", "asked", "read", "serve", "end", "over"}, To(s, step)
    PROVE  /\ SessionType'
           /\ session'[s].at = step
           /\ step # "over" => session'[s].gen = session[s].gen
           /\ \A t \in Sessions \ {s} : session'[t] = session[t]
<1>1. Over \in [at : {"free", "open", "asked", "read", "serve", "end", "over"},
                kind : {"PERSON", "IMAGE"}, gen : 0..MaxGeneration] /\ Over.at = "over"
  BY VisionAssumption DEF Over, Unused
<1>2. QED
  BY <1>1 DEF To, SessionType

LEMMA TellType ==
    ASSUME wire \in [Sessions -> Seq(0..MaxGeneration)], NEW s \in Sessions,
           NEW what \in 0..MaxGeneration, Tell(s, what)
    PROVE  wire' \in [Sessions -> Seq(0..MaxGeneration)]
BY DEF Tell

LEMMA ServerStep ==
    ASSUME DemandInv, NEW s \in Sessions, Handle(s) \/ ImageClient(s)
    PROVE  DemandInv'
<1>0. TypeOK /\ HoldInv /\ PortInv /\ OwnerType /\ SessionType
      /\ wire \in [Sessions -> Seq(0..MaxGeneration)]
  BY DEF DemandInv, TypeOK, OwnerType, SessionType
<1>1. UNCHANGED <<port, collector>>
  BY DEF Handle, Serve, ReadGeneration, SendState, SessionEnds, EndSession, ImageClient
<1>2. PortInv'
  BY <1>0, <1>1 DEF PortInv, PublishedIsCurrent, Wanted, port
<1> DEFINE Typed == /\ OwnerType' /\ SessionType'
                    /\ wire' \in [Sessions -> Seq(0..MaxGeneration)] /\ hung' \subseteq Sessions
<1>3. SUFFICES Typed /\ HoldInv'
  BY <1>0, <1>1, <1>2 DEF DemandInv, TypeOK, OwnerType, SessionType, port
<1>4. 0 \in 0..MaxGeneration
  BY VisionAssumption
<1>5. CASE Serve(s)
  <2>1. hung' = hung
    BY <1>5 DEF Serve
  <2>2. CASE /\ Acquire(s, session[s].kind = "PERSON") /\ To(s, "read") /\ UNCHANGED wire
    <3>1. /\ OwnerType' /\ demands \subseteq demands' /\ (camera.run # "OFF" => camera' = camera)
          /\ s \in demands' /\ camera'.run = "ON"
      BY <1>0, <2>2, ActivateKeeps
    <3>2. /\ SessionType' /\ session'[s].at = "read"
          /\ \A t \in Sessions \ {s} : session'[t] = session[t]
      BY <1>0, <2>2, ToType
    <3>3. HoldInv'
      BY <1>0, <3>1, <3>2 DEF HoldInv
    <3>4. QED
      BY <1>0, <2>1, <2>2, <3>1, <3>2, <3>3 DEF TypeOK
  <2>3. CASE ActivateFails(session[s].kind = "PERSON") /\ Tell(s, 0) /\ To(s, "over")
    <3>1. /\ OwnerType' /\ demands \subseteq demands' /\ (camera.run # "OFF" => camera' = camera)
      BY <1>0, <2>3, ActivateKeeps
    <3>2. /\ SessionType' /\ session'[s].at = "over"
          /\ \A t \in Sessions \ {s} : session'[t] = session[t]
      BY <1>0, <2>3, ToType
    <3>3. HoldInv'
      BY <1>0, <3>1, <3>2 DEF HoldInv
    <3>4. QED
      BY <1>0, <1>4, <2>1, <2>3, <3>1, <3>2, <3>3, TellType DEF TypeOK
  <2>4. QED
    BY <1>5, <2>2, <2>3 DEF Serve
<1>6. CASE ReadGeneration(s)
  <2>1. /\ session[s].at = "read"
        /\ session' = [session EXCEPT ![s] = [at |-> "serve", kind |-> session[s].kind, gen |-> camera.gen]]
        /\ UNCHANGED <<camera, detecting, demands, idle, generations, crashes, wire, hung>>
    BY <1>6 DEF ReadGeneration, owner
  <2>2. SessionType' /\ session'[s].at = "serve" /\ session'[s].gen = camera.gen
        /\ \A t \in Sessions \ {s} : session'[t] = session[t]
    <3> DEFINE n == [at |-> "serve", kind |-> session[s].kind, gen |-> camera.gen]
    <3>1. session' = [session EXCEPT ![s] = n]
      BY <2>1
    <3>2. n \in [at : {"free", "open", "asked", "read", "serve", "end", "over"},
                 kind : {"PERSON", "IMAGE"}, gen : 0..MaxGeneration]
      BY <1>0 DEF SessionType, OwnerType
    <3>3. QED
      BY <1>0, <3>1, <3>2 DEF SessionType
  <2>3. HoldInv'
    BY <1>0, <2>1, <2>2 DEF HoldInv
  <2>4. QED
    BY <1>0, <2>1, <2>2, <2>3 DEF OwnerType, TypeOK
<1>7. CASE SendState(s)
  <2>1. /\ session[s].at = "serve"
        /\ UNCHANGED <<camera, detecting, demands, idle, generations, crashes, hung>>
    BY <1>7 DEF SendState, owner
  <2>2. session[s].gen \in 0..MaxGeneration
    BY <1>0 DEF SessionType
  <2>3. \/ Tell(s, session[s].gen) /\ UNCHANGED session
        \/ Tell(s, 0) /\ To(s, "end")
        \/ UNCHANGED wire /\ To(s, "end")
    BY <1>7 DEF SendState
  <2>4. wire' \in [Sessions -> Seq(0..MaxGeneration)]
    BY <1>0, <1>4, <2>2, <2>3, TellType
  <2>5. SessionType' /\ HoldInv'
    <3>1. CASE UNCHANGED session
      BY <1>0, <2>1, <3>1 DEF SessionType, HoldInv
    <3>2. CASE To(s, "end")
      <4>1. /\ SessionType' /\ session'[s].at = "end"
            /\ \A t \in Sessions \ {s} : session'[t] = session[t]
        BY <1>0, <3>2, ToType
      <4>2. QED
        BY <1>0, <2>1, <4>1 DEF HoldInv
    <3>3. QED
      BY <2>3, <3>1, <3>2
  <2>6. QED
    BY <1>0, <2>1, <2>4, <2>5 DEF OwnerType, TypeOK
<1>8. CASE SessionEnds(s)
  <2>1. /\ session[s].at \in {"open", "serve"}
        /\ (session[s].at = "open" /\ To(s, "over")) \/ (session[s].at = "serve" /\ To(s, "end"))
        /\ UNCHANGED <<camera, detecting, demands, idle, generations, crashes, wire, hung>>
    BY <1>8 DEF SessionEnds, owner
  <2>2. /\ SessionType' /\ session'[s].at \in {"over", "end"}
        /\ session'[s].at = "end" => session[s].at = "serve"
        /\ \A t \in Sessions \ {s} : session'[t] = session[t]
    BY <1>0, <2>1, ToType
  <2>3. HoldInv'
    BY <1>0, <2>1, <2>2 DEF HoldInv
  <2>4. QED
    BY <1>0, <2>1, <2>2, <2>3 DEF OwnerType, TypeOK
<1>9. CASE EndSession(s)
  <2>1. Release(s) /\ To(s, "over") /\ UNCHANGED <<wire, hung>>
    BY <1>9 DEF EndSession
  <2>2. OwnerType' /\ camera' = camera /\ demands' = demands \ {s}
    BY <1>0, <2>1, ReleaseKeeps
  <2>3. /\ SessionType' /\ session'[s].at = "over"
        /\ \A t \in Sessions \ {s} : session'[t] = session[t]
    BY <1>0, <2>1, ToType
  <2>4. HoldInv'
    BY <1>0, <2>2, <2>3 DEF HoldInv
  <2>5. QED
    BY <1>0, <2>1, <2>2, <2>3, <2>4 DEF TypeOK
<1>10. CASE ImageClient(s)
  <2>1. /\ UNCHANGED <<camera, detecting, demands, idle, generations, crashes, wire>>
        /\ hung' \in {hung, hung \cup {s}}
        /\ \/ session' = session
           \/ session' = [session EXCEPT ![s] = [at |-> "asked", kind |-> "IMAGE", gen |-> 0]]
    BY <1>10 DEF ImageClient, owner
  <2>2. SessionType'
    <3> DEFINE n == [at |-> "asked", kind |-> "IMAGE", gen |-> 0]
    <3>1. session' = session \/ session' = [session EXCEPT ![s] = n]
      BY <2>1
    <3>2. n \in [at : {"free", "open", "asked", "read", "serve", "end", "over"},
                 kind : {"PERSON", "IMAGE"}, gen : 0..MaxGeneration]
      BY VisionAssumption
    <3>3. QED
      BY <1>0, <3>1, <3>2 DEF SessionType
  <2>3. HoldInv'
    <3> DEFINE n == [at |-> "asked", kind |-> "IMAGE", gen |-> 0]
    <3>1. CASE session' = session
      BY <1>0, <2>1, <3>1 DEF HoldInv
    <3>2. CASE session' = [session EXCEPT ![s] = n]
      <4>1. n.at = "asked"
        OBVIOUS
      <4>2. session'[s].at = "asked" /\ \A t \in Sessions \ {s} : session'[t] = session[t]
        BY <1>0, <3>2, <4>1 DEF SessionType
      <4>3. QED
        BY <1>0, <2>1, <4>2 DEF HoldInv
    <3>3. QED
      BY <2>1, <3>1, <3>2
  <2>4. QED
    BY <1>0, <2>1, <2>2, <2>3 DEF OwnerType, TypeOK
<1>11. QED
  BY <1>5, <1>6, <1>7, <1>8, <1>9, <1>10 DEF Handle

-----------------------------------------------------------------------------
(* The consumer.                                                             *)
PortType ==
    /\ demand \in BOOLEAN /\ failed \in BOOLEAN /\ closed \in BOOLEAN
    /\ revision \in 0..MaxRevision + 1
    /\ generation \in 0..MaxGeneration
    /\ view \in [gen : 0..MaxGeneration, rev : 0..MaxRevision + 1]

CollectorType ==
    collector \in [at : {"idle", "connect", "linked", "stream", "accept", "fail", "park"},
                   rev : 0..MaxRevision + 1, conn : Sessions \cup {Nobody},
                   got : 0..MaxGeneration]

WireType == wire \in [Sessions -> Seq(0..MaxGeneration)] /\ hung \subseteq Sessions

LEMMA HangType ==
    ASSUME WireType, CollectorType, Hang
    PROVE  WireType'
<1> DEFINE conn == {collector.conn} \ {Nobody}
<1>1. conn \subseteq Sessions
  BY DEF CollectorType
<1>2. hung' = hung \cup conn
  BY DEF Hang
<1>3. wire' = [s \in Sessions |-> IF s \in conn THEN <<>> ELSE wire[s]]
  BY DEF Hang
<1> HIDE DEF conn
<1>4. wire' \in [Sessions -> Seq(0..MaxGeneration)]
  <2>1. <<>> \in Seq(0..MaxGeneration)
    BY EmptySeq
  <2>2. \A s \in Sessions : wire[s] \in Seq(0..MaxGeneration)
    BY DEF WireType
  <2> DEFINE T == Seq(0..MaxGeneration)
  <2> HIDE DEF T
  <2>3. \A s \in Sessions : (IF s \in conn THEN <<>> ELSE wire[s]) \in T
    BY <2>1, <2>2 DEF T
  <2>4. wire' \in [Sessions -> T]
    BY <1>3, <2>3
  <2>5. QED
    BY <2>4 DEF T
<1>5. QED
  BY <1>1, <1>2, <1>4 DEF WireType

LEMMA TurnType ==
    ASSUME CollectorType, NEW step \in {"linked", "stream", "accept", "fail", "park"}, Turn(step)
    PROVE  /\ CollectorType' /\ collector'.at = step
           /\ collector'.rev = collector.rev /\ collector'.got = collector.got
           /\ collector'.conn = collector.conn
BY DEF CollectorType, Turn

(* The demand changes: nothing is published any more.                          *)
LEMMA ChangeStep ==
    ASSUME DemandInv, SetDemand \/ Close
    PROVE  DemandInv'
<1>0. TypeOK /\ HoldInv /\ PortInv /\ PortType /\ WireType /\ CollectorType
  BY DEF DemandInv, TypeOK, PortType, WireType, CollectorType
<1>1. /\ UNCHANGED <<camera, detecting, demands, idle, generations, crashes, session, collector>>
      /\ ~closed /\ revision' = revision + 1 /\ view' = Blank /\ failed' = FALSE
      /\ demand' \in BOOLEAN /\ closed' \in BOOLEAN /\ generation' \in {0, generation}
      /\ ~closed' => revision' <= MaxRevision
  <2>1. CASE SetDemand
    BY <1>0, <2>1, VisionAssumption DEF SetDemand, Clear, owner, PortType
  <2>2. CASE Close
    BY <1>0, <2>2 DEF Close, Clear, owner, PortType
  <2>3. QED
    BY <2>1, <2>2
<1>2. WireType'
  BY <1>0, HangType DEF SetDemand, Close, WireType
<1>3. PortType'
  <2>1. revision' \in 0..MaxRevision + 1
    BY <1>0, <1>1, VisionAssumption DEF PortInv, PortType
  <2>2. view' \in [gen : 0..MaxGeneration, rev : 0..MaxRevision + 1] /\ generation' \in 0..MaxGeneration
    BY <1>0, <1>1, VisionAssumption DEF PortType, Blank
  <2>3. QED
    BY <1>0, <1>1, <2>1, <2>2 DEF PortType
<1>4. PortInv'
  BY <1>0, <1>1 DEF PortInv, PublishedIsCurrent, Blank
<1>5. HoldInv'
  BY <1>0, <1>1 DEF HoldInv
<1>6. QED
  BY <1>0, <1>1, <1>2, <1>3, <1>4, <1>5 DEF DemandInv, TypeOK, PortType, WireType

(* A step of the collector that publishes nothing.                             *)
LEMMA QuietStep ==
    ASSUME DemandInv, UNCHANGED <<owner, port>>, CollectorType', WireType', SessionType',
           \A s \in Sessions : session'[s].at \in {"read", "serve", "end"} => session'[s] = session[s],
           collector.at # "park" \/ ~Wanted,
           collector'.at = "accept" => collector'.got # 0,
           collector'.at \in {"linked", "stream", "accept"} => collector'.conn \in Sessions
    PROVE  DemandInv'
<1>0. TypeOK /\ HoldInv /\ PortInv
  BY DEF DemandInv
<1>1. ~failed
  BY <1>0 DEF PortInv
<1>2. HoldInv'
  BY <1>0 DEF HoldInv, owner
<1>3. PortInv'
  BY <1>0, <1>1 DEF PortInv, PublishedIsCurrent, port
<1>4. QED
  BY <1>0, <1>2, <1>3 DEF DemandInv, TypeOK, CollectorType, WireType, SessionType, owner, port

LEMMA CollectorStep ==
    ASSUME DemandInv, Collector \/ Stumble
    PROVE  DemandInv'
<1>0. /\ TypeOK /\ HoldInv /\ PortInv /\ PortType /\ WireType /\ CollectorType /\ SessionType
      /\ VisionAssumption
  BY VisionAssumption DEF DemandInv, TypeOK, PortType, WireType, CollectorType, SessionType
<1>1. ASSUME Drop
      PROVE  WireType' /\ CollectorType' /\ collector'.at = "idle"
  <2>1. WireType'
    BY <1>0, <1>1, HangType DEF Drop
  <2>2. QED
    BY <1>0, <1>1, <2>1, VisionAssumption DEF Drop, Resting, CollectorType
<1>2. ASSUME UNCHANGED <<wire, hung>>
      PROVE  WireType'
  BY <1>0, <1>2 DEF WireType
<1>3. ASSUME UNCHANGED session
      PROVE  SessionType' /\ \A s \in Sessions : session'[s] = session[s]
  BY <1>0, <1>3 DEF SessionType
<1>4. CASE Collect
  <2>1. collector.at = "idle" /\ UNCHANGED <<owner, session, wire, hung, port>>
        /\ collector' = [Resting EXCEPT !.at = "connect", !.rev = revision]
    BY <1>4 DEF Collect, server
  <2>2. CollectorType' /\ collector'.at = "connect"
    <3>1. collector' = [at |-> "connect", rev |-> revision, conn |-> Nobody, got |-> 0]
      BY <2>1 DEF Resting
    <3>2. QED
      BY <1>0, <3>1, VisionAssumption DEF CollectorType, PortType
  <2>3. QED
    BY <1>2, <1>3, <2>1, <2>2, QuietStep
<1>5. CASE Connect
  <2>1. collector.at = "connect" /\ UNCHANGED <<owner, wire, hung, port>>
    BY <1>5 DEF Connect
  <2>2. CASE Turn("fail") /\ UNCHANGED session
    BY <1>0, <1>2, <1>3, <2>1, <2>2, TurnType, QuietStep
  <2>3. ASSUME NEW s \in Sessions, To(s, "open"),
               collector' = [collector EXCEPT !.at = "linked", !.conn = s]
        PROVE  DemandInv'
    <3>1. /\ SessionType' /\ session'[s].at = "open"
          /\ \A t \in Sessions \ {s} : session'[t] = session[t]
      BY <1>0, <2>3, ToType
    <3>2. CollectorType' /\ collector'.at = "linked" /\ collector'.conn = s
      BY <1>0, <2>3 DEF CollectorType
    <3>3. QED
      BY <1>2, <2>1, <3>1, <3>2, QuietStep
  <2>4. QED
    BY <1>5, <2>2, <2>3 DEF Connect
<1>6. CASE Request
  <2>1. collector.at = "linked" /\ UNCHANGED <<owner, port>>
    BY <1>6 DEF Request
  <2>2. CASE Drop /\ UNCHANGED session
    BY <1>1, <1>3, <2>1, <2>2, QuietStep
  <2>3. CASE Wanted /\ session[collector.conn].at = "open" /\ To(collector.conn, "asked")
             /\ Turn("stream") /\ UNCHANGED <<hung, wire>>
    <3>1. collector.conn \in Sessions
      BY <1>0, <2>1 DEF PortInv
    <3>2. CollectorType' /\ collector'.at = "stream" /\ collector'.conn \in Sessions
      BY <1>0, <2>3, <3>1, TurnType
    <3>3. /\ SessionType' /\ session'[collector.conn].at = "asked"
          /\ \A t \in Sessions \ {collector.conn} : session'[t] = session[t]
      BY <1>0, <2>3, <3>1, ToType
    <3>4. QED
      BY <1>2, <2>1, <2>3, <3>2, <3>3, QuietStep
  <2>4. CASE Turn("fail") /\ UNCHANGED <<session, hung, wire>>
    BY <1>0, <1>2, <1>3, <2>1, <2>4, TurnType, QuietStep
  <2>5. QED
    BY <1>6, <2>2, <2>3, <2>4 DEF Request
<1>7. CASE Receive
  <2> DEFINE c == collector.conn
  <2>1. /\ collector.at = "stream" /\ UNCHANGED <<owner, session, hung, port>>
        /\ c \notin hung /\ wire[c] # <<>>
        /\ wire' = [wire EXCEPT ![c] = Tail(@)]
        /\ collector' = [collector EXCEPT !.at = IF Head(wire[c]) = 0 THEN "fail" ELSE "accept",
                                          !.got = Head(wire[c])]
    BY <1>7 DEF Receive
  <2>2. c \in Sessions /\ wire[c] \in Seq(0..MaxGeneration)
    BY <1>0, <2>1 DEF PortInv, WireType
  <2>3. Head(wire[c]) \in 0..MaxGeneration /\ Tail(wire[c]) \in Seq(0..MaxGeneration)
    BY <2>1, <2>2, HeadTailProperties
  <2> HIDE DEF c
  <2>4. WireType'
    BY <1>0, <2>1, <2>2, <2>3 DEF WireType
  <2>5. /\ CollectorType' /\ collector'.at \in {"fail", "accept"} /\ collector'.conn = collector.conn
        /\ collector'.at = "accept" => collector'.got # 0
    BY <1>0, <2>1, <2>3 DEF CollectorType
  <2>6. collector'.at = "accept" => collector'.conn \in Sessions
    BY <2>2, <2>5 DEF c
  <2>7. QED
    BY <1>3, <2>1, <2>4, <2>5, <2>6, QuietStep
<1>8. CASE Leave \/ Stumble
  <2>1. collector.at = "stream" /\ UNCHANGED <<owner, session, port>>
        /\ (Drop \/ (Turn("fail") /\ UNCHANGED <<hung, wire>>))
    BY <1>8 DEF Leave, Stumble, server
  <2>2. QED
    BY <1>0, <1>1, <1>2, <1>3, <2>1, TurnType, QuietStep
<1>9. CASE Unpark
  <2>1. ~Wanted /\ Drop /\ UNCHANGED <<owner, session, port>>
    BY <1>9 DEF Unpark
  <2>2. QED
    BY <1>1, <1>3, <2>1, QuietStep
<1>10. CASE Fail
  <2>1. /\ collector.at = "fail"
        /\ collector' = [collector EXCEPT !.at = "park", !.got = 0]
        /\ UNCHANGED <<demand, revision, generation, closed, owner, session, wire, hung>>
        /\ (Wanted /\ view' = Blank /\ failed' = TRUE) \/ (~Wanted /\ UNCHANGED <<view, failed>>)
    BY <1>10 DEF Fail, Clear, server
  <2>2. CollectorType' /\ collector'.at = "park" /\ collector'.rev = collector.rev
    <3>1. collector' = [at |-> "park", rev |-> collector.rev, conn |-> collector.conn, got |-> 0]
      BY <1>0, <2>1 DEF CollectorType
    <3>2. QED
      BY <1>0, <3>1, VisionAssumption DEF CollectorType
  <2>3. PortType'
    <3>1. Blank \in [gen : 0..MaxGeneration, rev : 0..MaxRevision + 1]
      BY VisionAssumption DEF Blank
    <3>2. QED
      BY <1>0, <2>1, <3>1 DEF PortType
  <2>4. PortInv'
    BY <1>0, <2>1, <2>2 DEF PortInv, PublishedIsCurrent, Wanted
  <2>5. HoldInv'
    BY <1>0, <2>1 DEF HoldInv, owner
  <2>6. QED
    BY <1>0, <2>1, <2>2, <2>3, <2>4, <2>5
    DEF DemandInv, TypeOK, PortType, CollectorType, owner
<1>11. CASE Accept
  <2> DEFINE g == collector.got
  <2>1. collector.at = "accept" /\ UNCHANGED <<owner, session, wire, hung>>
    BY <1>11 DEF Accept, server
  <2>2. collector.conn \in Sessions /\ g # 0 /\ g \in 0..MaxGeneration
        /\ collector.rev \in 0..MaxRevision + 1
    BY <1>0, <2>1 DEF PortInv, CollectorType
  <2>3. CASE collector' = [collector EXCEPT !.at = "stream", !.got = 0] /\ UNCHANGED port
    <3>1. CollectorType' /\ collector'.at = "stream" /\ collector'.conn = collector.conn
      <4>1. collector' = [at |-> "stream", rev |-> collector.rev, conn |-> collector.conn, got |-> 0]
        BY <1>0, <2>3 DEF CollectorType
      <4>2. QED
        BY <1>0, <4>1, VisionAssumption DEF CollectorType
    <3>2. QED
      BY <1>2, <1>3, <2>1, <2>2, <2>3, <3>1, QuietStep
  <2>4. CASE Turn("fail") /\ UNCHANGED port
    BY <1>0, <1>2, <1>3, <2>1, <2>4, TurnType, QuietStep
  <2>5. CASE /\ Wanted /\ generation \in {0, g} /\ generation' = g
             /\ view' = [gen |-> g, rev |-> collector.rev] /\ failed' = FALSE
             /\ collector' = [collector EXCEPT !.at = "stream", !.got = 0]
             /\ UNCHANGED <<demand, revision, closed>>
    <3>1. CollectorType' /\ collector'.at = "stream" /\ collector'.conn = collector.conn
      <4>1. collector' = [at |-> "stream", rev |-> collector.rev, conn |-> collector.conn, got |-> 0]
        BY <1>0, <2>5 DEF CollectorType
      <4>2. QED
        BY <1>0, <4>1, VisionAssumption DEF CollectorType
    <3>2. view' \in [gen : 0..MaxGeneration, rev : 0..MaxRevision + 1]
          /\ view'.gen = generation' /\ generation' # 0 /\ view'.rev = collector.rev
      BY <2>2, <2>5
    <3>3. PortType'
      BY <1>0, <2>2, <2>5, <3>2 DEF PortType
    <3>4. PortInv'
      BY <1>0, <2>2, <2>5, <3>1, <3>2 DEF PortInv, PublishedIsCurrent, Wanted
    <3>5. HoldInv'
      BY <1>0, <2>1 DEF HoldInv, owner
    <3>6. QED
      BY <1>0, <2>1, <3>1, <3>3, <3>4, <3>5
      DEF DemandInv, TypeOK, PortType, CollectorType, owner
  <2>6. QED
    BY <1>11, <2>3, <2>4, <2>5 DEF Accept
<1>12. QED
  BY <1>4, <1>5, <1>6, <1>7, <1>8, <1>9, <1>10, <1>11 DEF Collector

LEMMA StepInv ==
    ASSUME DemandInv, [Next]_vars
    PROVE  DemandInv'
<1>1. CASE UNCHANGED vars
  BY <1>1 DEF DemandInv, TypeOK, HoldInv, PortInv, PublishedIsCurrent, Wanted, vars, owner,
              server, port
<1>2. CASE Next
  BY <1>2, OwnerStep, ServerStep, ChangeStep, CollectorStep DEF Next
<1>3. QED
  BY <1>1, <1>2

(* DemandInv holds in every reachable state.                                  *)
THEOREM Inductive == Spec => []DemandInv
<1>1. Init => DemandInv
  BY InitInv
<1>2. DemandInv /\ [Next]_vars => DemandInv'
  BY StepInv
<1>3. QED
  BY <1>1, <1>2, PTL DEF Spec

(* Every variable of owner, server and consumer keeps its type.                 *)
THEOREM TypeCorrect == Spec => []TypeOK
<1>1. DemandInv => TypeOK
  BY DEF DemandInv
<1>2. QED
  BY <1>1, Inductive, PTL

(* A session keeps the camera it was given until it releases it                *)
(* (CameraVisionOwner._activate, release, _idle_loop).                        *)
THEOREM HoldersKeep == Spec => []HoldersKeepTheCamera
<1>1. DemandInv => HoldersKeepTheCamera
  BY DEF DemandInv, HoldInv, HoldersKeepTheCamera
<1>2. QED
  BY <1>1, Inductive, PTL

(* Nothing that was received for an earlier demand is published                *)
(* (ProcessVisionPort._accept, set_person_detection_demand, stop).             *)
THEOREM PublishedCurrent == Spec => []PublishedIsCurrent
<1>1. DemandInv => PublishedIsCurrent
  BY DEF DemandInv, PortInv
<1>2. QED
  BY <1>1, Inductive, PTL

(* While the mission leaves its demand alone an error stays and the generation    *)
(* is not replaced (ProcessVisionPort._collect).                               *)
THEOREM NothingReplaced == Spec => NoSilentReplacement
<1> DEFINE A == revision' = revision =>
                  /\ failed => failed'
                  /\ view # Blank /\ view' # Blank => view'.gen = view.gen
<1>1. DemandInv /\ [Next]_vars => [A]_vars
  <2> SUFFICES ASSUME DemandInv, Next, revision' = revision
               PROVE  A
    OBVIOUS
  <2>0. revision \in Nat
    BY VisionAssumption DEF DemandInv, TypeOK
  <2>1. CASE UNCHANGED <<view, failed>>
    BY <2>1
  <2>2. CASE Fail
    BY <2>2 DEF Fail, Clear
  <2>3. CASE Accept
    <3>1. ~failed
      BY <2>3 DEF Accept, DemandInv, PortInv
    <3>2. UNCHANGED view \/ (generation \in {0, collector.got} /\ view'.gen = collector.got)
      BY <2>3 DEF Accept, port
    <3>3. QED
      BY <3>1, <3>2 DEF DemandInv, PortInv
  <2>4. ~SetDemand /\ ~Close
    <3>1. revision' # revision + 1
      BY <2>0
    <3>2. QED
      BY <3>1 DEF SetDemand, Close
  <2>5. QED
    BY <2>1, <2>2, <2>3, <2>4
    DEF Next, Manual, Idle, CameraDies, OwnerDies, Handle, Serve, ReadGeneration, SendState,
        SessionEnds, EndSession, ImageClient, Collector, Stumble, Collect, Connect, Request,
        Receive, Leave, Unpark, port
<1>2. QED
  BY <1>1, Inductive, PTL DEF Spec, NoSilentReplacement

-----------------------------------------------------------------------------
(* The acquisition of inputs.                                                *)

Items == [seq : Nat, visible : Nat, ok : BOOLEAN]

LaneStates ==
    [step : LaneSteps, device : Devices, started : Nat, returned : Nat,
     published : Nat, ok : BOOLEAN]

(* The steps between the number a poll takes and its publication. *)
Polling == {"READING", "READ", "PUBLISHING"}

(* The types the steps need; the bounds of the model come last.               *)
InputTypes ==
    /\ now \in Nat
    /\ sequence \in [Devices -> Nat]
    /\ history \in [Devices -> Seq(Items)]
    /\ lane \in [Lanes -> LaneStates]
    /\ lock \in Lanes \cup {NoLane}
    /\ stop \in BOOLEAN /\ workerFailed \in BOOLEAN /\ auxFailed \in BOOLEAN
    /\ todo \in [Lanes -> SUBSET Devices]
    /\ \A l \in Lanes : lane[l].device \in l /\ todo[l] \subseteq l

(* A device's history is in the order of its sequence numbers, none above the      *)
(* counter, and below it while a poll that took a number is under way.          *)
OrderInv ==
    /\ \A d \in Devices : \A i \in 1 .. Len(history[d]) :
          /\ history[d][i].seq <= sequence[d]
          /\ history[d][i].visible <= now
          /\ \A j \in 1 .. Len(history[d]) : i < j => history[d][i].seq < history[d][j].seq
    /\ \A l \in Lanes : lane[l].step \in Polling =>
          \A i \in 1 .. Len(history[lane[l].device]) :
             history[lane[l].device][i].seq < sequence[lane[l].device]

(* Who publishes has the lock, and stamped its publication after the last batch. *)
LockInv ==
    \A l \in Lanes : lane[l].step = "PUBLISHING" =>
        lock = l /\ batch.ns <= lane[l].published /\ lane[l].published <= now

(* No batch is of the future, none misses what it must have.                  *)
BatchInv ==
    /\ batch.ns \in Int /\ batch.ns <= now
    /\ CompleteCut

(* A worker ends because it was told to, or as the failure that is recorded; once   *)
(* close() has returned there is none.                                       *)
EndInv ==
    /\ stop => workerFailed \/ phase \notin {"STARTING", "OPEN"}
    /\ \A l \in Lanes : lane[l].step = "ENDED" => stop \/ (l = AuxLane /\ auxFailed)
    /\ phase = "CLOSED" => Joined

(* Nothing in a lane's histories is younger than the read it waits for.         *)
ReadInv ==
    \A l \in Lanes : lane[l].step = "READING" =>
        \A d \in l : \A i \in 1 .. Len(history[d]) : history[d][i].visible <= lane[l].started

(* What a worker found due is still due until it is published.                 *)
DueInv ==
    /\ now \in Times
    /\ due \in [Devices -> 0 .. MaxTime + Period]
    /\ \A l \in Lanes :
          /\ \A d \in todo[l] : due[d] <= now
          /\ lane[l].started <= now /\ lane[l].returned <= now /\ lane[l].published <= now
          /\ lane[l].step \in Polling => due[lane[l].device] <= now /\ lane[l].device \notin todo[l]

(* A history is a bounded buffer.                                           *)
ShapeInv ==
    /\ \A d \in Devices : Len(history[d]) <= HistorySize
    /\ phase \in {"STARTING", "OPEN", "GIVEN_UP", "CLOSING", "CLOSED"}
    /\ batch.ns \in Times \cup {-1}
    /\ batch.health \in [Devices -> {"OK", "FAILED", "UNKNOWN"}]

InputInv == InputTypes /\ OrderInv /\ LockInv /\ BatchInv /\ EndInv /\ ReadInv

BoundInv == DueInv /\ ShapeInv

-----------------------------------------------------------------------------
(* A set of positions has a last one: the CHOOSE of _select_visible is defined.    *)
LEMMA LargestOf ==
    ASSUME NEW n \in Nat, NEW S, S \subseteq 1 .. n, S # {}
    PROVE  \E i \in S : \A j \in S : j <= i
<1> DEFINE T == {k \in Nat : n - k \in S}
<1>1. T \subseteq Nat /\ T # {}
  <2>1. PICK i \in S : TRUE
    OBVIOUS
  <2>2. n - i \in Nat /\ n - (n - i) = i
    BY <2>1
  <2>3. QED
    BY <2>1, <2>2
<1>2. PICK k \in T : \A m \in T : ~(<<m, k>> \in OpToRel(<, Nat))
  BY <1>1, NatLessThanWellFounded, WFMin
<1>3. \A m \in T : k <= m
  <2> TAKE m \in T
  <2>1. m \in Nat /\ k \in Nat
    BY <1>2
  <2>2. ~(m < k)
    BY <1>2, <2>1 DEF OpToRel
  <2> HIDE DEF T
  <2>3. QED
    BY <2>1, <2>2
<1>4. \A j \in S : j <= n - k
  <2> TAKE j \in S
  <2>1. j \in Nat /\ n - j \in Nat /\ n - (n - j) = j
    OBVIOUS
  <2>2. n - j \in T
    BY <2>1
  <2>3. k <= n - j
    BY <2>2, <1>3
  <2>4. QED
    BY <2>1, <2>3
<1>5. QED
  BY <1>2, <1>4

(* The snapshot that is selected is visible and the last of those that are.        *)
LEMMA NewestVisible ==
    ASSUME NEW d, NEW ns, Len(history[d]) \in Nat, Visible(d, ns) # {}
    PROVE  /\ Newest(d, ns) \in Visible(d, ns)
           /\ \A j \in Visible(d, ns) : j <= Newest(d, ns)
<1>1. Visible(d, ns) \subseteq 1 .. Len(history[d])
  BY DEF Visible
<1>2. \E i \in Visible(d, ns) : \A j \in Visible(d, ns) : j <= i
  BY <1>1, LargestOf
<1>3. QED
  BY <1>2 DEF Newest

(* A bounded deque keeps the order of what it keeps, and its last item is the new one.*)
LEMMA AppendedItems ==
    ASSUME NEW old \in Seq(Items), NEW item \in Items
    PROVE  LET new == Appended(old, item)
               gone == IF Len(old) < HistorySize THEN 0 ELSE 1
           IN  /\ new \in Seq(Items)
               /\ Len(new) = Len(old) + 1 - gone
               /\ \A i \in 1 .. Len(new) : IF i = Len(new) THEN new[i] = item
                                           ELSE i + gone \in 1 .. Len(old) /\ new[i] = old[i + gone]
<1> DEFINE kept == IF Len(old) < HistorySize THEN old ELSE Tail(old)
           gone == IF Len(old) < HistorySize THEN 0 ELSE 1
<1>1. Len(old) \in Nat /\ HistorySize \in Nat \ {0}
  BY LenProperties, InputAssumption
<1>2. kept \in Seq(Items) /\ Len(kept) = Len(old) - gone
      /\ \A i \in 1 .. Len(kept) : kept[i] = old[i + gone]
  <2>1. CASE Len(old) < HistorySize
    BY <2>1, <1>1
  <2>2. CASE ~(Len(old) < HistorySize)
    <3>1. old # <<>>
      BY <2>2, <1>1, EmptySeq
    <3>2. QED
      BY <2>2, <3>1, HeadTailProperties
  <2>3. QED
    BY <2>1, <2>2
<1>3. Len(kept) \in Nat
  BY <1>2, LenProperties
<1>4. /\ Append(kept, item) \in Seq(Items)
      /\ Len(Append(kept, item)) = Len(kept) + 1
      /\ \A i \in 1 .. Len(kept) : Append(kept, item)[i] = kept[i]
      /\ Append(kept, item)[Len(kept) + 1] = item
  BY <1>2, AppendProperties
<1>5. Appended(old, item) = Append(kept, item)
  BY DEF Appended
<1> HIDE DEF kept
<1>6. QED
  BY <1>1, <1>2, <1>3, <1>4, <1>5

(* Every device has one lane.                                                *)
LEMMA LaneOf ==
    /\ \A l \in Lanes : l \subseteq Devices /\ l # {} /\ l # NoLane
    /\ \A k, l \in Lanes : k \cap l # {} => k = l
<1>1. Critical \cap Auxiliary = {}
  BY InputAssumption
<1>2. QED
  BY <1>1 DEF Lanes, Devices, NoLane

(* The state of a lane between two polls, and after its end.                   *)
LEMMA IdleLaneType ==
    ASSUME NEW l \in Lanes
    PROVE  IdleLane(l) \in LaneStates /\ EndedLane(l) \in LaneStates
           /\ IdleLane(l).device \in l /\ EndedLane(l).device \in l
           /\ IdleLane(l).step = "IDLE" /\ EndedLane(l).step = "ENDED"
           /\ \A s \in {IdleLane(l), EndedLane(l)} :
                 s.started = 0 /\ s.returned = 0 /\ s.published = 0
<1>1. (CHOOSE d \in l : TRUE) \in l /\ (CHOOSE d \in l : TRUE) \in Devices
  BY LaneOf
<1>2. IdleLane(l) \in LaneStates /\ IdleLane(l).step = "IDLE"
      /\ IdleLane(l).device = (CHOOSE d \in l : TRUE)
      /\ IdleLane(l).started = 0 /\ IdleLane(l).returned = 0 /\ IdleLane(l).published = 0
  BY <1>1 DEF IdleLane, LaneStates, LaneSteps
<1>3. EndedLane(l) \in LaneStates /\ EndedLane(l).step = "ENDED"
      /\ EndedLane(l).device = (CHOOSE d \in l : TRUE)
      /\ EndedLane(l).started = 0 /\ EndedLane(l).returned = 0 /\ EndedLane(l).published = 0
  BY <1>2 DEF EndedLane, LaneStates, LaneSteps
<1>4. QED
  BY <1>1, <1>2, <1>3


(* The items of a history are items.                                         *)
LEMMA HistoryTypes ==
    ASSUME InputTypes, NEW d \in Devices
    PROVE  /\ history[d] \in Seq(Items) /\ Len(history[d]) \in Nat /\ sequence[d] \in Nat
           /\ \A i \in 1 .. Len(history[d]) :
                history[d][i].seq \in Nat /\ history[d][i].visible \in Nat
<1>1. history[d] \in Seq(Items) /\ sequence[d] \in Nat
  BY DEF InputTypes
<1>2. \A i \in 1 .. Len(history[d]) : history[d][i] \in Items
  BY <1>1, ElementOfSeq
<1>3. QED
  BY <1>1, <1>2, LenProperties DEF Items

(* The invariant holds at the start.                                        *)
LEMMA InitInputs ==
    InputInit => InputInv
<1> SUFFICES ASSUME InputInit
             PROVE  InputInv
  OBVIOUS
<1>1. \A d \in Devices : history[d] = <<>> /\ Len(history[d]) = 0
  BY EmptySeq DEF InputInit
<1>2. InputTypes
  BY IdleLaneType, LaneOf, EmptySeq DEF InputInit, InputTypes, NoLane
<1>3. OrderInv /\ ReadInv
  BY <1>1, IdleLaneType DEF InputInit, OrderInv, ReadInv, Polling
<1>4. LockInv
  BY IdleLaneType DEF InputInit, LockInv
<1>5. BatchInv
  BY DEF InputInit, BatchInv, CompleteCut, NoBatch
<1>6. EndInv
  BY IdleLaneType DEF InputInit, EndInv
<1>7. QED
  BY <1>2, <1>3, <1>4, <1>5, <1>6 DEF InputInv


(* A lane looks for what is due, or ends.                                   *)
LEMMA FindDueStep ==
    ASSUME InputInv, NEW l \in Lanes, FindDue(l)
    PROVE  InputInv'
<1> USE DEF InputInv
<1>1. CASE stop /\ lane' = [lane EXCEPT ![l] = EndedLane(l)] /\ UNCHANGED todo
  <2>1. UNCHANGED <<now, sequence, history, lock, workerFailed, auxFailed, stop, phase, batch>>
    BY DEF FindDue
  <2>2. InputTypes' /\ \A k \in Lanes : lane'[k] = IF k = l THEN EndedLane(l) ELSE lane[k]
    BY <1>1, <2>1, IdleLaneType DEF InputTypes
  <2>3. OrderInv' /\ LockInv' /\ ReadInv'
    BY <2>1, <2>2, IdleLaneType DEF OrderInv, LockInv, ReadInv, Polling
  <2>4. BatchInv'
    BY <2>1 DEF BatchInv, CompleteCut
  <2>5. EndInv'
    BY <1>1, <2>1, <2>2, IdleLaneType DEF EndInv, Joined
  <2>6. QED
    BY <2>2, <2>3, <2>4, <2>5
<1>2. CASE todo' = [todo EXCEPT ![l] = {d \in l : due[d] <= now}] /\ UNCHANGED lane
  <2>1. UNCHANGED <<now, sequence, history, lock, workerFailed, auxFailed, stop, phase, batch>>
    BY DEF FindDue
  <2>2. InputTypes'
    BY <1>2, <2>1, LaneOf DEF InputTypes
  <2>3. OrderInv' /\ LockInv' /\ ReadInv' /\ BatchInv' /\ EndInv'
    BY <1>2, <2>1 DEF OrderInv, LockInv, ReadInv, BatchInv, CompleteCut, EndInv, Joined
  <2>4. QED
    BY <2>2, <2>3
<1>3. QED
  BY <1>1, <1>2 DEF FindDue

(* A poll takes its sequence number.                                        *)
LEMMA StartPollStep ==
    ASSUME InputInv, NEW l \in Lanes, StartPoll(l)
    PROVE  InputInv'
<1> USE DEF InputInv
<1>0. /\ UNCHANGED <<now, history, lock, workerFailed, auxFailed, stop, phase, batch>>
      /\ lane[l].step = "IDLE" /\ lane[l] \in LaneStates
  <2>1. lane[l] \in LaneStates
    BY DEF InputTypes
  <2>2. QED
    BY <2>1 DEF StartPoll
<1>1. CASE stop /\ lane' = [lane EXCEPT ![l] = EndedLane(l)] /\ todo' = [todo EXCEPT ![l] = {}]
           /\ UNCHANGED sequence
  <2>2. InputTypes' /\ \A k \in Lanes : lane'[k] = IF k = l THEN EndedLane(l) ELSE lane[k]
    BY <1>1, <1>0, IdleLaneType DEF InputTypes
  <2>3. OrderInv' /\ LockInv' /\ ReadInv'
    BY <1>0, <1>1, <2>2, IdleLaneType DEF OrderInv, LockInv, ReadInv, Polling
  <2>4. BatchInv'
    BY <1>0 DEF BatchInv, CompleteCut
  <2>5. EndInv'
    BY <1>1, <1>0, <2>2, IdleLaneType DEF EndInv, Joined
  <2>6. QED
    BY <2>2, <2>3, <2>4, <2>5
<1>2. ASSUME ~stop, NEW d \in todo[l],
             todo' = [todo EXCEPT ![l] = @ \ {d}],
             lane' = [lane EXCEPT ![l] = [@ EXCEPT !.step = "READING", !.device = d, !.started = now]],
             sequence' = [sequence EXCEPT ![d] = @ + 1]
      PROVE  InputInv'
  <2> DEFINE s == [lane[l] EXCEPT !.step = "READING", !.device = d, !.started = now]
  <2>1. d \in l /\ d \in Devices /\ now \in Nat
    BY LaneOf DEF InputTypes
  <2>2. s \in LaneStates /\ s.step = "READING" /\ s.device = d /\ s.started = now
    BY <1>0, <2>1 DEF LaneStates, LaneSteps
  <2>3. lane' \in [Lanes -> LaneStates] /\ \A k \in Lanes : lane'[k] = IF k = l THEN s ELSE lane[k]
    BY <1>2, <2>2 DEF InputTypes
  <2> HIDE DEF s
  <2>4. sequence' \in [Devices -> Nat]
        /\ \A e \in Devices : sequence'[e] = IF e = d THEN sequence[e] + 1 ELSE sequence[e]
    BY <1>2, <2>1 DEF InputTypes
  <2>5. \A e \in Devices : sequence[e] \in Nat /\ Len(history[e]) \in Nat
           /\ \A i \in 1 .. Len(history[e]) : history[e][i].seq \in Nat /\ history[e][i].visible \in Nat
    BY HistoryTypes
  <2>6. InputTypes'
    BY <1>0, <1>2, <2>1, <2>2, <2>3, <2>4 DEF InputTypes
  <2>7. OrderInv'
    <3>1. \A k \in Lanes : k # l => lane[k].device # d /\ lane[k].device \in Devices
      BY <2>1, LaneOf DEF InputTypes
    <3>2. \A e \in Devices : \A i \in 1 .. Len(history[e]) :
             /\ history[e][i].seq <= sequence'[e]
             /\ e = d => history[e][i].seq < sequence'[e]
      BY <2>4, <2>5 DEF OrderInv
    <3>3. ASSUME NEW k \in Lanes, lane'[k].step \in Polling,
                 NEW i \in 1 .. Len(history[lane'[k].device])
          PROVE  history[lane'[k].device][i].seq < sequence'[lane'[k].device]
      <4>1. CASE k = l
        BY <4>1, <2>1, <2>2, <2>3, <3>2, <3>3
      <4>2. CASE k # l
        BY <4>2, <2>3, <2>4, <3>1, <3>3 DEF OrderInv
      <4>3. QED
        BY <4>1, <4>2
    <3>4. QED
      BY <1>0, <3>2, <3>3 DEF OrderInv
  <2>8. LockInv' /\ BatchInv' /\ EndInv'
    BY <1>0, <2>2, <2>3 DEF LockInv, BatchInv, CompleteCut, EndInv, Joined
  <2>9. ReadInv'
    BY <1>0, <2>1, <2>2, <2>3, LaneOf DEF ReadInv, OrderInv
  <2>10. QED
    BY <2>6, <2>7, <2>8, <2>9
<1>3. QED
  BY <1>1, <1>2 DEF StartPoll

(* A read returns.                                                          *)
LEMMA ReadStep ==
    ASSUME InputInv, NEW l \in Lanes, ReadReturns(l)
    PROVE  InputInv'
<1> USE DEF InputInv
<1>1. /\ UNCHANGED <<now, sequence, history, todo, lock, workerFailed, auxFailed, stop, phase, batch>>
      /\ lane[l].step = "READING" /\ lane[l] \in LaneStates
  BY DEF ReadReturns, InputTypes
<1>2. PICK ok \in BOOLEAN :
         lane' = [lane EXCEPT ![l] = [@ EXCEPT !.step = "READ", !.returned = now, !.ok = ok]]
  BY DEF ReadReturns
<1> DEFINE s == [lane[l] EXCEPT !.step = "READ", !.returned = now, !.ok = ok]
<1>3. s \in LaneStates /\ s.step = "READ" /\ s.device = lane[l].device
  BY <1>1 DEF LaneStates, LaneSteps, InputTypes
<1>4. lane' \in [Lanes -> LaneStates] /\ \A k \in Lanes : lane'[k] = IF k = l THEN s ELSE lane[k]
  BY <1>2, <1>3 DEF InputTypes
<1> HIDE DEF s
<1>5. InputTypes'
  BY <1>1, <1>3, <1>4 DEF InputTypes
<1>6. OrderInv' /\ LockInv' /\ BatchInv' /\ EndInv' /\ ReadInv'
  BY <1>1, <1>3, <1>4 DEF OrderInv, Polling, LockInv, BatchInv, CompleteCut, EndInv,
                          Joined, ReadInv
<1>7. QED
  BY <1>5, <1>6

(* A publication is stamped under the lock.                                 *)
LEMMA StampStep ==
    ASSUME InputInv, NEW l \in Lanes, StampPublication(l)
    PROVE  InputInv'
<1> USE DEF InputInv
<1>1. /\ UNCHANGED <<now, sequence, history, todo, workerFailed, auxFailed, stop, phase, batch>>
      /\ lock = NoLane /\ lock' = l
      /\ lane[l].step = "READ" /\ lane[l] \in LaneStates
      /\ lane' = [lane EXCEPT ![l] = [@ EXCEPT !.step = "PUBLISHING", !.published = now]]
  BY DEF StampPublication, LockFree, InputTypes
<1> DEFINE s == [lane[l] EXCEPT !.step = "PUBLISHING", !.published = now]
<1>3. s \in LaneStates /\ s.step = "PUBLISHING" /\ s.device = lane[l].device /\ s.published = now
  BY <1>1 DEF LaneStates, LaneSteps, InputTypes
<1>4. lane' \in [Lanes -> LaneStates] /\ \A k \in Lanes : lane'[k] = IF k = l THEN s ELSE lane[k]
  BY <1>1, <1>3 DEF InputTypes
<1> HIDE DEF s
<1>5. InputTypes'
  BY <1>1, <1>3, <1>4 DEF InputTypes
<1>6. OrderInv' /\ BatchInv' /\ EndInv' /\ ReadInv'
  BY <1>1, <1>3, <1>4 DEF OrderInv, Polling, BatchInv, CompleteCut, EndInv, Joined, ReadInv
<1>7. LockInv'
  BY <1>1, <1>3, <1>4, LaneOf DEF LockInv, BatchInv, InputTypes
<1>8. QED
  BY <1>5, <1>6, <1>7

(* A worker dies.                                                           *)
LEMMA FailStep ==
    ASSUME InputInv, NEW l \in Lanes, WorkerFails(l)
    PROVE  InputInv'
<1> USE DEF InputInv
<1>1. /\ UNCHANGED <<now, sequence, history, todo, lock, phase, batch>>
      /\ lane' = [lane EXCEPT ![l] = EndedLane(l)]
      /\ lane[l].step # "PUBLISHING"
      /\ \/ l = AuxLane /\ auxFailed' = TRUE /\ workerFailed' = workerFailed /\ stop' = stop
         \/ workerFailed' = TRUE /\ stop' = TRUE /\ auxFailed' = auxFailed
  BY DEF WorkerFails
<1>2. InputTypes' /\ \A k \in Lanes : lane'[k] = IF k = l THEN EndedLane(l) ELSE lane[k]
  <2>1. stop' \in BOOLEAN /\ workerFailed' \in BOOLEAN /\ auxFailed' \in BOOLEAN
    BY <1>1 DEF InputTypes
  <2>2. lane' \in [Lanes -> LaneStates]
        /\ \A k \in Lanes : lane'[k] = IF k = l THEN EndedLane(l) ELSE lane[k]
    BY <1>1, IdleLaneType DEF InputTypes
  <2>3. QED
    BY <1>1, <2>1, <2>2, IdleLaneType DEF InputTypes
<1>3. OrderInv' /\ LockInv' /\ ReadInv' /\ BatchInv'
  BY <1>1, <1>2, IdleLaneType DEF OrderInv, LockInv, ReadInv, Polling, BatchInv, CompleteCut
<1>4. EndInv'
  BY <1>1, <1>2, IdleLaneType DEF EndInv, Joined
<1>5. QED
  BY <1>2, <1>3, <1>4

(* The publication: a new item, the lock is free again.                     *)
LEMMA PublishStep ==
    ASSUME InputInv, NEW l \in Lanes, Publish(l)
    PROVE  InputInv'
<1> USE DEF InputInv
<1> DEFINE d == lane[l].device
           item == [seq |-> sequence[d], visible |-> lane[l].published, ok |-> lane[l].ok]
           new == Appended(history[d], item)
           gone == IF Len(history[d]) < HistorySize THEN 0 ELSE 1
<1>1. /\ UNCHANGED <<now, sequence, todo, workerFailed, auxFailed, stop, phase, batch>>
      /\ lane[l].step = "PUBLISHING" /\ lock' = NoLane
      /\ history' = [history EXCEPT ![d] = new]
      /\ lane' = [lane EXCEPT ![l] = IdleLane(l)]
  BY DEF Publish
<1>2. d \in l /\ d \in Devices /\ lane[l] \in LaneStates
  BY LaneOf DEF InputTypes
<1>3. item \in Items /\ item.seq = sequence[d] /\ item.visible = lane[l].published
  BY <1>2 DEF Items, InputTypes, LaneStates
<1>4. /\ new \in Seq(Items)
      /\ Len(new) = Len(history[d]) + 1 - gone
      /\ \A i \in 1 .. Len(new) : IF i = Len(new) THEN new[i] = item
                                  ELSE i + gone \in 1 .. Len(history[d]) /\ new[i] = history[d][i + gone]
  <2>1. history[d] \in Seq(Items)
    BY <1>2 DEF InputTypes
  <2> HIDE DEF item, d
  <2>2. QED
    BY <1>3, <2>1, AppendedItems
<1>5. gone \in 0 .. 1
  OBVIOUS
<1>6. \A e \in Devices : history'[e] = IF e = d THEN new ELSE history[e]
  BY <1>1, <1>2 DEF InputTypes
<1>7. \A k \in Lanes : lane'[k] = IF k = l THEN IdleLane(l) ELSE lane[k]
  BY <1>1 DEF InputTypes
<1>8. /\ lock = l /\ batch.ns <= item.visible /\ item.visible <= now /\ item.visible \in Nat
      /\ item.seq \in Nat
      /\ \A i \in 1 .. Len(history[d]) : history[d][i].seq < item.seq
  BY <1>1, <1>2, <1>3 DEF LockInv, OrderInv, Polling, Items
<1>9. \A e \in Devices : sequence[e] \in Nat /\ Len(history[e]) \in Nat
         /\ \A i \in 1 .. Len(history[e]) : history[e][i].seq \in Nat /\ history[e][i].visible \in Nat
  BY HistoryTypes
<1>10. InputTypes'
  <2>1. history' \in [Devices -> Seq(Items)]
    BY <1>1, <1>4 DEF InputTypes
  <2>2. lane' \in [Lanes -> LaneStates] /\ \A k \in Lanes : lane'[k].device \in k
    BY <1>1, <1>7, IdleLaneType DEF InputTypes
  <2>3. QED
    BY <1>1, <2>1, <2>2 DEF InputTypes
<1>11. \A k \in Lanes : k # l => d \notin k /\ lane[k].device # d /\ lane[k].device \in Devices
  BY <1>2, LaneOf DEF InputTypes
<1>12. item.seq = sequence[d] /\ Len(new) \in Nat
  BY <1>3, <1>4, LenProperties
<1> HIDE DEF d, item, new, gone
<1>13. OrderInv'
  <2>1. \A i \in 1 .. Len(new) :
          /\ new[i].seq <= sequence[d] /\ new[i].visible <= now
          /\ \A j \in 1 .. Len(new) : i < j => new[i].seq < new[j].seq
    <3>1. \A i \in 1 .. Len(history[d]) :
            /\ history[d][i].seq < item.seq /\ history[d][i].visible <= now
            /\ \A j \in 1 .. Len(history[d]) : i < j => history[d][i].seq < history[d][j].seq
      BY <1>2, <1>8 DEF OrderInv
    <3>2. \A i \in 1 .. Len(new) : new[i].seq <= sequence[d] /\ new[i].visible <= now
      <4> TAKE i \in 1 .. Len(new)
      <4>1. CASE i = Len(new)
        BY <4>1, <1>2, <1>4, <1>8, <1>9, <1>12
      <4>2. CASE i # Len(new)
        <5>1. i + gone \in 1 .. Len(history[d]) /\ new[i] = history[d][i + gone]
          BY <4>2, <1>4
        <5>2. QED
          BY <5>1, <1>2, <1>9, <1>12, <3>1
      <4>3. QED
        BY <4>1, <4>2
    <3>3. ASSUME NEW i \in 1 .. Len(new), NEW j \in 1 .. Len(new), i < j
          PROVE  new[i].seq < new[j].seq
      <4>1. i # Len(new) /\ i + gone \in 1 .. Len(history[d]) /\ new[i] = history[d][i + gone]
        BY <1>4, <1>12, <3>3
      <4>2. CASE j = Len(new)
        BY <1>4, <3>1, <4>1, <4>2
      <4>3. CASE j # Len(new)
        BY <1>4, <1>5, <3>1, <3>3, <4>1, <4>3
      <4>4. QED
        BY <4>2, <4>3
    <3>4. QED
      BY <3>2, <3>3
  <2>2. \A k \in Lanes : lane'[k].step \in Polling => k # l
    BY <1>7, IdleLaneType DEF Polling
  <2>3. \A e \in Devices : \A i \in 1 .. Len(history'[e]) :
          /\ history'[e][i].seq <= sequence[e] /\ history'[e][i].visible <= now
          /\ \A j \in 1 .. Len(history'[e]) : i < j => history'[e][i].seq < history'[e][j].seq
    <3> TAKE e \in Devices
    <3>1. CASE e = d
      BY <1>6, <2>1, <3>1
    <3>2. CASE e # d
      <4>1. history'[e] = history[e]
        BY <1>6, <3>2
      <4>2. QED
        BY <4>1 DEF OrderInv
    <3>3. QED
      BY <3>1, <3>2
  <2>4. \A k \in Lanes : lane'[k].step \in Polling =>
          \A i \in 1 .. Len(history'[lane'[k].device]) :
             history'[lane'[k].device][i].seq < sequence[lane'[k].device]
    <3> SUFFICES ASSUME NEW k \in Lanes, lane'[k].step \in Polling
                 PROVE  \A i \in 1 .. Len(history'[lane'[k].device]) :
                           history'[lane'[k].device][i].seq < sequence[lane'[k].device]
      OBVIOUS
    <3>1. k # l /\ lane'[k] = lane[k]
      BY <1>7, <2>2
    <3>2. history'[lane[k].device] = history[lane[k].device]
      BY <1>6, <1>11, <3>1
    <3>3. QED
      BY <3>1, <3>2 DEF OrderInv
  <2>5. QED
    BY <1>1, <2>3, <2>4 DEF OrderInv
<1>14. LockInv'
  BY <1>1, <1>7, <1>8, IdleLaneType DEF LockInv
<1>15. BatchInv'
  <2> SUFFICES ASSUME batch.ns >= 0, NEW e \in Devices, NEW i \in 1 .. Len(history'[e]),
                      history'[e][i].visible < batch.ns
               PROVE  history'[e][i].seq <= batch.cut[e]
    BY <1>1 DEF BatchInv, CompleteCut
  <2>1. CASE e = d
    <3>1. new[i].visible < batch.ns /\ i \in 1 .. Len(new)
      BY <1>6, <2>1
    <3>2. i + gone \in 1 .. Len(history[d]) /\ new[i] = history[d][i + gone]
      BY <3>1, <1>4, <1>8 DEF BatchInv
    <3>3. QED
      BY <2>1, <3>1, <3>2, <1>2, <1>6 DEF BatchInv, CompleteCut
  <2>2. CASE e # d
    BY <2>2, <1>6 DEF BatchInv, CompleteCut
  <2>3. QED
    BY <2>1, <2>2
<1>16. EndInv'
  BY <1>1, <1>7, IdleLaneType DEF EndInv, Joined
<1>17. ReadInv'
  BY <1>6, <1>7, <1>11, IdleLaneType, LaneOf DEF ReadInv
<1>18. QED
  BY <1>10, <1>13, <1>14, <1>15, <1>16, <1>17

(* A tick takes its batch while nobody publishes.                           *)
LEMMA BeginTickStep ==
    ASSUME InputInv, BeginTick
    PROVE  InputInv'
<1> USE DEF InputInv
<1>1. /\ UNCHANGED <<now, sequence, history, lane, todo, lock, workerFailed, auxFailed, stop, phase>>
      /\ lock = NoLane /\ batch' = Closure(now)
  BY DEF BeginTick, laneVars, LockFree
<1>2. now \in Nat /\ batch'.ns = now
  BY <1>1 DEF InputTypes, Closure
<1>3. ASSUME NEW d \in Devices, NEW i \in 1 .. Len(history[d]), history[d][i].visible < now
      PROVE  history[d][i].seq <= batch'.cut[d]
  <2>1. history[d][i].visible \in Nat /\ Len(history[d]) \in Nat
    BY HistoryTypes
  <2>2. i \in Visible(d, now)
    BY <1>2, <1>3, <2>1 DEF Visible
  <2>3. /\ Newest(d, now) \in 1 .. Len(history[d]) /\ i <= Newest(d, now)
    BY <2>1, <2>2, NewestVisible DEF Visible
  <2>4. batch'.cut[d] = history[d][Newest(d, now)].seq
    BY <1>1, <2>2 DEF Closure
  <2>5. history[d][i].seq <= history[d][Newest(d, now)].seq
    BY <2>1, <2>3, HistoryTypes DEF OrderInv
  <2>6. QED
    BY <2>4, <2>5
<1>4. BatchInv'
  BY <1>1, <1>2, <1>3 DEF BatchInv, CompleteCut
<1>5. \A l \in Lanes : lane[l].step # "PUBLISHING"
  BY <1>1, LaneOf DEF LockInv
<1>6. QED
  BY <1>1, <1>4, <1>5 DEF InputTypes, OrderInv, LockInv, EndInv, Joined, ReadInv

(* Time passes.                                                             *)
LEMMA TimeStep == ASSUME InputInv, TimePasses
                  PROVE  InputInv'
<1> USE DEF InputInv
<1>1. /\ UNCHANGED <<sequence, history, lane, todo, lock, workerFailed, auxFailed, stop, phase, batch>>
      /\ now \in Nat /\ now' = now + 1
  BY DEF TimePasses, laneVars, InputTypes
<1>2. InputTypes' /\ EndInv' /\ ReadInv'
  BY <1>1 DEF InputTypes, EndInv, Joined, ReadInv
<1>3. OrderInv'
  BY <1>1, HistoryTypes DEF OrderInv
<1>4. LockInv'
  BY <1>1 DEF LockInv, InputTypes, LaneStates
<1>5. BatchInv'
  BY <1>1 DEF BatchInv, CompleteCut
<1>6. QED
  BY <1>2, <1>3, <1>4, <1>5

(* The reader opens, gives up or closes.                                    *)
LEMMA ReaderStep == ASSUME InputInv, Construct \/ CloseInputs \/ FinishClose
                    PROVE  InputInv'
<1> USE DEF InputInv
<1>1. /\ UNCHANGED <<now, sequence, history, lane, todo, lock, workerFailed, auxFailed, batch>>
      /\ \/ phase' = "OPEN" /\ phase = "STARTING" /\ ~workerFailed /\ stop' = stop
         \/ phase' \in {"GIVEN_UP", "CLOSING"} /\ stop' = TRUE
         \/ phase' \in {"CLOSED", "GIVEN_UP"} /\ stop' = stop /\ (phase' = "CLOSED" => Joined)
  BY DEF Construct, CloseInputs, FinishClose, laneVars
<1>2. InputTypes'
  BY <1>1 DEF InputTypes
<1>3. OrderInv' /\ LockInv' /\ BatchInv' /\ ReadInv'
  BY <1>1 DEF OrderInv, LockInv, BatchInv, CompleteCut, ReadInv
<1>4. EndInv'
  BY <1>1 DEF EndInv, Joined
<1>5. QED
  BY <1>2, <1>3, <1>4

(* Every step keeps the invariant.                                          *)
LEMMA InputsStep ==
    InputInv /\ [InputNext]_inputVars => InputInv'
<1> SUFFICES ASSUME InputInv, [InputNext]_inputVars
             PROVE  InputInv'
  OBVIOUS
<1>1. ASSUME NEW l \in Lanes, LaneStep(l)
      PROVE  InputInv'
  BY <1>1, FindDueStep, StartPollStep, ReadStep, StampStep, PublishStep, FailStep DEF LaneStep
<1>2. CASE UNCHANGED inputVars
  BY <1>2 DEF inputVars, laneVars, InputInv, InputTypes, OrderInv, LockInv, BatchInv,
              CompleteCut, EndInv, Joined, ReadInv
<1>3. QED
  BY <1>1, <1>2, ReaderStep, BeginTickStep, TimeStep DEF InputNext

(* The inductive invariant of the acquisition.                              *)
THEOREM InputsInductive ==
    InputSpec => []InputInv
<1>1. QED
  BY InitInputs, InputsStep, PTL DEF InputSpec

(* A tick's batch misses no snapshot that was published before it: publication and tick *)
(* exclude each other, so what comes later is not older.                    *)
THEOREM CutComplete ==
    InputSpec => []CompleteCut
<1>1. InputInv => CompleteCut
  BY DEF InputInv, BatchInv
<1>2. QED
  BY <1>1, InputsInductive, PTL

(* Only a tick takes a batch.                                                *)
LEMMA OnlyTicks == ASSUME InputNext, batch' # batch
                   PROVE  BeginTick
BY DEF InputNext, LaneStep, FindDue, StartPoll, ReadReturns, StampPublication,
       Publish, WorkerFails, Construct, CloseInputs, FinishClose, TimePasses

(* No tick takes a batch that calls a device of a dead or hanging worker healthy. *)
THEOREM LostLaneNotOk ==
    InputSpec => LostLaneIsNotOk
<1> DEFINE Lost(l) == \/ lane[l].step = "ENDED"
                      \/ lane[l].step = "READING" /\ batch'.ns > lane[l].started + MaxAge
           A == batch' # batch =>
                  \A l \in Lanes : Lost(l) => \A d \in l : batch'.health[d] # "OK"
<1>1. InputInv /\ [InputNext]_inputVars => [A]_inputVars
  <2> SUFFICES ASSUME InputInv, InputNext, batch' # batch, NEW l \in Lanes, Lost(l), NEW d \in l
               PROVE  batch'.health[d] # "OK"
    OBVIOUS
  <2>1. BeginTick
    BY OnlyTicks
  <2>2. d \in Devices /\ now \in Nat /\ MaxAge \in Nat
    BY LaneOf, InputAssumption DEF InputInv, InputTypes
  <2>3. batch'.ns = now /\ batch'.health[d] = Health(d, now)
    BY <2>1, <2>2 DEF BeginTick, Closure
  <2>4. CASE Visible(d, now) = {}
    BY <2>3, <2>4 DEF Health
  <2>5. CASE Visible(d, now) # {} /\ lane[l].step = "ENDED"
    <3>1. ~stop /\ l = Auxiliary /\ auxFailed
      BY <2>1, <2>5 DEF InputInv, EndInv, BeginTick, Readable, AuxLane
    <3>2. QED
      BY <2>3, <2>5, <3>1 DEF Health
  <2>6. CASE Visible(d, now) # {} /\ lane[l].step = "READING" /\ now > lane[l].started + MaxAge
    <3> DEFINE i == Newest(d, now)
    <3>1. i \in 1 .. Len(history[d]) /\ history[d][i].visible \in Nat
      BY <2>2, <2>6, HistoryTypes, NewestVisible DEF InputInv, Visible
    <3>2. history[d][i].visible <= lane[l].started /\ lane[l].started \in Nat
      BY <2>6, <3>1 DEF InputInv, ReadInv, InputTypes, LaneStates
    <3>3. now - history[d][i].visible > MaxAge
      BY <2>2, <2>6, <3>1, <3>2
    <3>4. QED
      BY <2>3, <2>6, <3>3 DEF Health
  <2>7. QED
    BY <2>3, <2>4, <2>5, <2>6
<1>2. QED
  BY <1>1, InputsInductive, PTL DEF InputSpec, LostLaneIsNotOk

(* After close() has returned nothing is published.                         *)
THEOREM QuietAfterClose ==
    InputSpec => ClosedIsQuiet
<1> DEFINE A == phase = "CLOSED" => UNCHANGED history
<1>1. InputInv /\ [InputNext]_inputVars => [A]_inputVars
  <2> SUFFICES ASSUME InputInv, InputNext, phase = "CLOSED"
               PROVE  UNCHANGED history
    OBVIOUS
  <2>1. \A l \in Lanes : lane[l].step = "ENDED"
    BY DEF InputInv, EndInv, Joined
  <2>2. QED
    BY <2>1 DEF InputNext, LaneStep, FindDue, StartPoll, ReadReturns,
                StampPublication, Publish, WorkerFails, Construct, BeginTick,
                CloseInputs, FinishClose, TimePasses, laneVars
<1>2. QED
  BY <1>1, InputsInductive, PTL DEF InputSpec, ClosedIsQuiet

-----------------------------------------------------------------------------
(* Division with remainder.                                                 *)
LEMMA DivBounds ==
    ASSUME NEW a \in Nat, NEW p \in Nat \ {0}
    PROVE  /\ a \div p \in Nat
           /\ (a \div p) * p \in Nat
           /\ (a \div p) * p <= a
           /\ a < (a \div p) * p + p
    BY SMTT(30)

(* _deadline_advance does not leap over a period.                              *)
LEMMA NextDueFits ==
    ASSUME NEW anchor \in Nat, NEW seen \in Nat, NEW t \in Nat, anchor <= t, seen <= t
    PROVE  NextDue(anchor, seen) \in 0 .. t + Period
<1> DEFINE next == anchor + Period
           q == (seen - next) \div Period
<1>0. Period \in Nat \ {0} /\ next \in Nat
  BY InputAssumption
<1>1. CASE next <= seen
  <2>1. /\ q \in Nat
        /\ q * Period \in Nat
        /\ q * Period <= seen - next
    BY <1>0, <1>1, DivBounds
  <2>2. NextDue(anchor, seen) = next + (q + 1) * Period
    BY <1>1 DEF NextDue
  <2> HIDE DEF q
  <2>3. (q + 1) * Period = q * Period + Period
    BY <1>0, <2>1, SMTT(30)
  <2>4. QED
    BY <1>0, <2>1, <2>2, <2>3
<1>2. CASE ~(next <= seen)
  BY <1>0, <1>2 DEF NextDue
<1>3. QED
  BY <1>1, <1>2

(* So do the bounds.                                                        *)
LEMMA InitBounds ==
    InputInit => BoundInv
<1> SUFFICES ASSUME InputInit
             PROVE  BoundInv
  OBVIOUS
<1>1. MaxTime \in Nat /\ Period \in Nat /\ HistorySize \in Nat
  BY InputAssumption
<1>2. \A d \in Devices : Len(history[d]) = 0
  BY EmptySeq DEF InputInit
<1>3. ShapeInv
  BY <1>1, <1>2 DEF InputInit, ShapeInv, NoBatch
<1>4. \A l \in Lanes : lane[l] = IdleLane(l) /\ IdleLane(l).started = 0 /\ IdleLane(l).returned = 0
                       /\ IdleLane(l).published = 0
  BY IdleLaneType DEF InputInit
<1>5. DueInv
  BY <1>1, <1>4, IdleLaneType DEF InputInit, DueInv, Times, Polling
<1>6. QED
  BY <1>3, <1>5 DEF BoundInv

(* The values of a health.                                                  *)
LEMMA HealthType == \A d, ns : Health(d, ns) \in {"OK", "FAILED", "UNKNOWN"}
BY DEF Health

(* Every step keeps the histories bounded.                                  *)
LEMMA ShapeStep ==
    InputInv /\ BoundInv /\ [InputNext]_inputVars => ShapeInv'
<1> SUFFICES ASSUME InputInv, BoundInv, [InputNext]_inputVars
             PROVE  ShapeInv'
  OBVIOUS
<1>1. ASSUME NEW l \in Lanes, Publish(l)
      PROVE  ShapeInv'
  <2> DEFINE d == lane[l].device
             item == [seq |-> sequence[d], visible |-> lane[l].published, ok |-> lane[l].ok]
  <2>1. /\ d \in Devices /\ item \in Items /\ history[d] \in Seq(Items)
        /\ history' = [history EXCEPT ![d] = Appended(history[d], item)]
    BY <1>1, LaneOf DEF InputInv, InputTypes, LaneStates, Items, Publish
  <2> HIDE DEF d, item
  <2>2. Len(Appended(history[d], item)) <= HistorySize
    <3>1. Len(history[d]) \in Nat /\ Len(history[d]) <= HistorySize /\ HistorySize \in Nat
      BY <2>1, InputAssumption, LenProperties DEF BoundInv, ShapeInv
    <3>2. Len(Appended(history[d], item)) =
             Len(history[d]) + 1 - IF Len(history[d]) < HistorySize THEN 0 ELSE 1
      BY <2>1, AppendedItems
    <3>3. QED
      BY <3>1, <3>2
  <2>3. \A e \in Devices : history'[e] = IF e = d THEN Appended(history[d], item) ELSE history[e]
    BY <2>1 DEF InputInv, InputTypes
  <2>4. UNCHANGED <<phase, batch>>
    BY <1>1 DEF Publish
  <2>5. QED
    BY <2>2, <2>3, <2>4 DEF BoundInv, ShapeInv
<1>2. CASE BeginTick
  <2>1. batch' = Closure(now) /\ UNCHANGED <<history, phase>> /\ now \in Times
    BY <1>2 DEF BeginTick, laneVars, BoundInv, DueInv
  <2>2. batch'.ns \in Times \cup {-1} /\ batch'.health \in [Devices -> {"OK", "FAILED", "UNKNOWN"}]
    BY <2>1, HealthType DEF Closure
  <2>3. QED
    BY <2>1, <2>2 DEF BoundInv, ShapeInv
<1>3. ASSUME NEW l \in Lanes,
             FindDue(l) \/ StartPoll(l) \/ ReadReturns(l) \/ StampPublication(l) \/ WorkerFails(l)
      PROVE  ShapeInv'
  <2>1. UNCHANGED <<history, phase, batch>>
    BY <1>3 DEF FindDue, StartPoll, ReadReturns, StampPublication, WorkerFails
  <2>2. QED
    BY <2>1 DEF BoundInv, ShapeInv
<1>4. CASE Construct \/ CloseInputs \/ FinishClose \/ TimePasses \/ UNCHANGED inputVars
  BY <1>4 DEF Construct, CloseInputs, FinishClose, TimePasses, inputVars, laneVars,
              BoundInv, ShapeInv
<1>5. QED
  BY <1>1, <1>2, <1>3, <1>4 DEF InputNext, LaneStep

(* Every step keeps the due times and the clock of the lanes in bounds.     *)
LEMMA DueStep ==
    InputInv /\ BoundInv /\ [InputNext]_inputVars => DueInv'
<1> SUFFICES ASSUME InputInv, BoundInv, [InputNext]_inputVars
             PROVE  DueInv'
  OBVIOUS
<1>0. /\ MaxTime \in Nat /\ Period \in Nat /\ now \in Times /\ Times \subseteq Nat
      /\ due \in [Devices -> 0 .. MaxTime + Period]
      /\ lane \in [Lanes -> LaneStates] /\ todo \in [Lanes -> SUBSET Devices]
      /\ \A l \in Lanes : lane[l] \in LaneStates /\ lane[l].device \in l /\ todo[l] \subseteq l
  BY InputAssumption DEF InputInv, InputTypes, BoundInv, DueInv, Times
<1>1. ASSUME NEW l \in Lanes, FindDue(l)
      PROVE  DueInv'
  <2>1. /\ UNCHANGED <<now, due>>
        /\ \A k \in Lanes : lane'[k] = lane[k] \/ lane'[k] = EndedLane(k)
        /\ \A k \in Lanes : \A d \in todo'[k] : due[d] <= now
        /\ \A k \in Lanes : lane'[k].step \in Polling => todo'[k] = todo[k]
    BY <1>0, <1>1, IdleLaneType DEF FindDue, BoundInv, DueInv, Polling
  <2>2. QED
    BY <1>0, <2>1, IdleLaneType DEF BoundInv, DueInv, Polling, Times
<1>2. ASSUME NEW l \in Lanes, StartPoll(l)
      PROVE  DueInv'
  <2>1. UNCHANGED <<now, due>>
    BY <1>2 DEF StartPoll
  <2>2. ASSUME NEW k \in Lanes, k # l
        PROVE  lane'[k] = lane[k] /\ todo'[k] = todo[k]
    <3>1. \/ lane' = [lane EXCEPT ![l] = EndedLane(l)] /\ todo' = [todo EXCEPT ![l] = {}]
          \/ \E d \in todo[l] :
               /\ todo' = [todo EXCEPT ![l] = @ \ {d}]
               /\ lane' = [lane EXCEPT ![l] = [@ EXCEPT !.step = "READING", !.device = d,
                                                       !.started = now]]
      BY <1>2 DEF StartPoll
    <3>2. QED
      BY <1>0, <2>2, <3>1
  <2>3. CASE lane' = [lane EXCEPT ![l] = EndedLane(l)] /\ todo' = [todo EXCEPT ![l] = {}]
    <3>1. lane'[l] = EndedLane(l) /\ todo'[l] = {}
      BY <1>0, <2>3
    <3>2. QED
      BY <1>0, <2>1, <2>2, <3>1, IdleLaneType DEF BoundInv, DueInv, Polling, Times
  <2>4. ASSUME NEW d \in todo[l], todo' = [todo EXCEPT ![l] = @ \ {d}],
               lane' = [lane EXCEPT ![l] = [@ EXCEPT !.step = "READING", !.device = d, !.started = now]]
        PROVE  DueInv'
    <3>1. /\ lane'[l].device = d /\ lane'[l].started = now /\ lane'[l].returned = lane[l].returned
          /\ lane'[l].published = lane[l].published
      BY <1>0, <2>4 DEF LaneStates
    <3>2. todo'[l] = todo[l] \ {d} /\ due[d] <= now
      BY <1>0, <2>4 DEF BoundInv, DueInv
    <3>3. QED
      BY <1>0, <2>1, <2>2, <3>1, <3>2 DEF BoundInv, DueInv
  <2>5. QED
    BY <1>2, <2>3, <2>4 DEF StartPoll
<1>3. ASSUME NEW l \in Lanes, ReadReturns(l) \/ StampPublication(l)
      PROVE  DueInv'
  <2>1. UNCHANGED <<now, due, todo>> /\ lane[l].step \in Polling
    BY <1>3 DEF ReadReturns, StampPublication, Polling
  <2>2. \A k \in Lanes : k # l => lane'[k] = lane[k]
    BY <1>0, <1>3 DEF ReadReturns, StampPublication
  <2>3. /\ lane'[l].device = lane[l].device /\ lane'[l].started = lane[l].started
        /\ lane'[l].returned \in {lane[l].returned, now}
        /\ lane'[l].published \in {lane[l].published, now}
    <3>1. lane[l] \in LaneStates
      BY <1>0
    <3>2. CASE ReadReturns(l)
      BY <1>0, <3>1, <3>2 DEF ReadReturns, LaneStates
    <3>3. CASE StampPublication(l)
      BY <1>0, <3>1, <3>3 DEF StampPublication, LaneStates
    <3>4. QED
      BY <1>3, <3>2, <3>3
  <2>4. QED
    BY <1>0, <2>1, <2>2, <2>3 DEF BoundInv, DueInv
<1>4. ASSUME NEW l \in Lanes, WorkerFails(l)
      PROVE  DueInv'
  <2>1. UNCHANGED <<now, due, todo>> /\ \A k \in Lanes : lane'[k] = IF k = l THEN EndedLane(l) ELSE lane[k]
    BY <1>0, <1>4 DEF WorkerFails
  <2>2. QED
    BY <1>0, <2>1, IdleLaneType DEF BoundInv, DueInv, Polling, Times
<1>5. ASSUME NEW l \in Lanes, Publish(l)
      PROVE  DueInv'
  <2> DEFINE d == lane[l].device
             next == NextDue(Anchor(l), lane[l].returned)
  <2>1. /\ UNCHANGED <<now, todo>> /\ due' = [due EXCEPT ![d] = next]
        /\ lane[l].step \in Polling
    BY <1>5 DEF Publish, Polling
  <2>2. \A k \in Lanes : lane'[k] = IF k = l THEN IdleLane(l) ELSE lane[k]
    BY <1>0, <1>5 DEF Publish
  <2>3. d \in Devices /\ d \in l /\ d \notin todo[l] /\ due[d] <= now /\ lane[l].started <= now
        /\ lane[l].returned <= now
    BY <1>0, <2>1, LaneOf DEF BoundInv, DueInv
  <2>4. next \in 0 .. MaxTime + Period
    <3>1. Anchor(l) \in Nat /\ Anchor(l) <= now /\ lane[l].returned \in Nat
      BY <1>0, <2>3 DEF Anchor, LaneStates
    <3>2. next \in 0 .. now + Period
      BY <1>0, <2>3, <3>1, NextDueFits
    <3>3. QED
      BY <1>0, <3>2 DEF Times
  <2> HIDE DEF next, d
  <2>5. \A k \in Lanes : k # l => d \notin todo[k] /\ lane[k].device # d
    BY <1>0, <2>3, LaneOf
  <2>6. \A e \in Devices : e # d => due'[e] = due[e]
    BY <1>0, <2>1
  <2>7. due' \in [Devices -> 0 .. MaxTime + Period]
    BY <1>0, <2>1, <2>4
  <2>8. QED
    BY <1>0, <2>1, <2>2, <2>3, <2>5, <2>6, <2>7, LaneOf, IdleLaneType
    DEF BoundInv, DueInv, Polling, Times
<1>6. CASE Construct \/ BeginTick \/ CloseInputs \/ FinishClose \/ UNCHANGED inputVars
  BY <1>6 DEF Construct, BeginTick, CloseInputs, FinishClose, inputVars, laneVars,
              BoundInv, DueInv
<1>7. CASE TimePasses
  <2>1. UNCHANGED <<due, lane, todo>> /\ now' = now + 1 /\ now < MaxTime
    BY <1>7 DEF TimePasses, laneVars
  <2>2. now' \in Times
    BY <1>0, <2>1 DEF Times
  <2>3. \A l \in Lanes : lane[l].started \in Nat /\ lane[l].returned \in Nat /\ lane[l].published \in Nat
    BY <1>0 DEF LaneStates
  <2>4. \A e \in Devices : due[e] \in Nat
    BY <1>0
  <2>5. QED
    BY <1>0, <2>1, <2>2, <2>3, <2>4, LaneOf DEF BoundInv, DueInv
<1>8. QED
  BY <1>1, <1>2, <1>3, <1>4, <1>5, <1>6, <1>7 DEF InputNext, LaneStep

(* Every variable keeps its type; the histories stay within history_size.   *)
THEOREM InputsTypeCorrect ==
    InputSpec => []InputTypeOK
<1>1. InputInv /\ BoundInv => InputTypeOK
  <2> SUFFICES ASSUME InputInv, BoundInv
               PROVE  InputTypeOK
    OBVIOUS
  <2>1. \A d \in Devices : \A i \in 1 .. Len(history[d]) :
           history[d][i] \in [seq : Nat, visible : Times, ok : BOOLEAN]
    <3> SUFFICES ASSUME NEW d \in Devices, NEW i \in 1 .. Len(history[d])
                 PROVE  history[d][i] \in [seq : Nat, visible : Times, ok : BOOLEAN]
      OBVIOUS
    <3>1. history[d][i] \in Items /\ history[d][i].visible <= now /\ now \in Times /\ MaxTime \in Nat
      BY HistoryTypes, ElementOfSeq, InputAssumption DEF InputInv, OrderInv, BoundInv, DueInv
    <3>2. QED
      BY <3>1 DEF Items, Times
  <2>2. \A l \in Lanes : /\ lane[l].step \in LaneSteps
                         /\ lane[l].device \in l
                         /\ lane[l].started \in Times
                         /\ lane[l].returned \in Times
                         /\ lane[l].published \in Times
                         /\ lane[l].ok \in BOOLEAN
    BY InputAssumption DEF InputInv, InputTypes, BoundInv, DueInv, LaneStates, Times
  <2>3. QED
    BY <2>1, <2>2 DEF InputTypeOK, InputInv, InputTypes, BoundInv, DueInv, ShapeInv
<1>2. InputInit => BoundInv
  BY InitBounds
<1>3. InputInv /\ BoundInv /\ [InputNext]_inputVars => BoundInv'
  BY ShapeStep, DueStep DEF BoundInv
<1>4. QED
  BY <1>1, <1>2, <1>3, InputsInductive, PTL DEF InputSpec
=============================================================================
