---------------------------- MODULE VisionDemand ----------------------------
(***************************************************************************)
(* The demand for the camera.  The owner process (CameraVisionOwner) keeps    *)
(* the camera on as long as somebody holds a demand, and a grace longer; its     *)
(* server holds one demand for each session, which is one connection.  The        *)
(* control process has one consumer (ProcessVisionPort): the mission raises and    *)
(* withdraws its demand, and a collector thread opens a session for it and       *)
(* publishes what it receives.                                              *)
(*                                                                          *)
(* The owner's methods run under its lock and the consumer's under its          *)
(* condition: one section is one action.  A connection carries one state that     *)
(* is not read yet, and an error; what a client that has shut its end would not    *)
(* read is not kept.  The grace may be over at any time, and so may the time      *)
(* allowed to a connection; the answer to a request has no limit.                *)
(***************************************************************************)
EXTENDS Naturals, Sequences

CONSTANTS
    Sessions,       \* connections, used once each (bound of the model)
    MaxRevision,    \* how often the consumer's demand changes (bound)
    MaxGeneration,  \* how often the camera is turned on (bound)
    MaxCrashes,     \* how often the owner process is killed (bound)
    Nobody

ASSUME VisionAssumption ==
    /\ MaxRevision \in Nat /\ MaxGeneration \in Nat /\ MaxCrashes \in Nat
    /\ Nobody \notin Sessions /\ "manual" \notin Sessions

VARIABLES
    camera,     \* the owner's camera: its generation and whether it runs
    detecting,  \* the person detector runs
    demands,    \* who holds a demand
    idle,       \* the grace is running
    generations,\* camera generations so far
    crashes,    \* owner processes killed so far
    session,    \* the server's side of each connection
    wire,       \* what the client of a connection has not read yet: generations, 0 an error
    hung,       \* connections that the client has shut
    demand,     \* the consumer's demand
    revision,   \* and how often it changed
    generation, \* the generation the consumer accepted for it, or 0
    view,       \* what is published: its generation and the revision it came for
    failed,     \* the error that is published
    closed,     \* the consumer was stopped
    collector   \* the collector thread: where, for which revision, its connection,
                \* the generation of the state it read

owner == <<camera, detecting, demands, idle, generations, crashes>>
server == <<session, wire>>
port == <<demand, revision, generation, view, failed, closed>>
vars == <<owner, server, hung, port, collector>>

Off == [gen |-> 0, run |-> "OFF"]
Blank == [gen |-> 0, rev |-> 0]
Unused == [at |-> "free", kind |-> "PERSON", gen |-> 0]
Over == [Unused EXCEPT !.at = "over"]
Resting == [at |-> "idle", rev |-> 0, conn |-> Nobody, got |-> 0]

Init ==
    /\ camera = Off /\ detecting = FALSE /\ demands = {} /\ idle = FALSE
    /\ generations = 0 /\ crashes = 0
    /\ session = [s \in Sessions |-> Unused]
    /\ wire = [s \in Sessions |-> <<>>]
    /\ hung = {}
    /\ demand = FALSE /\ revision = 0 /\ generation = 0
    /\ view = Blank /\ failed = FALSE /\ closed = FALSE
    /\ collector = Resting

TypeOK ==
    /\ camera \in [gen : 0..MaxGeneration, run : {"OFF", "ON", "DEAD"}]
    /\ detecting \in BOOLEAN /\ idle \in BOOLEAN
    /\ demands \subseteq Sessions \cup {"manual"}
    /\ generations \in 0..MaxGeneration /\ crashes \in 0..MaxCrashes
    /\ session \in [Sessions -> [at : {"free", "open", "asked", "read", "serve", "end", "over"},
                                kind : {"PERSON", "IMAGE"}, gen : 0..MaxGeneration]]
    /\ wire \in [Sessions -> Seq(0..MaxGeneration)]
    /\ hung \subseteq Sessions
    /\ demand \in BOOLEAN /\ failed \in BOOLEAN /\ closed \in BOOLEAN
    /\ revision \in 0..MaxRevision + 1
    /\ generation \in 0..MaxGeneration
    /\ view \in [gen : 0..MaxGeneration, rev : 0..MaxRevision + 1]
    /\ collector \in [at : {"idle", "connect", "linked", "stream", "accept", "fail", "park"},
                      rev : 0..MaxRevision + 1, conn : Sessions \cup {Nobody},
                      got : 0..MaxGeneration]

-----------------------------------------------------------------------------
(* The owner of the camera.                                                  *)
Person(S) == \E s \in S \cap Sessions : session[s].kind = "PERSON"

(* _activate with success: the camera runs, and for a person the detector too.  *)
Activate(person) ==
    /\ \/ camera.run = "ON" /\ UNCHANGED <<camera, generations>>
       \/ /\ camera.run = "OFF" /\ generations < MaxGeneration
          /\ generations' = generations + 1
          /\ camera' = [gen |-> generations + 1, run |-> "ON"]
    /\ detecting' = (detecting \/ person)

(* _activate with an exception: the camera does not start, its cleanup may fail   *)
(* too; it has died; or the detector does not start.  The grace begins.         *)
ActivateFails(person) ==
    /\ \/ camera.run = "DEAD" /\ UNCHANGED <<camera, generations, detecting>>
       \/ camera.run = "OFF" /\ UNCHANGED <<camera, generations, detecting>>
       \/ /\ camera.run = "OFF" /\ generations < MaxGeneration
          /\ generations' = generations + 1
          /\ camera' = [gen |-> generations + 1, run |-> "DEAD"]
          /\ UNCHANGED detecting
       \/ /\ person /\ ~detecting /\ UNCHANGED detecting
          /\ \/ camera.run = "ON" /\ UNCHANGED <<camera, generations>>
             \/ /\ camera.run = "OFF" /\ generations < MaxGeneration
                /\ generations' = generations + 1
                /\ camera' = [gen |-> generations + 1, run |-> "ON"]
    /\ idle' = (idle \/ demands = {})
    /\ UNCHANGED <<demands, crashes>>

Acquire(d, person) ==
    /\ Activate(person)
    /\ demands' = demands \cup {d}
    /\ idle' = FALSE
    /\ UNCHANGED crashes

(* Mutant: a release clears every demand. *)
MutReleased(d) == {}

Released(d) == demands \ {d}

Release(d) ==
    /\ demands' = Released(d)
    /\ detecting' = (detecting /\ Person(Released(d)))
    /\ idle' = (idle \/ Released(d) = {})
    /\ UNCHANGED <<camera, generations, crashes>>

Manual ==
    /\ \/ "manual" \notin demands /\ (Acquire("manual", FALSE) \/ ActivateFails(FALSE))
       \/ Release("manual")
    /\ UNCHANGED <<server, hung, port, collector>>

(* The idle thread: the camera is turned off; if its thread does not end it is    *)
(* kept, and not tried again before the next demand.                         *)
Idle ==
    /\ demands = {} /\ idle
    /\ idle' = FALSE
    /\ detecting' = FALSE
    /\ camera' \in IF camera.run = "OFF" THEN {Off} ELSE {Off, [camera EXCEPT !.run = "DEAD"]}
    /\ UNCHANGED <<demands, generations, crashes, server, hung, port, collector>>

(* The acquisition thread fails.                                             *)
CameraDies ==
    /\ camera.run = "ON"
    /\ camera' = [camera EXCEPT !.run = "DEAD"]
    /\ UNCHANGED <<detecting, demands, idle, generations, crashes, server, hung, port, collector>>

(* The owner process is killed; the next connection starts another.             *)
OwnerDies ==
    /\ crashes < MaxCrashes
    /\ crashes' = crashes + 1
    /\ camera' = Off /\ detecting' = FALSE /\ demands' = {} /\ idle' = FALSE
    /\ session' = [s \in Sessions |-> IF session[s].at = "free" THEN Unused ELSE Over]
    /\ UNCHANGED <<generations, wire, hung, port, collector>>

-----------------------------------------------------------------------------
(* The server's thread for one connection.                                    *)
To(s, step) == session' = [session EXCEPT ![s] = IF step = "over" THEN Over ELSE [@ EXCEPT !.at = step]]

Tell(s, what) ==
    wire' = IF s \in hung \/ session[s].kind = "IMAGE" THEN wire
            ELSE [wire EXCEPT ![s] = Append(@, what)]

Serve(s) ==
    /\ session[s].at = "asked"
    /\ \/ Acquire(s, session[s].kind = "PERSON") /\ To(s, "read") /\ UNCHANGED wire
       \/ ActivateFails(session[s].kind = "PERSON") /\ Tell(s, 0) /\ To(s, "over")
    /\ UNCHANGED <<hung, port, collector>>

ReadGeneration(s) ==
    /\ session[s].at = "read"
    /\ session' = [session EXCEPT ![s] = [at |-> "serve", kind |-> @.kind, gen |-> camera.gen]]
    /\ UNCHANGED <<owner, wire, hung, port, collector>>

Usable(s) == camera.run = "ON" /\ camera.gen = session[s].gen

(* control_state, or an image; a camera that is not the session's is an error, and  *)
(* the state of one that is may raise as well.  A client that does not read ends its  *)
(* session, without a message, when the send has waited its fifteen seconds.     *)
SendState(s) ==
    /\ session[s].at = "serve"
    /\ \/ /\ Usable(s) /\ session[s].kind = "PERSON" /\ wire[s] = <<>>
          /\ Tell(s, session[s].gen) /\ UNCHANGED session
       \/ Tell(s, 0) /\ To(s, "end")
       \/ wire[s] # <<>> /\ UNCHANGED wire /\ To(s, "end")
    /\ UNCHANGED <<owner, hung, port, collector>>

(* The client has gone, or sent what it must not send.                        *)
SessionEnds(s) ==
    /\ session[s].at \in {"open", "serve"}
    /\ s \in hung
    /\ To(s, IF session[s].at = "open" THEN "over" ELSE "end")
    /\ UNCHANGED <<owner, wire, hung, port, collector>>

EndSession(s) ==
    /\ session[s].at = "end"
    /\ Release(s)
    /\ To(s, "over")
    /\ UNCHANGED <<wire, hung, port, collector>>

(* Another client: an image session, which it leaves when it likes.            *)
ImageClient(s) ==
    /\ \/ /\ session[s].at = "free"
          /\ session' = [session EXCEPT ![s] = [at |-> "asked", kind |-> "IMAGE", gen |-> 0]]
          /\ UNCHANGED hung
       \/ /\ session[s].kind = "IMAGE" /\ session[s].at \notin {"free", "over"} /\ s \notin hung
          /\ hung' = hung \cup {s}
          /\ UNCHANGED session
    /\ UNCHANGED <<owner, wire, port, collector>>

-----------------------------------------------------------------------------
(* The consumer.                                                             *)
Clear(error) == view' = Blank /\ failed' = error

(* The consumer's connection, if it has one, is shut.                          *)
Hang ==
    LET conn == {collector.conn} \ {Nobody}
    IN  /\ hung' = hung \cup conn
        /\ wire' = [s \in Sessions |-> IF s \in conn THEN <<>> ELSE wire[s]]

SetDemand ==
    /\ ~closed /\ revision < MaxRevision
    /\ demand' = ~demand
    /\ revision' = revision + 1
    /\ generation' = 0
    /\ Clear(FALSE)
    /\ IF demand THEN Hang ELSE UNCHANGED <<hung, wire>>
    /\ UNCHANGED <<closed, owner, session, collector>>

Close ==
    /\ ~closed
    /\ closed' = TRUE
    /\ demand' = FALSE
    /\ revision' = revision + 1
    /\ Clear(FALSE)
    /\ Hang
    /\ UNCHANGED <<generation, owner, session, collector>>

(* The demand that the collector works for is still the mission's.             *)
(* Mutant: only that there is a demand is looked at. *)
MutWanted == ~closed /\ demand

Wanted == ~closed /\ demand /\ collector.rev = revision

Turn(step) == collector' = [collector EXCEPT !.at = step]

(* The connection is closed; the collector begins again.                       *)
Drop == Hang /\ collector' = Resting

Collect ==
    /\ collector.at = "idle"
    /\ ~closed /\ demand
    /\ collector' = [Resting EXCEPT !.at = "connect", !.rev = revision]
    /\ UNCHANGED <<owner, server, hung, port>>

Connect ==
    /\ collector.at = "connect"
    /\ \/ Turn("fail") /\ UNCHANGED session
       \/ \E s \in Sessions :
             /\ session[s].at = "free"
             /\ To(s, "open")
             /\ collector' = [collector EXCEPT !.at = "linked", !.conn = s]
    /\ UNCHANGED <<owner, wire, hung, port>>

(* The request is sent unless the demand has changed while it connected.        *)
Request ==
    /\ collector.at = "linked"
    /\ LET c == collector.conn
       IN  \/ ~Wanted /\ Drop /\ UNCHANGED session
           \/ /\ Wanted /\ session[c].at = "open" /\ c \notin hung
              /\ To(c, "asked") /\ Turn("stream") /\ UNCHANGED <<hung, wire>>
           \/ /\ Wanted /\ (session[c].at = "over" \/ c \in hung)
              /\ Turn("fail") /\ UNCHANGED <<session, hung, wire>>
    /\ UNCHANGED <<owner, port>>

(* A state is read, whether or not the demand has changed since the last look.   *)
Receive ==
    /\ collector.at = "stream"
    /\ LET c == collector.conn
       IN  /\ c \notin hung /\ wire[c] # <<>>
           /\ wire' = [wire EXCEPT ![c] = Tail(@)]
           /\ collector' = [collector EXCEPT !.at = IF Head(wire[c]) = 0 THEN "fail" ELSE "accept",
                                             !.got = Head(wire[c])]
    /\ UNCHANGED <<owner, session, hung, port>>

(* Mutant: the end of the connection is not noticed. *)
MutLeave ==
    /\ collector.at = "stream"
    /\ (~demand \/ closed \/ collector.rev # revision) /\ Drop
    /\ UNCHANGED <<owner, session, port>>

(* The demand is not the collector's any more, or the connection has ended.      *)
Leave ==
    /\ collector.at = "stream"
    /\ \/ (~demand \/ closed \/ collector.rev # revision) /\ Drop
       \/ /\ collector.conn \in hung \/ (session[collector.conn].at = "over" /\ wire[collector.conn] = <<>>)
          /\ Turn("fail") /\ UNCHANGED <<hung, wire>>
    /\ UNCHANGED <<owner, session, port>>

(* A message that is late or not well formed.                                *)
Stumble ==
    /\ collector.at = "stream"
    /\ Turn("fail")
    /\ UNCHANGED <<owner, server, hung, port>>

Accept ==
    /\ collector.at = "accept"
    /\ LET g == collector.got
       IN  \/ /\ ~Wanted
              /\ collector' = [collector EXCEPT !.at = "stream", !.got = 0]
              /\ UNCHANGED port
           \/ /\ Wanted /\ generation \in {0, g}
              /\ generation' = g
              /\ view' = [gen |-> g, rev |-> collector.rev]
              /\ failed' = FALSE
              /\ collector' = [collector EXCEPT !.at = "stream", !.got = 0]
              /\ UNCHANGED <<demand, revision, closed>>
           \/ Wanted /\ generation \notin {0, g} /\ Turn("fail") /\ UNCHANGED port
    /\ UNCHANGED <<owner, server, hung>>

(* Mutant: after an error the collector connects again at once. *)
MutFail ==
    /\ collector.at = "fail"
    /\ IF Wanted THEN Clear(TRUE) ELSE UNCHANGED <<view, failed>>
    /\ Drop
    /\ UNCHANGED <<demand, revision, generation, closed, owner, session>>

(* An error is published if the demand is still the one, and waited out.        *)
Fail ==
    /\ collector.at = "fail"
    /\ IF Wanted THEN Clear(TRUE) ELSE UNCHANGED <<view, failed>>
    /\ collector' = [collector EXCEPT !.at = "park", !.got = 0]
    /\ UNCHANGED <<demand, revision, generation, closed, owner, server, hung>>

Unpark ==
    /\ collector.at = "park"
    /\ ~Wanted
    /\ Drop
    /\ UNCHANGED <<owner, session, port>>

-----------------------------------------------------------------------------
Handle(s) == Serve(s) \/ ReadGeneration(s) \/ SendState(s) \/ SessionEnds(s) \/ EndSession(s)

Collector == Collect \/ Connect \/ Request \/ Receive \/ Leave \/ Accept \/ Fail \/ Unpark

Next ==
    \/ Manual \/ Idle \/ CameraDies \/ OwnerDies
    \/ \E s \in Sessions : Handle(s) \/ ImageClient(s)
    \/ SetDemand \/ Close \/ Collector \/ Stumble

(* The threads of the server, the idle thread and the collector go on.  An image    *)
(* session does only when its client asks or leaves.                          *)
Quiet(s) == session[s].kind = "IMAGE" /\ session[s].at = "serve" /\ s \notin hung

Fairness ==
    /\ WF_vars(Idle)
    /\ WF_vars(Collector)
    /\ \A s \in Sessions : WF_vars(~Quiet(s) /\ Handle(s))

Spec == Init /\ [][Next]_vars /\ Fairness

-----------------------------------------------------------------------------
(* A session that was given its demand and did not release it keeps its camera:    *)
(* it is neither turned off nor replaced by another generation, whatever others     *)
(* acquire and release and whenever the grace of an earlier demand is over.       *)
HoldersKeepTheCamera ==
    \A s \in Sessions :
        /\ session[s].at \in {"read", "serve", "end"} => camera.run # "OFF"
        /\ session[s].at = "serve" => session[s].gen = camera.gen

(* What the consumer publishes came over a connection that was opened for the     *)
(* demand as it now is: a late message of a demand that was withdrawn, and raised  *)
(* again, is not seen.                                                      *)
PublishedIsCurrent == view # Blank => demand /\ ~closed /\ view.rev = revision

(* "A failed active demand is explicit.  Do not silently reconnect and replace its  *)
(* generation": until the mission changes its demand an error stays, and what is   *)
(* published is of one generation.                                          *)
NoSilentReplacement ==
    [][revision' = revision =>
          /\ failed => failed'
          /\ view # Blank /\ view' # Blank => view'.gen = view.gen]_vars

(* A raised demand is answered, by a state or an error, unless it is withdrawn:     *)
(* the collector waits neither for a demand that is gone nor for an owner that died.*)
DemandIsAnswered ==
    \A r \in 1..MaxRevision :
        (demand /\ revision = r) ~> (view # Blank \/ failed \/ revision # r)
=============================================================================
