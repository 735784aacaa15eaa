----------------------------- MODULE StereoPairs -----------------------------
(***************************************************************************)
(* The stereo architecture: two rear cameras whose frames are joined, k-th *)
(* with k-th, into one message.  Only the first camera's frame is routed   *)
(* to detector, tracker and renderer; the second's waits in the repository *)
(* and has to leave with its twin.  Repository::stereoFrames says who is   *)
(* whose twin, under a key that is the exclusive or of camera and number.  *)
(*                                                                         *)
(* Router instances and nodes are processes; all of them call delete_frame,*)
(* which deletes the twin too.  stopMAR, the clearing of a camera and the  *)
(* throttle are in FramePipeline and left out here.                        *)
(***************************************************************************)
EXTENDS Integers, FiniteSets

CONSTANTS
    Id1, Id2,       \* the cameras' ids, "0" and "2" for instance
    Routers,        \* two: the router node has concurrency 2
    MaxFrames       \* bound: frames of each camera

ASSUME StereoAssumption ==
    /\ Id1 \in Nat /\ Id2 \in Nat /\ Id1 # Id2
    /\ MaxFrames \in Nat \ {0}
    /\ Routers \cap {"detector", "tracker", "renderer"} = {}

Nodes == {"detector", "tracker", "renderer"}
Procs == Routers \cup Nodes
Cameras == {1, 2}
Other(c) == 3 - c
Numbers == 0 .. MaxFrames - 1
Frames == Cameras \X Numbers
NoFrame == <<0, 0>>

\* Exclusive or, bit by bit.
Xor[x \in Nat, y \in Nat] ==
    IF x = 0 THEN y ELSE IF y = 0 THEN x
    ELSE (2 * Xor[x \div 2, y \div 2]) + ((x + y) % 2)

\* pair_hasher; std::hash of an integer is the integer.
Key(f) == Xor[IF f[1] = 1 THEN Id1 ELSE Id2, f[2]]
Keys == {Key(f) : f \in Frames}

VARIABLES
    stored,         \* camera_frames: the frames in the repository
    pairs,          \* stereoFrames: key -> the frame's twin
    count,          \* frames of each camera the sources have stored: next_seqno
                    \* gives the next one this number, addCamera having made the counter
    joined, jPc,    \* pairs joined; where tbbJoinProcessor is
    apart,          \* history, for the properties: so far no pair has been joined
                    \* while another with one of its keys was in the repository
    taken,          \* messages the routers have taken
    up,             \* frames of camera 1 whose flag for a node is up
    \* routers and nodes: where each is, and the number of its frame;
    \* in delete_frame: the frame, its twin, and where to go on afterwards
    pc, seq, own, twin, ret,
    answer          \* what stereo_twin told the detector last

repoVars == <<stored, pairs>>
joinVars == <<count, joined, jPc, apart>>
procVars == <<pc, seq, own, twin, ret>>
vars == <<repoVars, joinVars, taken, up, procVars, answer>>

Init ==
    /\ stored = {} /\ pairs = [k \in Keys |-> NoFrame]
    /\ count = [c \in Cameras |-> 0]
    /\ joined = 0 /\ jPc = "idle" /\ apart = TRUE /\ taken = 0
    /\ up = [n \in Nodes |-> {}]
    /\ pc = [p \in Procs |-> "idle"] /\ seq = [p \in Procs |-> 0]
    /\ own = [p \in Procs |-> NoFrame] /\ twin = [p \in Procs |-> NoFrame]
    /\ ret = [p \in Procs |-> "idle"]
    /\ answer = NoFrame

\* delete_frame holds the accessor of the twin's camera while it unpairs.
Locked(c) == \E p \in Procs : pc[p] = "unpair" /\ own[p][1] = c

-----------------------------------------------------------------------------
(* Sources and join.                                                       *)

\* new_frame.
SourceFrame(c) ==
    /\ count[c] < MaxFrames /\ ~Locked(c)
    /\ stored' = stored \cup {<<c, count[c]>>}
    /\ count' = [count EXCEPT ![c] = @ + 1]
    /\ UNCHANGED <<pairs, joined, jPc, apart, taken, up, procVars, answer>>

\* The pair with number s has been joined, the next to be joined has number
\* joined; a router has taken its message.
Paired(s) == s < joined
Taken(s) == s < taken

\* Somebody has erased one frame of the pair and is at the rest of it.
Parting(s) == \E p \in Procs : pc[p] \in {"twin", "unpair"} /\ own[p][2] = s

\* Pair s is there, in part at least, and its entries may be read still; those
\* of pair 0, which is not routed, never are.
Present(s) ==
    s # 0 /\ Paired(s) /\ (Parting(s) \/ \E c \in Cameras : <<c, s>> \in stored)

\* Pair s shares no key with another pair that is there.
OwnKeys(s) ==
    \A f \in Cameras \X {s}, g \in Frames :
        g[2] = s \/ Present(g[2]) => (Key(f) = Key(g) => f = g)

\* stereo_pair, which overwrites what it finds under the key: first one way,
PairFirst ==
    /\ jPc = "idle" /\ \A c \in Cameras : joined < count[c]
    /\ pairs' = [pairs EXCEPT ![Key(<<1, joined>>)] = <<2, joined>>]
    /\ jPc' = "second"
    /\ apart' = (apart /\ (joined = 0 \/ OwnKeys(joined)))
    /\ UNCHANGED <<stored, count, joined, taken, up, procVars, answer>>

\* then the other.  The message goes to the router node.
PairSecond ==
    /\ jPc = "second"
    /\ pairs' = [pairs EXCEPT ![Key(<<2, joined>>)] = <<1, joined>>]
    /\ jPc' = "idle" /\ joined' = joined + 1
    /\ UNCHANGED <<stored, count, apart, taken, up, procVars, answer>>

-----------------------------------------------------------------------------
(* delete_frame.                                                           *)

Go(p, where) == pc' = [pc EXCEPT ![p] = where]

\* The call: delete_frame(c, s), to go on at r.
Delete(p, c, s, r) ==
    /\ Go(p, "delete")
    /\ own' = [own EXCEPT ![p] = <<c, s>>]
    /\ ret' = [ret EXCEPT ![p] = r]

Return(p) == Go(p, ret[p])

\* Only frames of camera 1 ever have flags.
InUse(f, nodes) == f[1] = 1 /\ \E n \in nodes : f[2] \in up[n]

\* The frame is erased if no flag of these nodes is up, and stereo_twin asked.
EraseUnless(p, nodes) ==
    /\ pc[p] = "delete" /\ ~Locked(own[p][1])
    /\ \/ /\ own[p] \in stored /\ ~InUse(own[p], nodes)
          /\ stored' = stored \ {own[p]}
          /\ twin' = [twin EXCEPT ![p] = pairs[Key(own[p])]]
          /\ IF pairs[Key(own[p])] = NoFrame THEN Return(p) ELSE Go(p, "twin")
       \/ /\ own[p] \notin stored \/ InUse(own[p], nodes)
          /\ Return(p)
          /\ UNCHANGED <<stored, twin>>
    /\ UNCHANGED <<pairs, joinVars, taken, up, seq, own, ret, answer>>

\* Mutants: delete_frame forgets isRendering, or isTracking.
EraseRendering(p) == EraseUnless(p, {"detector", "tracker"})
EraseTracking(p)  == EraseUnless(p, {"detector", "renderer"})

\* All three flags are asked for.
Erase(p) == EraseUnless(p, Nodes)

\* Mutant: the twin is spared while it waits for the renderer.
SpareRendering(p) ==
    LET k == Key(own[p]) IN
    /\ pc[p] = "twin" /\ ~Locked(twin[p][1])
    /\ stored' = IF InUse(twin[p], Nodes) THEN stored ELSE stored \ {twin[p]}
    /\ pairs' = [pairs EXCEPT ![k] = NoFrame]
    /\ IF pairs[k] = NoFrame THEN Return(p) /\ UNCHANGED <<own, twin>>
       ELSE /\ Go(p, "unpair")
            /\ own' = [own EXCEPT ![p] = twin[p]]
            /\ twin' = [twin EXCEPT ![p] = pairs[k]]
    /\ UNCHANGED <<joinVars, taken, up, seq, ret, answer>>

\* The twin is erased if detector and tracker have done with it (nobody asks
\* for isRendering), and delete_stereo_pair takes the frame's entry out.
EraseTwin(p) ==
    LET k == Key(own[p]) IN
    /\ pc[p] = "twin" /\ ~Locked(twin[p][1])
    /\ stored' = IF InUse(twin[p], {"detector", "tracker"}) THEN stored
                 ELSE stored \ {twin[p]}
    /\ pairs' = [pairs EXCEPT ![k] = NoFrame]
    /\ IF pairs[k] = NoFrame THEN Return(p) /\ UNCHANGED <<own, twin>>
       ELSE /\ Go(p, "unpair")
            /\ own' = [own EXCEPT ![p] = twin[p]]
            /\ twin' = [twin EXCEPT ![p] = pairs[k]]
    /\ UNCHANGED <<joinVars, taken, up, seq, ret, answer>>

\* And the twin's.
Unpair(p) ==
    /\ pc[p] = "unpair"
    /\ pairs' = [pairs EXCEPT ![Key(twin[p])] = NoFrame]
    /\ Return(p)
    /\ UNCHANGED <<stored, joinVars, taken, up, seq, own, twin, ret, answer>>

Deletion == \E p \in Procs : Erase(p) \/ EraseTwin(p) \/ Unpair(p)

-----------------------------------------------------------------------------
(* The router.  Its second round, with the frame of camera 2, ends at      *)
(* map.find: routerMap has camera 1 only.                                  *)

\* A message is taken.  Number 0 is skipped.
RouterTake(p) ==
    /\ pc[p] = "idle" /\ taken < joined /\ ~Locked(1)
    /\ taken' = taken + 1
    /\ seq' = [seq EXCEPT ![p] = taken]
    /\ IF taken # 0 /\ <<1, taken>> \in stored
       THEN Go(p, "detector") ELSE UNCHANGED pc
    /\ UNCHANGED <<repoVars, joinVars, up, own, twin, ret, answer>>

\* try_put to a node that is idle; the flag is raised afterwards.
Put(p, n) ==
    /\ pc[n] = "idle"
    /\ pc' = [pc EXCEPT ![n] = "start", ![p] = "flag"]
    /\ seq' = [seq EXCEPT ![n] = seq[p]]
    /\ ret' = [ret EXCEPT ![p] = n]
    /\ UNCHANGED <<repoVars, joinVars, taken, up, own, twin, answer>>

\* A node refuses: on to the next, and after the last the frame is deleted.
Refused(p) ==
    /\ \/ pc[p] = "detector" /\ Go(p, "tracker") /\ UNCHANGED <<own, ret>>
       \/ pc[p] = "tracker" /\ Go(p, "renderer") /\ UNCHANGED <<own, ret>>
       \/ pc[p] = "renderer" /\ Delete(p, 1, seq[p], "idle")
    /\ UNCHANGED <<repoVars, joinVars, taken, up, seq, twin, answer>>

RouterPut(p) ==
    \E n \in Nodes :
        /\ pc[p] = n
        /\ Put(p, n) \/ (pc[n] # "idle" /\ Refused(p))

RouterFlag(p) ==
    /\ pc[p] = "flag"
    /\ up' = [up EXCEPT ![ret[p]] = @ \cup {seq[p]}]
    /\ Go(p, IF ret[p] = "renderer" THEN "idle" ELSE "renderer")
    /\ UNCHANGED <<repoVars, joinVars, taken, seq, own, twin, ret, answer>>

Router == \E p \in Routers : RouterTake(p) \/ RouterPut(p) \/ RouterFlag(p)

-----------------------------------------------------------------------------
(* The nodes.  Each looks its frame up, works, lowers its flag and calls   *)
(* delete_frame.                                                           *)

Lower(n) == up' = [up EXCEPT ![n] = @ \ {seq[n]}]

NodeStart(n) ==
    /\ pc[n] = "start" /\ ~Locked(1)
    /\ Go(n, IF <<1, seq[n]>> \notin stored THEN "idle"
             ELSE IF n = "detector" THEN "twins" ELSE "work")
    /\ UNCHANGED <<repoVars, joinVars, taken, up, seq, own, twin, ret, answer>>

\* The detector has searched the first image and asks for the second.
DetectTwin ==
    /\ pc["detector"] = "twins"
    /\ answer' = pairs[Key(<<1, seq["detector"]>>)]
    /\ Go("detector", "work")
    /\ UNCHANGED <<repoVars, joinVars, taken, up, seq, own, twin, ret>>

\* Detector and tracker lower the flag when they have finished.
NodeDone(n) ==
    /\ n \in {"detector", "tracker"} /\ pc[n] = "work"
    /\ Lower(n)
    /\ Delete(n, 1, seq[n], IF n = "detector" THEN "second" ELSE "idle")
    /\ UNCHANGED <<repoVars, joinVars, taken, seq, twin, answer>>

\* Mutant: without renderFinally.
RenderAndLeave ==
    /\ pc["renderer"] = "work" /\ ~Locked(1)
    /\ IF <<1, seq["renderer"]>> \in stored THEN Lower("renderer") ELSE UNCHANGED up
    /\ Go("renderer", "idle")
    /\ UNCHANGED <<repoVars, joinVars, taken, seq, own, twin, ret, answer>>

\* VulkanRenderer::render looks the frame up again and lowers the flag before
\* it draws; renderFinally deletes the frame whether it was there or not.
RenderBegin ==
    /\ pc["renderer"] = "work" /\ ~Locked(1)
    /\ IF <<1, seq["renderer"]>> \in stored THEN Lower("renderer") ELSE UNCHANGED up
    /\ Delete("renderer", 1, seq["renderer"], "idle")
    /\ UNCHANGED <<repoVars, joinVars, taken, seq, twin, answer>>

\* The detector then deletes the frame of camera 2, if it is still there.
DetectSecond ==
    /\ pc["detector"] = "second" /\ ~Locked(2)
    /\ \/ /\ <<2, seq["detector"]>> \in stored
          /\ Lower("detector")
          /\ Delete("detector", 2, seq["detector"], "idle")
       \/ /\ <<2, seq["detector"]>> \notin stored
          /\ Go("detector", "idle")
          /\ UNCHANGED <<up, own, ret>>
    /\ UNCHANGED <<repoVars, joinVars, taken, seq, twin, answer>>

Node ==
    \/ \E n \in Nodes : NodeStart(n) \/ NodeDone(n)
    \/ DetectTwin \/ DetectSecond \/ RenderBegin

Next ==
    \/ \E c \in Cameras : SourceFrame(c)
    \/ PairFirst \/ PairSecond
    \/ Deletion \/ Router \/ Node

Spec == Init /\ [][Next]_vars

-----------------------------------------------------------------------------
(* Properties.                                                             *)

\* Types: the numbers and places are the ones named, and the routers have
\* taken no message the join has not sent (join, stereo_pair, then routing).
TypeOK ==
    /\ stored \subseteq Frames
    /\ pairs \in [Keys -> Frames \cup {NoFrame}]
    /\ count \in [Cameras -> 0 .. MaxFrames]
    /\ joined \in 0 .. MaxFrames /\ jPc \in {"idle", "second"} /\ apart \in BOOLEAN
    /\ taken \in 0 .. joined
    /\ up \in [Nodes -> SUBSET Numbers]
    /\ pc \in [Procs -> Nodes \cup {"idle", "flag", "start", "twins", "work",
                                    "second", "delete", "twin", "unpair"}]
    /\ seq \in [Procs -> Numbers]
    /\ own \in [Procs -> Frames \cup {NoFrame}]
    /\ twin \in [Procs -> Frames \cup {NoFrame}]
    /\ ret \in [Procs -> Nodes \cup {"idle", "second"}]
    /\ answer \in Frames \cup {NoFrame}

There(s) ==
    \A c \in Cameras : <<c, s>> \in stored /\ pairs[Key(<<c, s>>)] = <<Other(c), s>>
Gone(s) ==
    \A c \in Cameras : <<c, s>> \notin stored /\ pairs[Key(<<c, s>>)] # <<Other(c), s>>

\* Twins leave together: both frames of a pair are in the repository and know
\* each other, or both are gone and stereoFrames speaks of them no more, or a
\* delete_frame is at it.  The twin is spared if a flag is up (Repository.cc:284),
\* and its entry is dropped all the same: such a frame would stay with nobody
\* knowing of it.  Two processes may be deleting the pair, one from each side.
TwinsLeaveTogether ==
    apart => \A s \in Numbers \ {0} : Paired(s) => There(s) \/ Gone(s) \/ Parting(s)

\* p will still delete pair s, or give it to somebody who will.
Responsible(p, s) ==
    \/ p \in Routers /\ seq[p] = s /\ pc[p] # "idle"
    \/ p \in Nodes /\ seq[p] = s /\ pc[p] \in {"start", "twins", "work"}
    \/ pc[p] \in {"delete", "twin"} /\ own[p][2] = s

\* A routed pair is never forgotten with all its flags down: whoever lowers the
\* last flag deletes, whatever the order the three nodes and the router's late
\* stores come in.  (A flag raised late may stay up: FramePipeline.)
NoOrphanPair ==
    apart =>
    \A s \in Numbers \ {0} : Taken(s) /\ <<1, s>> \in stored =>
        (\E n \in Nodes : s \in up[n]) \/ (\E p \in Procs : Responsible(p, s))

\* A frame marked for the renderer is erased by one path only: the detector's
\* deletion of its twin, which does not ask for isRendering.
RenderLossByTwin ==
    [][apart => \A s \in up["renderer"] : <<1, s>> \in stored \ stored' =>
        pc["detector"] = "twin" /\ own["detector"] = <<2, s>>]_vars

\* The numbers of camera c's frames that are stored.
Stored(c) == {s \in Numbers : <<c, s>> \in stored}

\* What the repository promises, each camera's half of it keeps, though frames
\* leave in pairs: the first camera's with detector and tracker as the only ones
\* whose flags pin a frame (RenderLossByTwin), the second's with nobody.
First == INSTANCE FrameStore WITH
            stored <- Stored(1), next <- count[1],
            pinned <- up["detector"] \cup up["tracker"]
Second == INSTANCE FrameStore WITH
            stored <- Stored(2), next <- count[2], pinned <- {}
HalvesSpec == First!Spec /\ Second!Spec

\* stereo_twin sends the detector to the other camera's image, as the comment
\* at TBBDetector.cc:139 has it ("just do detection on stereo camera").
TwinOnOtherCamera == answer # NoFrame => answer[1] = 2

=============================================================================
