-------------------------- MODULE StereoPairsProofs --------------------------
(***************************************************************************)
(* Theorems about StereoPairs.  The properties speak of a pair that two    *)
(* processes may be taking apart from both sides, so the invariant says    *)
(* what each of them has done already and what is left.                    *)
(***************************************************************************)
EXTENDS StereoPairs, TLAPS

Partner(f) == <<Other(f[1]), f[2]>>

\* Who can be where, with what in hand; numbers at work are those of messages
\* taken, and never 0.
Places ==
    \A p \in Procs :
        /\ pc[p] \in Nodes \cup {"flag"} => p \in Routers
        /\ pc[p] = "flag" => ret[p] \in Nodes
        /\ pc[p] \in {"start", "work"} => p \in Nodes
        /\ pc[p] \in {"twins", "second"} => p = "detector"
        /\ pc[p] \in {"delete", "twin", "unpair"} =>
            /\ ret[p] = "idle" \/ (ret[p] = "second" /\ p = "detector")
            /\ own[p] \in Frames \cup {NoFrame}
        /\ pc[p] \in {"delete", "twin"} =>
            /\ own[p] \in Frames /\ own[p][2] = seq[p]
            /\ own[p][1] = 2 => p = "detector" /\ ret[p] = "idle"
        /\ pc[p] # "idle" => seq[p] >= 1 /\ seq[p] < taken

\* The join follows the sources.
Joins ==
    /\ \A c \in Cameras : joined <= count[c]
    /\ jPc = "second" => \A c \in Cameras : joined < count[c]

\* Node n has number s, or had it and its flag is up.
Touches(n, s) == s \in up[n] \/ (pc[n] # "idle" /\ seq[n] = s)

\* A number goes to one router, and to detector or tracker but not both; it is
\* untouched until the first of them has it, and flagged by nobody until then.
Handing ==
    /\ \A n \in Nodes : \A s \in up[n] : s >= 1 /\ s < taken
    /\ \A r, q \in Routers :
        r # q /\ pc[r] # "idle" /\ pc[q] # "idle" => seq[r] # seq[q]
    /\ \A r \in Routers :
        /\ pc[r] \in {"detector", "tracker"} => \A n \in Nodes : ~Touches(n, seq[r])
        /\ pc[r] = "flag" /\ ret[r] # "renderer" =>
            \A n \in Nodes : /\ seq[r] \notin up[n]
                             /\ n # ret[r] => ~Touches(n, seq[r])
    /\ \A s \in Numbers : ~(Touches("detector", s) /\ Touches("tracker", s))

\* The detector is at the second camera's frame.
AtSecond ==
    \/ pc["detector"] = "second"
    \/ pc["detector"] \in {"delete", "twin"} /\ own["detector"][1] = 2

\* By then, if the first camera's frame is there still, no router is about to
\* raise a flag that keeps it there.
NoLateFlag ==
    AtSecond /\ <<1, seq["detector"]>> \in stored =>
        /\ \A r \in Routers :
            ~(pc[r] = "flag" /\ ret[r] # "renderer" /\ seq[r] = seq["detector"])
        /\ pc["detector"] # "second" => seq["detector"] \notin up["detector"]

\* Pair s is there, or being joined.
Live(s) == Present(s) \/ (s # 0 /\ jPc = "second" /\ s = joined)

\* No two such pairs share a key.
KeysApart ==
    \A f, g \in Frames : Live(f[2]) /\ Live(g[2]) /\ Key(f) = Key(g) => f = g

\* What stereoFrames says of a pair that is there is right, and what the
\* deleters have in hand.
Pairing ==
    /\ \A f \in Frames : Present(f[2]) => pairs[Key(f)] \in {NoFrame, Partner(f)}
    /\ jPc = "second" /\ joined # 0 => pairs[Key(<<1, joined>>)] = <<2, joined>>
    /\ \A p \in Procs :
        /\ pc[p] = "twin" => own[p] \notin stored /\ twin[p] = Partner(own[p])
        /\ pc[p] = "unpair" =>
            /\ own[p] \in Frames /\ own[p][2] = seq[p] /\ twin[p] = own[p]
            /\ own[p] \notin stored /\ Partner(own[p]) \notin stored
            /\ pairs[Key(Partner(own[p]))] = NoFrame

\* Frames wait for the join in the repository.
Waiting ==
    \A c \in Cameras : \A s \in Numbers :
        joined <= s /\ s < count[c] => <<c, s>> \in stored

\* How far pair s, which is there, has been taken apart, and by whom.
Halves(s) ==
    \A c \in Cameras :
        /\ pairs[Key(<<c, s>>)] = NoFrame =>
            /\ <<1, s>> \notin stored /\ <<2, s>> \notin stored
            /\ pairs[Key(<<Other(c), s>>)] # NoFrame =>
                \E p \in Procs : pc[p] = "unpair" /\ own[p] = <<Other(c), s>>
        /\ <<c, s>> \notin stored =>
            \/ <<Other(c), s>> \notin stored
            \/ \E p \in Procs : pc[p] = "twin" /\ own[p] = <<c, s>>

PairState(s) ==
    /\ There(s) \/ Gone(s) \/ Parting(s)
    /\ Present(s) => Halves(s)

Takeapart == \A s \in Numbers \ {0} : Paired(s) => PairState(s)

Owed(s) ==
    (\E n \in Nodes : s \in up[n]) \/ (\E p \in Procs : Responsible(p, s))

PairInv == KeysApart /\ NoLateFlag /\ Waiting /\ Pairing /\ Takeapart /\ NoOrphanPair

IInv ==
    /\ TypeOK /\ Places /\ Joins /\ Handing
    /\ apart => PairInv

-----------------------------------------------------------------------------
(* Numbers and keys.                                                       *)

\* A frame's key is one of the keys.
LEMMA KeyIn == \A f \in Frames : Key(f) \in Keys
BY DEF Keys

\* The two halves of a pair belong to each other.
LEMMA PairOf ==
    \A f \in Frames :
        /\ f[2] \in Numbers /\ Partner(f) \in Frames /\ Partner(Partner(f)) = f
        /\ \/ f = <<1, f[2]>> /\ Partner(f) = <<2, f[2]>>
           \/ f = <<2, f[2]>> /\ Partner(f) = <<1, f[2]>>
BY DEF Frames, Cameras, Numbers, Partner, Other

\* The partner of a first camera's half is the second's.
LEMMA PartnerOfFirst ==
    ASSUME NEW f \in Frames, NEW s, Partner(f) = <<1, s>>
    PROVE  f = <<2, s>>
BY DEF Frames, Cameras, Numbers, Partner, Other

-----------------------------------------------------------------------------
(* Steps.                                                                  *)

\* Types, places and the order of join and sources are kept.
LEMMA TypesKept ==
    ASSUME TypeOK, Places, Joins, [Next]_vars
    PROVE  TypeOK' /\ Places' /\ Joins'
<1>. USE StereoAssumption, KeyIn DEF TypeOK, Places, Joins, vars, repoVars,
      joinVars, procVars, Procs, Nodes, Cameras, Frames, Numbers, NoFrame
<1>1. ASSUME NEW c \in Cameras, SourceFrame(c)
      PROVE  TypeOK' /\ Places' /\ Joins'
  <2>1. TypeOK'
    BY <1>1 DEF SourceFrame
  <2>2. Places'
    BY <1>1 DEF SourceFrame
  <2>3. Joins'
    BY <1>1 DEF SourceFrame
  <2>. QED BY <2>1, <2>2, <2>3
<1>2. CASE PairFirst
  <2>1. TypeOK'
    <3>1. joined \in Numbers
      BY <1>2 DEF PairFirst
    <3>. QED BY <1>2, <3>1 DEF PairFirst
  <2>2. Places'
    BY <1>2 DEF PairFirst
  <2>3. Joins'
    BY <1>2 DEF PairFirst
  <2>. QED BY <2>1, <2>2, <2>3
<1>3. CASE PairSecond
  <2>1. TypeOK'
    <3>1. joined \in Numbers
      BY <1>3 DEF PairSecond
    <3>. QED BY <1>3, <3>1 DEF PairSecond
  <2>2. Places'
    BY <1>3 DEF PairSecond
  <2>3. Joins'
    BY <1>3 DEF PairSecond
  <2>. QED BY <2>1, <2>2, <2>3
<1>4. ASSUME NEW p \in Procs, Erase(p)
      PROVE  TypeOK' /\ Places' /\ Joins'
  <2>1. TypeOK'
    BY <1>4 DEF Erase, EraseUnless, Go, Return
  <2>2. Places'
    BY <1>4 DEF Erase, EraseUnless, Go, Return
  <2>3. Joins'
    BY <1>4 DEF Erase, EraseUnless, Go, Return
  <2>. QED BY <2>1, <2>2, <2>3
<1>5. ASSUME NEW p \in Procs, EraseTwin(p)
      PROVE  TypeOK' /\ Places' /\ Joins'
  <2>1. TypeOK'
    BY <1>5 DEF EraseTwin, Go, Return
  <2>2. Places'
    BY <1>5 DEF EraseTwin, Go, Return
  <2>3. Joins'
    BY <1>5 DEF EraseTwin, Go, Return
  <2>. QED BY <2>1, <2>2, <2>3
<1>6. ASSUME NEW p \in Procs, Unpair(p)
      PROVE  TypeOK' /\ Places' /\ Joins'
  <2>1. TypeOK'
    BY <1>6 DEF Unpair, Go, Return
  <2>2. Places'
    BY <1>6 DEF Unpair, Go, Return
  <2>3. Joins'
    BY <1>6 DEF Unpair, Go, Return
  <2>. QED BY <2>1, <2>2, <2>3
<1>7. ASSUME NEW p \in Routers, RouterTake(p)
      PROVE  TypeOK' /\ Places' /\ Joins'
  <2>1. TypeOK'
    BY <1>7 DEF RouterTake, Go
  <2>2. Places'
    BY <1>7 DEF RouterTake, Go
  <2>3. Joins'
    BY <1>7 DEF RouterTake, Go
  <2>. QED BY <2>1, <2>2, <2>3
<1>8. ASSUME NEW p \in Routers, NEW n \in Nodes, (pc[p] = n /\ Put(p, n))
      PROVE  TypeOK' /\ Places' /\ Joins'
  <2>1. TypeOK'
    BY <1>8 DEF Put
  <2>2. Places'
    BY <1>8 DEF Put
  <2>3. Joins'
    BY <1>8 DEF Put
  <2>. QED BY <2>1, <2>2, <2>3
<1>9. ASSUME NEW p \in Routers, Refused(p)
      PROVE  TypeOK' /\ Places' /\ Joins'
  <2>1. TypeOK'
    BY <1>9 DEF Refused, Delete, Go
  <2>2. Places'
    BY <1>9 DEF Refused, Delete, Go
  <2>3. Joins'
    BY <1>9 DEF Refused, Delete, Go
  <2>. QED BY <2>1, <2>2, <2>3
<1>10. ASSUME NEW p \in Routers, RouterFlag(p)
      PROVE  TypeOK' /\ Places' /\ Joins'
  <2>1. TypeOK'
    BY <1>10 DEF RouterFlag, Go
  <2>2. Places'
    BY <1>10 DEF RouterFlag, Go
  <2>3. Joins'
    BY <1>10 DEF RouterFlag, Go
  <2>. QED BY <2>1, <2>2, <2>3
<1>11. ASSUME NEW n \in Nodes, NodeStart(n)
      PROVE  TypeOK' /\ Places' /\ Joins'
  <2>1. TypeOK'
    BY <1>11 DEF NodeStart, Go
  <2>2. Places'
    BY <1>11 DEF NodeStart, Go
  <2>3. Joins'
    BY <1>11 DEF NodeStart, Go
  <2>. QED BY <2>1, <2>2, <2>3
<1>12. CASE DetectTwin
  <2>1. TypeOK'
    BY <1>12 DEF DetectTwin, Go
  <2>2. Places'
    BY <1>12 DEF DetectTwin, Go
  <2>3. Joins'
    BY <1>12 DEF DetectTwin, Go
  <2>. QED BY <2>1, <2>2, <2>3
<1>13. ASSUME NEW n \in Nodes, NodeDone(n)
      PROVE  TypeOK' /\ Places' /\ Joins'
  <2>1. TypeOK'
    BY <1>13 DEF NodeDone, Lower, Delete, Go
  <2>2. Places'
    BY <1>13 DEF NodeDone, Lower, Delete, Go
  <2>3. Joins'
    BY <1>13 DEF NodeDone, Lower, Delete, Go
  <2>. QED BY <2>1, <2>2, <2>3
<1>14. CASE RenderBegin
  <2>1. TypeOK'
    BY <1>14 DEF RenderBegin, Lower, Delete, Go
  <2>2. Places'
    BY <1>14 DEF RenderBegin, Lower, Delete, Go
  <2>3. Joins'
    BY <1>14 DEF RenderBegin, Lower, Delete, Go
  <2>. QED BY <2>1, <2>2, <2>3
<1>15. CASE DetectSecond
  <2>1. TypeOK'
    BY <1>15 DEF DetectSecond, Lower, Delete, Go
  <2>2. Places'
    BY <1>15 DEF DetectSecond, Lower, Delete, Go
  <2>3. Joins'
    BY <1>15 DEF DetectSecond, Lower, Delete, Go
  <2>. QED BY <2>1, <2>2, <2>3
<1>16. CASE UNCHANGED vars
  BY <1>16
<1>. HIDE DEF TypeOK, Places, Joins, vars, repoVars, joinVars, procVars, Procs, Nodes,
      Cameras, Frames, Numbers, NoFrame
<1>. QED BY <1>1, <1>2, <1>3, <1>4, <1>5, <1>6, <1>7, <1>8, <1>9, <1>10, <1>11, <1>12,
      <1>13, <1>14, <1>15, <1>16
  DEF Next, Deletion, Router, RouterPut, Node

\* Who may still touch a number is kept.
LEMMA HandingKept ==
    ASSUME TypeOK, Places, Joins, Handing, [Next]_vars
    PROVE  Handing'
<1>. USE StereoAssumption DEF TypeOK, Places, Joins, Handing, Touches, vars, repoVars,
      joinVars, procVars, Procs, Nodes, Cameras, Frames, Numbers, NoFrame
<1>1. ASSUME NEW c \in Cameras, SourceFrame(c)
      PROVE  Handing'
  BY <1>1 DEF SourceFrame
<1>2. CASE PairFirst
  BY <1>2 DEF PairFirst
<1>3. CASE PairSecond
  BY <1>3 DEF PairSecond
<1>4. ASSUME NEW p \in Procs, Erase(p)
      PROVE  Handing'
  BY <1>4 DEF Erase, EraseUnless, Go, Return
<1>5. ASSUME NEW p \in Procs, EraseTwin(p)
      PROVE  Handing'
  BY <1>5 DEF EraseTwin, Go, Return
<1>6. ASSUME NEW p \in Procs, Unpair(p)
      PROVE  Handing'
  BY <1>6 DEF Unpair, Go, Return
<1>7. ASSUME NEW p \in Routers, RouterTake(p)
      PROVE  Handing'
  BY <1>7 DEF RouterTake, Go
<1>8. ASSUME NEW p \in Routers, NEW n \in Nodes, (pc[p] = n /\ Put(p, n))
      PROVE  Handing'
  BY <1>8 DEF Put
<1>9. ASSUME NEW p \in Routers, Refused(p)
      PROVE  Handing'
  BY <1>9 DEF Refused, Delete, Go
<1>10. ASSUME NEW p \in Routers, RouterFlag(p)
      PROVE  Handing'
  BY <1>10 DEF RouterFlag, Go
<1>11. ASSUME NEW n \in Nodes, NodeStart(n)
      PROVE  Handing'
  BY <1>11 DEF NodeStart, Go
<1>12. CASE DetectTwin
  BY <1>12 DEF DetectTwin, Go
<1>13. ASSUME NEW n \in Nodes, NodeDone(n)
      PROVE  Handing'
  BY <1>13 DEF NodeDone, Lower, Delete, Go
<1>14. CASE RenderBegin
  BY <1>14 DEF RenderBegin, Lower, Delete, Go
<1>15. CASE DetectSecond
  BY <1>15 DEF DetectSecond, Lower, Delete, Go
<1>16. CASE UNCHANGED vars
  BY <1>16
<1>. HIDE DEF TypeOK, Places, Joins, Handing, Touches, vars, repoVars, joinVars,
      procVars, Procs, Nodes, Cameras, Frames, Numbers, NoFrame
<1>. QED BY <1>1, <1>2, <1>3, <1>4, <1>5, <1>6, <1>7, <1>8, <1>9, <1>10, <1>11, <1>12,
      <1>13, <1>14, <1>15, <1>16
  DEF Next, Deletion, Router, RouterPut, Node

\* No late flag is kept.
LEMMA NoLateFlagKept ==
    ASSUME TypeOK, Places, Joins, Handing, NoLateFlag, Pairing, [Next]_vars
    PROVE  NoLateFlag'
<1>. USE StereoAssumption DEF TypeOK, Places, Joins, Handing, Touches, NoLateFlag,
      AtSecond, vars, repoVars, joinVars, procVars, Procs, Nodes, Cameras, Frames,
      Numbers, NoFrame
<1>1. ASSUME NEW c \in Cameras, SourceFrame(c)
      PROVE  NoLateFlag'
  <2>1. pc["detector"] # "idle" => seq["detector"] # count[c]
    BY <1>1 DEF SourceFrame
  <2>. QED BY <1>1, <2>1 DEF SourceFrame
<1>2. CASE PairFirst
  BY <1>2 DEF PairFirst
<1>3. CASE PairSecond
  BY <1>3 DEF PairSecond
<1>4. ASSUME NEW p \in Procs, Erase(p)
      PROVE  NoLateFlag'
  <2>1. CASE p # "detector"
    BY <1>4, <2>1 DEF Erase, EraseUnless, Go, Return
  <2>2. CASE p = "detector" /\ own[p][1] = 2
    BY <1>4, <2>2 DEF Erase, EraseUnless, Go, Return
  <2>3. CASE p = "detector" /\ own[p][1] = 1
    <3>1. own[p] = <<1, seq[p]>>
      BY <1>4, <2>3 DEF Erase, EraseUnless
    <3>2. CASE own[p] \notin stored'
      BY <1>4, <2>3, <3>1, <3>2 DEF Erase, EraseUnless, Go, Return
    <3>3. CASE own[p] \in stored'
      <4>1. PICK n \in Nodes : seq[p] \in up[n]
        BY <1>4, <2>3, <3>1, <3>3 DEF Erase, EraseUnless, InUse
      <4>2. pc[p] = "delete" /\ pc' = [pc EXCEPT ![p] = ret[p]]
        BY <1>4, <3>3 DEF Erase, EraseUnless, Go, Return
      <4>. QED BY <1>4, <2>3, <4>1, <4>2 DEF Erase, EraseUnless
    <3>. QED BY <3>2, <3>3
  <2>. QED BY <1>4, <2>1, <2>2, <2>3 DEF Erase, EraseUnless
<1>5. ASSUME NEW p \in Procs, EraseTwin(p)
      PROVE  NoLateFlag'
  <2>1. CASE p # "detector"
    BY <1>5, <2>1 DEF EraseTwin, Go, Return
  <2>2. CASE p = "detector"
    <3>1. own[p] \notin stored /\ stored' \subseteq stored
      BY <1>5 DEF EraseTwin, Pairing
    <3>2. own[p] = <<2, seq[p]>> \/ own[p] = <<1, seq[p]>>
      BY <1>5, PairOf DEF EraseTwin
    <3>. QED BY <1>5, <2>2, <3>1, <3>2 DEF EraseTwin, Go, Return
  <2>. QED BY <2>1, <2>2
<1>6. ASSUME NEW p \in Procs, Unpair(p)
      PROVE  NoLateFlag'
  <2>1. CASE p # "detector"
    BY <1>6, <2>1 DEF Unpair, Go, Return
  <2>2. CASE p = "detector"
    <3>1. <<1, seq[p]>> \notin stored
      <4>1. own[p] \in Frames /\ own[p][2] = seq[p]
        BY <1>6 DEF Unpair, Pairing
      <4>2. own[p] \notin stored /\ Partner(own[p]) \notin stored
        BY <1>6 DEF Unpair, Pairing
      <4>. QED BY <4>1, <4>2, PairOf
    <3>. QED BY <1>6, <2>2, <3>1 DEF Unpair, Go, Return
  <2>. QED BY <2>1, <2>2
<1>7. ASSUME NEW p \in Routers, RouterTake(p)
      PROVE  NoLateFlag'
  BY SMTT(30), <1>7 DEF RouterTake, Go
<1>8. ASSUME NEW p \in Routers, NEW n \in Nodes, (pc[p] = n /\ Put(p, n))
      PROVE  NoLateFlag'
  <2>1. CASE n = "detector"
    BY <1>8, <2>1 DEF Put
  <2>2. CASE n # "detector"
    <3>1. AtSecond /\ n # "renderer" => seq[p] # seq["detector"]
      BY <1>8 DEF Put
    <3>. QED BY <1>8, <2>2, <3>1 DEF Put
  <2>. QED BY <2>1, <2>2
<1>9. ASSUME NEW p \in Routers, Refused(p)
      PROVE  NoLateFlag'
  BY <1>9 DEF Refused, Delete, Go
<1>10. ASSUME NEW p \in Routers, RouterFlag(p)
      PROVE  NoLateFlag'
  BY <1>10 DEF RouterFlag, Go
<1>11. ASSUME NEW n \in Nodes, NodeStart(n)
      PROVE  NoLateFlag'
  BY <1>11 DEF NodeStart, Go
<1>12. CASE DetectTwin
  BY <1>12 DEF DetectTwin, Go
<1>13. ASSUME NEW n \in Nodes, NodeDone(n)
      PROVE  NoLateFlag'
  BY <1>13 DEF NodeDone, Lower, Delete, Go
<1>14. CASE RenderBegin
  BY <1>14 DEF RenderBegin, Lower, Delete, Go
<1>15. CASE DetectSecond
  BY <1>15 DEF DetectSecond, Lower, Delete, Go
<1>16. CASE UNCHANGED vars
  BY <1>16
<1>. HIDE DEF TypeOK, Places, Joins, Handing, Touches, NoLateFlag, AtSecond, vars,
      repoVars, joinVars, procVars, Procs, Nodes, Cameras, Frames, Numbers, NoFrame
<1>. QED BY <1>1, <1>2, <1>3, <1>4, <1>5, <1>6, <1>7, <1>8, <1>9, <1>10, <1>11, <1>12,
      <1>13, <1>14, <1>15, <1>16
  DEF Next, Deletion, Router, RouterPut, Node

\* The twin of a frame that has been erased is free to go.
LEMMA TwinIsFree ==
    ASSUME TypeOK, Places, Handing, NoLateFlag, Pairing, NEW p \in Procs, pc[p] = "twin",
           twin[p] \in stored
    PROVE  ~InUse(twin[p], {"detector", "tracker"})
<1>1. own[p] \in Frames /\ own[p][2] = seq[p] /\ twin[p] = Partner(own[p])
  BY DEF Places, Pairing
<1>2. CASE own[p] = <<1, seq[p]>>
  BY <1>1, <1>2, PairOf DEF InUse
<1>3. CASE own[p] = <<2, seq[p]>>
  <2>1. p = "detector" /\ seq[p] \in Numbers
    BY <1>3 DEF Places, TypeOK
  <2>2. twin[p] = <<1, seq[p]>>
    BY <1>1, <1>3, PairOf
  <2>3. seq[p] \notin up["detector"]
    BY <1>3, <2>1, <2>2 DEF NoLateFlag, AtSecond
  <2>4. seq[p] \notin up["tracker"]
    BY <2>1 DEF Handing, Touches
  <2>. QED BY <2>2, <2>3, <2>4 DEF InUse
<1>. QED BY <1>1, <1>2, <1>3, PairOf


\* Frames that wait are kept.
LEMMA WaitingKept ==
    ASSUME TypeOK, Places, Joins, Handing, NoLateFlag, Waiting, Pairing, [Next]_vars
    PROVE  Waiting'
<1>. USE StereoAssumption DEF TypeOK, Places, Joins, Waiting, vars, repoVars,
      joinVars, procVars, Procs, Nodes, Cameras, Frames, Numbers, NoFrame
<1>1. ASSUME NEW c \in Cameras, SourceFrame(c)
      PROVE  Waiting'
  <2>1. ASSUME NEW d \in Cameras, NEW s \in Numbers, joined <= s, s < count'[d]
        PROVE  s < count[d] \/ (d = c /\ s = count[c])
    BY <1>1, <2>1 DEF SourceFrame
  <2>2. joined' = joined /\ stored' = stored \cup {<<c, count[c]>>}
    BY <1>1 DEF SourceFrame
  <2>. QED BY <2>1, <2>2
<1>2. CASE PairFirst
  BY <1>2 DEF PairFirst
<1>3. CASE PairSecond
  BY <1>3 DEF PairSecond
<1>4. ASSUME NEW p \in Procs, Erase(p)
      PROVE  Waiting'
  BY <1>4 DEF Erase, EraseUnless, Go, Return
<1>5. ASSUME NEW p \in Procs, EraseTwin(p)
      PROVE  Waiting'
  <2>1. twin[p][2] = seq[p] /\ twin[p] \in Frames
    BY <1>5, PairOf DEF EraseTwin, Pairing
  <2>. QED BY <1>5, <2>1 DEF EraseTwin
<1>6. ASSUME NEW p \in Procs, Unpair(p)
      PROVE  Waiting'
  BY <1>6 DEF Unpair, Go, Return
<1>7. ASSUME NEW p \in Routers, RouterTake(p)
      PROVE  Waiting'
  BY <1>7 DEF RouterTake, Go
<1>8. ASSUME NEW p \in Routers, NEW n \in Nodes, (pc[p] = n /\ Put(p, n))
      PROVE  Waiting'
  BY <1>8 DEF Put
<1>9. ASSUME NEW p \in Routers, Refused(p)
      PROVE  Waiting'
  BY <1>9 DEF Refused, Delete, Go
<1>10. ASSUME NEW p \in Routers, RouterFlag(p)
      PROVE  Waiting'
  BY <1>10 DEF RouterFlag, Go
<1>11. ASSUME NEW n \in Nodes, NodeStart(n)
      PROVE  Waiting'
  BY <1>11 DEF NodeStart, Go
<1>12. CASE DetectTwin
  BY <1>12 DEF DetectTwin, Go
<1>13. ASSUME NEW n \in Nodes, NodeDone(n)
      PROVE  Waiting'
  BY <1>13 DEF NodeDone, Lower, Delete, Go
<1>14. CASE RenderBegin
  BY <1>14 DEF RenderBegin, Lower, Delete, Go
<1>15. CASE DetectSecond
  BY <1>15 DEF DetectSecond, Lower, Delete, Go
<1>16. CASE UNCHANGED vars
  BY <1>16
<1>. HIDE DEF TypeOK, Places, Joins, Waiting, vars, repoVars, joinVars,
      procVars, Procs, Nodes, Cameras, Frames, Numbers, NoFrame
<1>. QED BY <1>1, <1>2, <1>3, <1>4, <1>5, <1>6, <1>7, <1>8, <1>9, <1>10, <1>11, <1>12,
      <1>13, <1>14, <1>15, <1>16
  DEF Next, Deletion, Router, RouterPut, Node

-----------------------------------------------------------------------------
(* Pairs that are there, and their keys.                                   *)

\* Whoever is at the rest of a pair is at one that is there.
LEMMA AtWork ==
    ASSUME TypeOK, Places, Pairing, NEW p \in Procs, pc[p] \in {"twin", "unpair"}
    PROVE  /\ own[p] \in Frames /\ own[p][2] = seq[p] /\ Present(own[p][2])
           /\ Partner(own[p]) \in Frames /\ Partner(own[p])[2] = own[p][2]
<1>1. own[p] \in Frames /\ own[p][2] = seq[p] /\ seq[p] >= 1 /\ seq[p] < taken
  BY DEF Places, Pairing
<1>2. taken \in Nat /\ joined \in Nat /\ taken <= joined /\ seq[p] \in Nat
  BY StereoAssumption DEF TypeOK, Numbers
<1>3. Present(own[p][2])
  BY <1>1, <1>2 DEF Present, Paired, Parting
<1>. QED BY <1>1, <1>3, PairOf

\* A pair comes to be there when it has been joined, and not otherwise.
LEMMA PresentKept ==
    ASSUME TypeOK, Places, Joins, Pairing, [Next]_vars, NEW s \in Numbers, Present(s)'
    PROVE  Present(s) \/ (PairSecond /\ s = joined)
<1>. USE StereoAssumption DEF TypeOK, Places, Joins, Present, Paired, Parting, vars,
      repoVars, joinVars, procVars, Procs, Nodes, Cameras, Frames, Numbers, NoFrame
<1>1. ASSUME NEW c \in Cameras, SourceFrame(c)
      PROVE  Present(s)
  BY <1>1 DEF SourceFrame
<1>2. CASE PairFirst
  BY <1>2 DEF PairFirst
<1>3. CASE PairSecond
  BY <1>3 DEF PairSecond
<1>4. ASSUME NEW p \in Procs, Erase(p)
      PROVE  Present(s)
  <2>1. CASE own[p] \in stored /\ own[p][2] = s
    <3>1. own[p] = <<1, s>> \/ own[p] = <<2, s>>
      BY <2>1, PairOf
    <3>2. \E c \in Cameras : <<c, s>> \in stored
      BY <2>1, <3>1
    <3>3. joined' = joined
      BY <1>4 DEF Erase, EraseUnless
    <3>. QED BY <3>2, <3>3
  <2>2. CASE ~(own[p] \in stored /\ own[p][2] = s)
    BY <1>4, <2>2 DEF Erase, EraseUnless, Go, Return
  <2>. QED BY <2>1, <2>2
<1>5. ASSUME NEW p \in Procs, EraseTwin(p)
      PROVE  Present(s)
  <2>1. pc[p] = "twin" /\ twin[p][2] = own[p][2]
    BY <1>5, PairOf DEF EraseTwin, Pairing
  <2>2. stored' \subseteq stored /\ joined' = joined
    BY <1>5 DEF EraseTwin
  <2>3. CASE own[p][2] = s
    BY <2>1, <2>2, <2>3
  <2>4. CASE own[p][2] # s
    <3>1. \A q \in Procs : q # p => pc'[q] = pc[q] /\ own'[q] = own[q]
      BY <1>5 DEF EraseTwin, Go, Return
    <3>2. own'[p][2] # s
      BY <1>5, <2>1, <2>4 DEF EraseTwin
    <3>. QED BY <2>2, <3>1, <3>2
  <2>. QED BY <2>3, <2>4
<1>6. ASSUME NEW p \in Procs, Unpair(p)
      PROVE  Present(s)
  BY <1>6 DEF Unpair, Go, Return
<1>7. ASSUME NEW p \in Routers, RouterTake(p)
      PROVE  Present(s)
  BY <1>7 DEF RouterTake, Go
<1>8. ASSUME NEW p \in Routers, NEW n \in Nodes, (pc[p] = n /\ Put(p, n))
      PROVE  Present(s)
  BY <1>8 DEF Put
<1>9. ASSUME NEW p \in Routers, Refused(p)
      PROVE  Present(s)
  BY <1>9 DEF Refused, Delete, Go
<1>10. ASSUME NEW p \in Routers, RouterFlag(p)
      PROVE  Present(s)
  BY <1>10 DEF RouterFlag, Go
<1>11. ASSUME NEW n \in Nodes, NodeStart(n)
      PROVE  Present(s)
  BY <1>11 DEF NodeStart, Go
<1>12. CASE DetectTwin
  BY <1>12 DEF DetectTwin, Go
<1>13. ASSUME NEW n \in Nodes, NodeDone(n)
      PROVE  Present(s)
  BY <1>13 DEF NodeDone, Lower, Delete, Go
<1>14. CASE RenderBegin
  BY <1>14 DEF RenderBegin, Lower, Delete, Go
<1>15. CASE DetectSecond
  BY <1>15 DEF DetectSecond, Lower, Delete, Go
<1>16. CASE UNCHANGED vars
  BY <1>16
<1>. HIDE DEF TypeOK, Places, Joins, Present, Paired, Parting, vars, repoVars, joinVars,
      procVars, Procs, Nodes, Cameras, Frames, Numbers, NoFrame
<1>. QED BY <1>1, <1>2, <1>3, <1>4, <1>5, <1>6, <1>7, <1>8, <1>9, <1>10, <1>11, <1>12,
      <1>13, <1>14, <1>15, <1>16
  DEF Next, Deletion, Router, RouterPut, Node

\* Only the join makes a step of its own.
LEMMA JoinKept ==
    ASSUME [Next]_vars, ~PairFirst, ~PairSecond
    PROVE  UNCHANGED <<joined, jPc, apart>>
BY DEF Next, Deletion, Router, Node, SourceFrame, Erase, EraseUnless, EraseTwin, Unpair,
       RouterTake, RouterPut, Put, Refused, RouterFlag, NodeStart, DetectTwin, NodeDone,
       RenderBegin, DetectSecond, vars, joinVars

\* What has been apart all along was so before.
LEMMA ApartBefore ==
    ASSUME [Next]_vars, apart'
    PROVE  apart
BY JoinKept DEF PairFirst, PairSecond

\* As long as the history says so, the pairs there and the one being joined
\* have keys of their own.
LEMMA KeysApartKept ==
    ASSUME TypeOK, Places, Joins, Pairing, KeysApart, [Next]_vars, apart'
    PROVE  KeysApart'
<1>. SUFFICES ASSUME NEW f \in Frames, NEW g \in Frames, Live(f[2])', Live(g[2])',
                     Key(f) = Key(g)
              PROVE  f = g
  BY DEF KeysApart
<1>1. f[2] \in Numbers /\ g[2] \in Numbers
  BY PairOf
<1>2. CASE PairFirst
  <2>1. \A s \in Numbers : Live(s)' => Present(s) \/ (s = joined /\ s # 0)
    BY <1>2, PresentKept DEF PairFirst, PairSecond, Live
  <2>2. CASE joined = 0
    BY <1>1, <2>1, <2>2 DEF Present, Paired, Numbers
  <2>3. CASE joined # 0
    <3>1. OwnKeys(joined)
      BY <1>2, <2>3 DEF PairFirst
    <3>2. CASE f[2] = joined
      <4>1. f \in Cameras \X {joined} /\ (g[2] = joined \/ Present(g[2]))
        BY <1>1, <2>1, <3>2 DEF Frames
      <4>. QED BY <3>1, <4>1 DEF OwnKeys
    <3>3. CASE g[2] = joined
      <4>1. g \in Cameras \X {joined} /\ (f[2] = joined \/ Present(f[2]))
        BY <1>1, <2>1, <3>3 DEF Frames
      <4>. QED BY <3>1, <4>1 DEF OwnKeys
    <3>4. CASE f[2] # joined /\ g[2] # joined
      BY <1>1, <2>1, <3>4 DEF KeysApart, Live
    <3>. QED BY <3>2, <3>3, <3>4
  <2>. QED BY <2>2, <2>3
<1>3. CASE ~PairFirst
  <2>1. \A s \in Numbers : Live(s)' => Live(s)
    <3>1. CASE PairSecond
      BY <3>1, PresentKept DEF PairSecond, Live, Present
    <3>2. CASE ~PairSecond
      BY <1>3, <3>2, PresentKept, JoinKept DEF Live
    <3>. QED BY <3>1, <3>2
  <2>. QED BY <1>1, <2>1 DEF KeysApart
<1>. QED BY <1>2, <1>3

\* The pairs and what the deleters have in hand stay right.
LEMMA PairingKept ==
    ASSUME KeysApart, KeysApart', TypeOK, Places, Joins, Handing, NoLateFlag, Waiting, Pairing,
           [Next]_vars
    PROVE  Pairing'
<1>1. /\ \A s \in Numbers : Present(s)' => Present(s) \/ (PairSecond /\ s = joined)
      /\ \A f \in Frames : Present(f[2])' => Present(f[2]) \/ (PairSecond /\ f[2] = joined)
  BY PresentKept, PairOf
<1>2. \A p \in Procs : pc[p] \in {"twin", "unpair"} =>
         /\ own[p] \in Frames /\ own[p][2] = seq[p] /\ Present(own[p][2])
         /\ Partner(own[p]) \in Frames /\ Partner(own[p])[2] = own[p][2]
  BY AtWork
<1>3. \A s : Present(s) => s # 0 /\ s < joined
  BY DEF Present, Paired
<1>4. joined \in Nat /\ \A f \in Frames : f[2] \in Nat
  BY StereoAssumption, PairOf DEF TypeOK, Numbers
<1>. USE StereoAssumption, PairOf, KeyIn, <1>1, <1>2 DEF TypeOK, Places, Joins,
      Pairing, vars, repoVars, joinVars, procVars, Procs, Nodes, Cameras, Frames, Numbers,
      NoFrame
<1>5. ASSUME NEW c \in Cameras, SourceFrame(c)
      PROVE  Pairing'
  <2>1. \A q \in Procs : pc[q] \in {"twin", "unpair"} =>
            \A f \in Frames : f[2] = own[q][2] /\ f \notin stored => f \notin stored'
    BY <1>3, <1>5 DEF SourceFrame
  <2>. QED BY <1>5, <2>1 DEF SourceFrame, PairSecond
<1>6. CASE PairFirst
  <2>1. <<1, joined>> \in Frames /\ pairs' = [pairs EXCEPT ![Key(<<1, joined>>)] = <<2, joined>>]
    BY <1>6 DEF PairFirst
  <2>2. ~PairSecond /\ joined' = joined /\ jPc' = "second"
    BY <1>6 DEF PairFirst, PairSecond
  <2>3. \A s : Present(s)' <=> Present(s)
    BY <1>6 DEF PairFirst, Present, Paired, Parting
  <2>4. ASSUME NEW f \in Frames, Present(f[2]) PROVE Key(f) # Key(<<1, joined>>)
    <3>1. joined # 0 /\ f[2] # joined
      BY <1>3, <1>4, <2>4
    <3>2. Live(f[2])' /\ \A g \in Frames : g[2] = joined => Live(g[2])'
      BY <2>2, <2>3, <2>4, <3>1 DEF Live
    <3>3. <<1, joined>>[2] = joined /\ f # <<1, joined>>
      BY <3>1
    <3>. QED BY ONLY <2>1, <2>4, <3>2, <3>3, KeysApart' DEF KeysApart
  <2>5. \A f \in Frames : Present(f[2]) => pairs'[Key(f)] = pairs[Key(f)]
    BY <2>1, <2>4
  <2>6. pairs'[Key(<<1, joined>>)] = <<2, joined>>
    BY <2>1
  <2>7. pc' = pc /\ own' = own /\ twin' = twin /\ seq' = seq /\ stored' = stored
    BY <1>6 DEF PairFirst
  <2>8. \A f \in Frames : Present(f[2])' => pairs'[Key(f)] \in {NoFrame, Partner(f)}
    BY <2>3, <2>5
  <2>9. \A p \in Procs : pc[p] = "unpair" => pairs'[Key(Partner(own[p]))] = NoFrame
    BY <1>2, <2>5
  <2>. HIDE DEF Procs, Frames
  <2>. QED BY ONLY Pairing, <2>2, <2>6, <2>7, <2>8, <2>9 DEF Pairing
<1>7. CASE PairSecond
  <2>1. <<1, joined>> \in Frames /\ <<2, joined>> \in Frames
    BY <1>7 DEF PairSecond
  <2>2. pairs' = [pairs EXCEPT ![Key(<<2, joined>>)] = <<1, joined>>]
    BY <1>7 DEF PairSecond
  <2>3. ASSUME NEW f \in Frames, Present(f[2]) \/ (f = <<1, joined>> /\ joined # 0)
        PROVE  pairs'[Key(f)] = pairs[Key(f)]
    <3>1. f # <<2, joined>> /\ joined # 0
      BY <1>3, <1>4, <2>3
    <3>2. Live(f[2]) /\ Live(joined)
      BY <1>7, <2>3, <3>1 DEF Live, PairSecond
    <3>3. Key(f) # Key(<<2, joined>>)
      BY <2>1, <3>1, <3>2 DEF KeysApart
    <3>. QED BY <2>2, <3>3
  <2>4. pairs'[Key(<<2, joined>>)] = <<1, joined>>
    BY <2>1, <2>2
  <2>5. ASSUME NEW f \in Frames, Present(f[2])' PROVE pairs'[Key(f)] \in {NoFrame, Partner(f)}
    <3>1. CASE Present(f[2])
      BY <2>3, <3>1
    <3>2. CASE f = <<2, joined>>
      <4>1. Partner(f) = <<1, joined>>
        BY ONLY <3>2 DEF Partner, Other
      <4>. QED BY <2>4, <3>2, <4>1
    <3>3. CASE f = <<1, joined>> /\ joined # 0
      <4>1. pairs[Key(f)] = <<2, joined>>
        BY <1>7, <3>3 DEF PairSecond
      <4>. QED BY <2>3, <3>3, <4>1 DEF Partner, Other
    <3>4. f[2] # 0
      BY <2>5 DEF Present
    <3>. QED BY <2>5, <3>1, <3>2, <3>3, <3>4
  <2>6. pc' = pc /\ own' = own /\ twin' = twin /\ seq' = seq /\ stored' = stored
        /\ jPc' = "idle"
    BY <1>7 DEF PairSecond
  <2>7. \A f \in Frames : Present(f[2])' => pairs'[Key(f)] \in {NoFrame, Partner(f)}
    BY <2>5
  <2>8. \A p \in Procs : pc[p] = "unpair" => pairs'[Key(Partner(own[p]))] = NoFrame
    BY <1>2, <2>3
  <2>. HIDE DEF Procs, Frames
  <2>. QED BY ONLY Pairing, <2>6, <2>7, <2>8 DEF Pairing
<1>8. ASSUME NEW p \in Procs, Erase(p)
      PROVE  Pairing'
  <2>1. ~PairSecond /\ pairs' = pairs /\ own' = own /\ stored' \subseteq stored
        /\ joined' = joined /\ jPc' = jPc /\ seq' = seq
    BY <1>8 DEF Erase, EraseUnless, PairSecond
  <2>2. own[p] \in Frames /\ own[p][2] = seq[p] /\ seq[p] >= 1 /\ seq[p] < joined
    BY <1>8 DEF Erase, EraseUnless
  <2>3. \A q \in Procs : q # p => pc'[q] = pc[q] /\ twin'[q] = twin[q]
    BY <1>8 DEF Erase, EraseUnless, Go, Return
  <2>4. ASSUME pc'[p] \in {"twin", "unpair"}
        PROVE  pc'[p] = "twin" /\ own[p] \notin stored' /\ twin'[p] = Partner(own[p])
    <3>1. own[p] \in stored /\ stored' = stored \ {own[p]} /\ pc'[p] = "twin"
          /\ twin'[p] = pairs[Key(own[p])] /\ pairs[Key(own[p])] # NoFrame
      BY <1>8, <2>4 DEF Erase, EraseUnless, Go, Return
    <3>2. \E c \in Cameras : <<c, own[p][2]>> \in stored
      BY <2>2, <3>1
    <3>3. Present(own[p][2])
      <4>1. own[p][2] # 0 /\ own[p][2] < joined
        BY <2>2
      <4>. QED BY ONLY <3>2, <4>1 DEF Present, Paired
    <3>. QED BY <2>2, <3>1, <3>3
  <2>. QED BY <2>1, <2>3, <2>4
<1>9. ASSUME NEW p \in Procs, EraseTwin(p)
      PROVE  Pairing'
  <2>1. /\ own[p] \in Frames /\ own[p][2] = seq[p] /\ Present(own[p][2]) /\ ~PairSecond
        /\ twin[p] = Partner(own[p]) /\ own[p] \notin stored
    BY <1>9 DEF EraseTwin, PairSecond
  <2>2. stored' \subseteq stored /\ twin[p] \notin stored'
    BY <1>9, TwinIsFree DEF EraseTwin
  <2>3. pairs' = [pairs EXCEPT ![Key(own[p])] = NoFrame]
    BY <1>9 DEF EraseTwin
  <2>4. \A f \in Frames : Present(f[2])' => pairs'[Key(f)] \in {NoFrame, Partner(f)}
    BY <2>1, <2>3
  <2>5. jPc' = "second" /\ joined' # 0 => pairs'[Key(<<1, joined'>>)] = <<2, joined'>>
    <3>1. ASSUME jPc = "second", joined # 0 PROVE Key(own[p]) # Key(<<1, joined>>)
      <4>1. Live(own[p][2]) /\ Live(joined) /\ own[p][2] # joined /\ <<1, joined>> \in Frames
        BY <1>3, <1>4, <2>1, <3>1 DEF Live
      <4>. QED BY <2>1, <4>1 DEF KeysApart
    <3>. QED BY <1>9, <2>3, <3>1 DEF EraseTwin
  <2>6. ASSUME NEW q \in Procs, pc'[q] = "twin"
        PROVE  own'[q] \notin stored' /\ twin'[q] = Partner(own'[q])
    BY <1>9, <2>2, <2>6 DEF EraseTwin, Go, Return
  <2>7. ASSUME NEW q \in Procs, pc'[q] = "unpair"
        PROVE  /\ own'[q] \in Frames /\ own'[q][2] = seq'[q] /\ twin'[q] = own'[q]
               /\ own'[q] \notin stored' /\ Partner(own'[q]) \notin stored'
               /\ pairs'[Key(Partner(own'[q]))] = NoFrame
    <3>1. CASE q # p
      BY <1>9, <2>2, <2>3, <2>7, <3>1 DEF EraseTwin, Go, Return
    <3>2. CASE q = p
      <4>1. pairs[Key(own[p])] = Partner(own[p])
        BY <1>9, <2>1, <2>7, <3>2 DEF EraseTwin, Go, Return
      <4>2. own'[p] = Partner(own[p]) /\ twin'[p] = Partner(own[p]) /\ seq'[p] = seq[p]
        BY <1>9, <2>1, <2>7, <3>2, <4>1 DEF EraseTwin, Go, Return
      <4>3. Partner(own'[p]) = own[p] /\ own'[p] \in Frames /\ own'[p][2] = seq[p]
        BY <2>1, <4>2
      <4>. QED BY <2>1, <2>2, <2>3, <3>2, <4>2, <4>3
    <3>. QED BY <3>1, <3>2
  <2>. QED BY <2>4, <2>5, <2>6, <2>7
<1>10. ASSUME NEW p \in Procs, Unpair(p)
      PROVE  Pairing'
  <2>1. own[p] \in Frames /\ Present(own[p][2]) /\ twin[p] = own[p] /\ ~PairSecond
    BY <1>10 DEF Unpair, PairSecond
  <2>2. pairs' = [pairs EXCEPT ![Key(own[p])] = NoFrame]
    BY <1>10, <2>1 DEF Unpair
  <2>3. ASSUME jPc = "second", joined # 0 PROVE Key(own[p]) # Key(<<1, joined>>)
    <3>1. Live(own[p][2]) /\ Live(joined) /\ own[p][2] # joined /\ <<1, joined>> \in Frames
      BY <1>3, <1>4, <2>1, <2>3 DEF Live
    <3>. QED BY <2>1, <3>1 DEF KeysApart
  <2>4. jPc' = "second" /\ joined' # 0 => pairs'[Key(<<1, joined'>>)] = <<2, joined'>>
    BY <1>10, <2>2, <2>3 DEF Unpair
  <2>5. \A f \in Frames : Present(f[2])' => pairs'[Key(f)] \in {NoFrame, Partner(f)}
    BY <2>1, <2>2
  <2>6. \A k \in Keys : pairs[k] = NoFrame => pairs'[k] = NoFrame
    BY <2>2
  <2>. QED BY <1>10, <2>4, <2>5, <2>6 DEF Unpair, Go, Return
<1>11. ASSUME NEW p \in Routers, RouterTake(p)
      PROVE  Pairing'
  BY <1>11 DEF RouterTake, Go, PairSecond
<1>12. ASSUME NEW p \in Routers, NEW n \in Nodes, (pc[p] = n /\ Put(p, n))
      PROVE  Pairing'
  BY <1>12 DEF Put, PairSecond
<1>13. ASSUME NEW p \in Routers, Refused(p)
      PROVE  Pairing'
  BY <1>13 DEF Refused, Delete, Go, PairSecond
<1>14. ASSUME NEW p \in Routers, RouterFlag(p)
      PROVE  Pairing'
  BY <1>14 DEF RouterFlag, Go, PairSecond
<1>15. ASSUME NEW n \in Nodes, NodeStart(n)
      PROVE  Pairing'
  BY <1>15 DEF NodeStart, Go, PairSecond
<1>16. CASE DetectTwin
  BY <1>16 DEF DetectTwin, Go, PairSecond
<1>17. ASSUME NEW n \in Nodes, NodeDone(n)
      PROVE  Pairing'
  BY <1>17 DEF NodeDone, Lower, Delete, Go, PairSecond
<1>18. CASE RenderBegin
  BY <1>18 DEF RenderBegin, Lower, Delete, Go, PairSecond
<1>19. CASE DetectSecond
  BY <1>19 DEF DetectSecond, Lower, Delete, Go, PairSecond
<1>20. CASE UNCHANGED vars
  BY <1>20 DEF PairSecond
<1>. HIDE DEF TypeOK, Places, Joins, Pairing, vars, repoVars, joinVars, procVars, Procs,
      Nodes, Cameras, Frames, Numbers, NoFrame
<1>. QED BY <1>5, <1>6, <1>7, <1>8, <1>9, <1>10, <1>11, <1>12, <1>13, <1>14, <1>15, <1>16,
      <1>17, <1>18, <1>19, <1>20
  DEF Next, Deletion, Router, RouterPut, Node

\* A pair that a step does not touch.
LEMMA Untouched ==
    ASSUME NEW s \in Numbers, PairState(s), Halves(s),
           \A c \in Cameras : /\ <<c, s>> \in stored' <=> <<c, s>> \in stored
                             /\ pairs'[Key(<<c, s>>)] = pairs[Key(<<c, s>>)],
           \A p \in Procs : pc[p] \in {"twin", "unpair"} /\ own[p][2] = s =>
                            pc'[p] = pc[p] /\ own'[p] = own[p]
    PROVE  PairState(s)'
<1>. USE DEF Cameras, Other
<1>1. (There(s) \/ Gone(s) \/ Parting(s))'
  BY DEF PairState, There, Gone, Parting
<1>2. ASSUME NEW c \in Cameras, pairs'[Key(<<c, s>>)] = NoFrame
      PROVE  /\ <<1, s>> \notin stored' /\ <<2, s>> \notin stored'
             /\ pairs'[Key(<<Other(c), s>>)] # NoFrame =>
                 \E p \in Procs : pc'[p] = "unpair" /\ own'[p] = <<Other(c), s>>
  BY <1>2 DEF Halves
<1>3. ASSUME NEW c \in Cameras, <<c, s>> \notin stored'
      PROVE  \/ <<Other(c), s>> \notin stored'
             \/ \E p \in Procs : pc'[p] = "twin" /\ own'[p] = <<c, s>>
  BY <1>3 DEF Halves
<1>. QED BY <1>1, <1>2, <1>3 DEF PairState, Halves

\* A pair that has just gone.
LEMMA GoneIsState ==
    ASSUME NEW s \in Numbers \ {0},
           \A c \in Cameras : <<c, s>> \notin stored' /\ pairs'[Key(<<c, s>>)] = NoFrame
    PROVE  PairState(s)'
<1>1. 1 \in Cameras /\ 2 \in Cameras /\ \A c \in Cameras : Other(c) \in Cameras
  BY DEF Cameras, Other
<1>2. Gone(s)'
  BY StereoAssumption DEF Gone, NoFrame, Numbers
<1>3. Halves(s)'
  BY <1>1 DEF Halves
<1>. QED BY <1>2, <1>3 DEF PairState

\* A pair that has gone does not come back: what is written under its keys
\* from now on speaks of others.
LEMMA GoneStays ==
    ASSUME TypeOK, Places, Joins, Pairing, NEW s \in Numbers \ {0}, Paired(s), PairState(s),
           ~Present(s), [Next]_vars
    PROVE  PairState(s)'
<1>. USE StereoAssumption DEF Numbers
<1>1. s < joined /\ joined \in Nat /\ s \in Nat
  BY DEF Paired, TypeOK
<1>2. \A c \in Cameras : <<c, s>> \notin stored
  BY DEF Present
<1>3. \A c \in Cameras : pairs[Key(<<c, s>>)] # <<Other(c), s>>
  BY <1>2 DEF PairState, There, Gone, Present, Cameras
<1>4. ~Present(s)'
  BY <1>1, PresentKept
<1>5. /\ \A c \in Cameras : <<c, s>> \notin stored'
      /\ \A k \in Keys : pairs'[k] \in {pairs[k], NoFrame, <<1, joined>>, <<2, joined>>}
  <2>1. CASE \E c \in Cameras : SourceFrame(c)
    <3>1. PICK c \in Cameras : SourceFrame(c)
      BY <2>1
    <3>2. count[c] # s
      BY <1>1 DEF Joins, TypeOK
    <3>. QED BY <1>2, <3>1, <3>2 DEF SourceFrame
  <2>2. CASE PairFirst \/ PairSecond
    BY <1>2, <2>2 DEF PairFirst, PairSecond, TypeOK
  <2>3. CASE Deletion
    BY <1>2, <2>3 DEF Deletion, Erase, EraseUnless, EraseTwin, Unpair, TypeOK
  <2>4. CASE Router \/ Node \/ UNCHANGED vars
    <3>1. UNCHANGED repoVars
      BY <2>4 DEF Router, Node, RouterTake, RouterPut, Put, Refused, RouterFlag, NodeStart,
                  DetectTwin, NodeDone, RenderBegin, DetectSecond, vars
    <3>. QED BY <1>2, <3>1 DEF repoVars
  <2>. QED BY <2>1, <2>2, <2>3, <2>4 DEF Next
<1>6. \A c \in Cameras : pairs'[Key(<<c, s>>)] # <<Other(c), s>>
  <2>. SUFFICES ASSUME NEW c \in Cameras PROVE pairs'[Key(<<c, s>>)] # <<Other(c), s>>
    OBVIOUS
  <2>1. Key(<<c, s>>) \in Keys
    BY KeyIn DEF Frames
  <2>. QED BY <1>1, <1>3, <1>5, <2>1 DEF NoFrame
<1>. QED BY <1>4, <1>5, <1>6 DEF PairState, Gone


\* A pair that is there stays whole, is being taken apart, or is gone.
LEMMA PresentTakenApart ==
    ASSUME KeysApart, KeysApart', TypeOK, Places, Joins, Handing, NoLateFlag, Waiting, Pairing,
           NEW s \in Numbers \ {0}, Present(s), PairState(s), [Next]_vars
    PROVE  PairState(s)'
<1>0. Halves(s) /\ s < joined /\ s \in Nat /\ joined \in Nat
  <2>1. Halves(s)
    BY DEF PairState
  <2>. QED BY <2>1, StereoAssumption DEF Present, Paired, TypeOK, Numbers
<1>a. \A f \in Frames : f[2] \in Numbers
  BY PairOf
<1>. USE StereoAssumption, <1>0 DEF TypeOK, vars, repoVars, joinVars, procVars, Procs,
      Nodes, Cameras, Frames, Numbers, NoFrame
<1>1. ASSUME NEW c \in Cameras, SourceFrame(c)
      PROVE  PairState(s)'
  <2>1. pairs' = pairs /\ s # count[c]
    BY <1>1 DEF SourceFrame, Joins
  <2>2. \A d \in Cameras : <<d, s>> \in stored' <=> <<d, s>> \in stored
    BY <1>1, <2>1 DEF SourceFrame
  <2>. QED BY <1>1, <2>1, <2>2, Untouched DEF SourceFrame
<1>2. CASE PairFirst
  <2>1. stored' = stored /\ s # joined /\ joined \in Numbers
    BY <1>2 DEF PairFirst
  <2>2. \A d \in Cameras : pairs'[Key(<<d, s>>)] = pairs[Key(<<d, s>>)]
    <3>1. ASSUME NEW d \in Cameras
          PROVE  Key(<<d, s>>) # Key(<<1, joined>>)
      <4>1. Live(s)' /\ \A g \in Frames : g[2] = joined => Live(g[2])'
        BY <1>2 DEF PairFirst, Live, Present, Paired, Parting
      <4>2. <<d, s>> \in Frames /\ <<1, joined>> \in Frames /\ <<d, s>> # <<1, joined>>
        BY <2>1
      <4>3. <<d, s>>[2] = s /\ <<1, joined>>[2] = joined
        OBVIOUS
      <4>. QED BY ONLY <4>1, <4>2, <4>3, KeysApart' DEF KeysApart
    <3>. QED BY <1>2, <2>1, <3>1, KeyIn DEF PairFirst
  <2>. QED BY <1>2, <2>1, <2>2, Untouched DEF PairFirst
<1>3. CASE PairSecond
  <2>1. stored' = stored /\ s # joined /\ joined \in Numbers
    BY <1>3 DEF PairSecond, Joins
  <2>2. \A d \in Cameras : pairs'[Key(<<d, s>>)] = pairs[Key(<<d, s>>)]
    <3>1. ASSUME NEW d \in Cameras
          PROVE  Key(<<d, s>>) # Key(<<2, joined>>)
      <4>1. Live(s) /\ Live(joined)
        BY <1>3 DEF PairSecond, Live
      <4>. QED BY <2>1, <4>1 DEF KeysApart
    <3>. QED BY <1>3, <2>1, <3>1, KeyIn DEF PairSecond
  <2>. QED BY <1>3, <2>1, <2>2, Untouched DEF PairSecond
<1>4. ASSUME NEW p \in Procs, Erase(p)
      PROVE  PairState(s)'
  <2>1. pairs' = pairs /\ own' = own
    BY <1>4 DEF Erase, EraseUnless
  <2>2. own[p] \in Frames /\ pc[p] = "delete"
    BY <1>4 DEF Erase, EraseUnless, Places
  <2>3. CASE stored' = stored \/ own[p][2] # s
    <3>1. \A d \in Cameras : <<d, s>> \in stored' <=> <<d, s>> \in stored
      BY <1>4, <2>3 DEF Erase, EraseUnless
    <3>2. \A q \in Procs : pc[q] \in {"twin", "unpair"} => pc'[q] = pc[q]
      BY <1>4, <2>2 DEF Erase, EraseUnless, Go, Return
    <3>. QED BY <2>1, <3>1, <3>2, Untouched
  <2>4. CASE own[p] \in stored /\ stored' = stored \ {own[p]} /\ own[p][2] = s
    <3>1. PICK c \in Cameras : own[p] = <<c, s>>
      BY <2>2, <2>4
    <3>2. \A d \in Cameras : pairs[Key(<<d, s>>)] # NoFrame
      BY <2>4, <3>1 DEF Halves
    <3>3. pc' = [pc EXCEPT ![p] = "twin"]
      BY <1>4, <2>4, <3>1, <3>2 DEF Erase, EraseUnless, Go
    <3>4. pc'[p] = "twin" /\ own'[p] = <<c, s>>
      BY <2>1, <3>1, <3>3
    <3>5. Parting(s)'
      BY <3>4 DEF Parting
    <3>6. <<c, s>> \notin stored' /\ Other(Other(c)) = c /\ Other(c) \in Cameras
      BY <2>4, <3>1 DEF Other
    <3>7. \A d \in Cameras : d = c \/ Other(d) = c
      BY DEF Other
    <3>. QED BY <2>1, <3>2, <3>4, <3>5, <3>6, <3>7 DEF PairState, Halves
  <2>. QED BY <1>4, <2>3, <2>4 DEF Erase, EraseUnless
<1>5. ASSUME NEW p \in Procs, EraseTwin(p)
      PROVE  PairState(s)'
  <2>1. Present(own[p][2]) /\ own[p][2] \in Numbers
    BY <1>5, <1>a, AtWork DEF EraseTwin
  <2>2. /\ own[p] \in Frames /\ pc[p] = "twin" /\ own[p] \notin stored
        /\ twin[p] = Partner(own[p]) /\ twin[p] \in Frames /\ twin[p][2] = own[p][2]
    BY <1>5, PairOf DEF EraseTwin, Places, Pairing
  <2>3. stored' \subseteq stored /\ twin[p] \notin stored' /\ stored \subseteq stored' \cup {twin[p]}
    BY <1>5, <2>2, TwinIsFree DEF EraseTwin
  <2>4. \A q \in Procs : q # p => pc'[q] = pc[q] /\ own'[q] = own[q]
    BY <1>5 DEF EraseTwin, Go, Return
  <2>5. CASE own[p][2] # s
    <3>1. \A d \in Cameras : <<d, s>> \in stored' <=> <<d, s>> \in stored
      BY <2>2, <2>3, <2>5
    <3>2. \A d \in Cameras : pairs'[Key(<<d, s>>)] = pairs[Key(<<d, s>>)]
      <4>1. \A d \in Cameras : Key(<<d, s>>) # Key(own[p])
        BY <2>1, <2>2, <2>5 DEF KeysApart, Live
      <4>. QED BY <1>5, <4>1 DEF EraseTwin
    <3>. QED BY <2>4, <2>5, <3>1, <3>2, Untouched
  <2>6. CASE own[p][2] = s
    <3>1. PICK c \in Cameras : own[p] = <<c, s>>
      BY <2>2, <2>6
    <3>2. twin[p] = <<Other(c), s>> /\ Other(c) \in Cameras /\ Other(Other(c)) = c /\ Other(c) # c
      BY <2>2, <3>1 DEF Partner, Other
    <3>3. \A d \in Cameras : d = c \/ d = Other(c)
      BY DEF Other
    <3>4. \A d \in Cameras : <<d, s>> \notin stored'
      BY <2>2, <2>3, <3>1, <3>2, <3>3
    <3>5. Key(<<c, s>>) # Key(<<Other(c), s>>)
      BY <3>2 DEF KeysApart, Live
    <3>6. /\ pairs'[Key(<<c, s>>)] = NoFrame
          /\ pairs'[Key(<<Other(c), s>>)] = pairs[Key(<<Other(c), s>>)]
      BY <1>5, <3>1, <3>5, KeyIn DEF EraseTwin
    <3>7. CASE pairs'[Key(<<Other(c), s>>)] = NoFrame
      <4>1. \A d \in Cameras : pairs'[Key(<<d, s>>)] = NoFrame
        BY <3>3, <3>6, <3>7
      <4>. QED BY <3>4, <4>1, GoneIsState
    <3>8. ASSUME NEW q \in Procs, pc'[q] = "unpair", own'[q] = <<Other(c), s>>
          PROVE  PairState(s)'
      <4>1. Parting(s)'
        BY <3>8 DEF Parting
      <4>. QED BY <3>2, <3>3, <3>4, <3>6, <3>8, <4>1 DEF PairState, Halves
    <3>9. CASE pairs[Key(<<Other(c), s>>)] # NoFrame
      <4>1. CASE pairs[Key(<<c, s>>)] = NoFrame
        <5>1. PICK q \in Procs : pc[q] = "unpair" /\ own[q] = <<Other(c), s>>
          BY <3>9, <4>1 DEF Halves
        <5>. QED BY <2>2, <2>4, <3>8, <5>1
      <4>2. CASE pairs[Key(<<c, s>>)] # NoFrame
        <5>1. pc'[p] = "unpair" /\ own'[p] = <<Other(c), s>>
          BY <1>5, <3>1, <3>2, <4>2 DEF EraseTwin, Go
        <5>. QED BY <3>8, <5>1
      <4>. QED BY <4>1, <4>2
    <3>. QED BY <3>6, <3>7, <3>9
  <2>. QED BY <2>5, <2>6
<1>6. ASSUME NEW p \in Procs, Unpair(p)
      PROVE  PairState(s)'
  <2>1. stored' = stored /\ own' = own /\ Present(own[p][2]) /\ own[p][2] \in Numbers
    BY <1>6, <1>a, AtWork DEF Unpair
  <2>2. /\ own[p] \in Frames /\ pc[p] = "unpair" /\ twin[p] = own[p] /\ own[p] \notin stored
        /\ Partner(own[p]) \notin stored /\ pairs[Key(Partner(own[p]))] = NoFrame
    BY <1>6 DEF Unpair, Pairing
  <2>3. CASE own[p][2] # s
    <3>1. \A d \in Cameras : pairs'[Key(<<d, s>>)] = pairs[Key(<<d, s>>)]
      <4>1. \A d \in Cameras : Key(<<d, s>>) # Key(own[p])
        BY <2>1, <2>2, <2>3 DEF KeysApart, Live
      <4>. QED BY <1>6, <2>2, <4>1, KeyIn DEF Unpair
    <3>2. \A q \in Procs : pc[q] \in {"twin", "unpair"} /\ own[q][2] = s => pc'[q] = pc[q]
      BY <1>6, <2>3 DEF Unpair, Go, Return
    <3>. QED BY <2>1, <3>1, <3>2, Untouched
  <2>4. CASE own[p][2] = s
    <3>1. PICK c \in Cameras : own[p] = <<c, s>>
      BY <2>2, <2>4
    <3>2. Partner(own[p]) = <<Other(c), s>> /\ \A d \in Cameras : d = c \/ d = Other(c)
      BY <3>1 DEF Partner, Other
    <3>3. pairs'[Key(<<c, s>>)] = NoFrame /\ pairs'[Key(<<Other(c), s>>)] = NoFrame
      <4>1. pairs' = [pairs EXCEPT ![Key(own[p])] = NoFrame]
        BY <1>6, <2>2 DEF Unpair
      <4>2. Other(c) \in Cameras
        BY DEF Other
      <4>3. Key(<<c, s>>) \in Keys /\ Key(<<Other(c), s>>) \in Keys
        BY <4>2, KeyIn
      <4>4. pairs[Key(<<Other(c), s>>)] = NoFrame
        BY <2>2, <3>2
      <4>. QED BY <3>1, <4>1, <4>3, <4>4
    <3>4. \A d \in Cameras : <<d, s>> \notin stored' /\ pairs'[Key(<<d, s>>)] = NoFrame
      BY <2>1, <2>2, <3>1, <3>2, <3>3
    <3>. QED BY <3>4, GoneIsState
  <2>. QED BY <2>3, <2>4
<1>7. ASSUME NEW p \in Routers, RouterTake(p)
      PROVE  PairState(s)'
  <2>1. stored' = stored /\ pairs' = pairs
    BY <1>7 DEF RouterTake, Go
  <2>2. \A q \in Procs : pc[q] \in {"twin", "unpair"} => pc'[q] = pc[q] /\ own'[q] = own[q]
    BY <1>7 DEF RouterTake, Go
  <2>. QED BY <2>1, <2>2, Untouched
<1>8. ASSUME NEW p \in Routers, NEW n \in Nodes, (pc[p] = n /\ Put(p, n))
      PROVE  PairState(s)'
  <2>1. stored' = stored /\ pairs' = pairs
    BY <1>8 DEF Put
  <2>2. \A q \in Procs : pc[q] \in {"twin", "unpair"} => pc'[q] = pc[q] /\ own'[q] = own[q]
    BY <1>8 DEF Put
  <2>. QED BY <2>1, <2>2, Untouched
<1>9. ASSUME NEW p \in Routers, Refused(p)
      PROVE  PairState(s)'
  <2>1. stored' = stored /\ pairs' = pairs
    BY <1>9 DEF Refused, Delete, Go
  <2>2. \A q \in Procs : pc[q] \in {"twin", "unpair"} => pc'[q] = pc[q] /\ own'[q] = own[q]
    BY <1>9 DEF Refused, Delete, Go
  <2>. QED BY <2>1, <2>2, Untouched
<1>10. ASSUME NEW p \in Routers, RouterFlag(p)
      PROVE  PairState(s)'
  <2>1. stored' = stored /\ pairs' = pairs
    BY <1>10 DEF RouterFlag, Go
  <2>2. \A q \in Procs : pc[q] \in {"twin", "unpair"} => pc'[q] = pc[q] /\ own'[q] = own[q]
    BY <1>10 DEF RouterFlag, Go
  <2>. QED BY <2>1, <2>2, Untouched
<1>11. ASSUME NEW n \in Nodes, NodeStart(n)
      PROVE  PairState(s)'
  <2>1. stored' = stored /\ pairs' = pairs
    BY <1>11 DEF NodeStart, Go
  <2>2. \A q \in Procs : pc[q] \in {"twin", "unpair"} => pc'[q] = pc[q] /\ own'[q] = own[q]
    BY <1>11 DEF NodeStart, Go
  <2>. QED BY <2>1, <2>2, Untouched
<1>12. CASE DetectTwin
  <2>1. stored' = stored /\ pairs' = pairs
    BY <1>12 DEF DetectTwin, Go
  <2>2. \A q \in Procs : pc[q] \in {"twin", "unpair"} => pc'[q] = pc[q] /\ own'[q] = own[q]
    BY <1>12 DEF DetectTwin, Go
  <2>. QED BY <2>1, <2>2, Untouched
<1>13. ASSUME NEW n \in Nodes, NodeDone(n)
      PROVE  PairState(s)'
  <2>1. stored' = stored /\ pairs' = pairs
    BY <1>13 DEF NodeDone, Lower, Delete, Go
  <2>2. \A q \in Procs : pc[q] \in {"twin", "unpair"} => pc'[q] = pc[q] /\ own'[q] = own[q]
    BY <1>13 DEF NodeDone, Lower, Delete, Go
  <2>. QED BY <2>1, <2>2, Untouched
<1>14. CASE RenderBegin
  <2>1. stored' = stored /\ pairs' = pairs
    BY <1>14 DEF RenderBegin, Lower, Delete, Go
  <2>2. \A q \in Procs : pc[q] \in {"twin", "unpair"} => pc'[q] = pc[q] /\ own'[q] = own[q]
    BY <1>14 DEF RenderBegin, Lower, Delete, Go
  <2>. QED BY <2>1, <2>2, Untouched
<1>15. CASE DetectSecond
  <2>1. stored' = stored /\ pairs' = pairs
    BY <1>15 DEF DetectSecond, Lower, Delete, Go
  <2>2. \A q \in Procs : pc[q] \in {"twin", "unpair"} => pc'[q] = pc[q] /\ own'[q] = own[q]
    BY <1>15 DEF DetectSecond, Lower, Delete, Go
  <2>. QED BY <2>1, <2>2, Untouched
<1>16. CASE UNCHANGED vars
  <2>1. stored' = stored /\ pairs' = pairs /\ pc' = pc /\ own' = own
    BY <1>16
  <2>. QED BY <2>1, Untouched
<1>. HIDE DEF TypeOK, vars, repoVars, joinVars, procVars, Procs, Nodes, Cameras,
      Frames, Numbers, NoFrame
<1>. QED BY <1>1, <1>2, <1>3, <1>4, <1>5, <1>6, <1>7, <1>8, <1>9, <1>10, <1>11, <1>12,
      <1>13, <1>14, <1>15, <1>16
  DEF Next, Deletion, Router, RouterPut, Node

\* A pair that has been joined is there, is being taken apart, or is gone.
LEMMA TakeapartKept ==
    ASSUME KeysApart, KeysApart', TypeOK, Places, Joins, Handing, NoLateFlag, Waiting, Pairing,
           Pairing', Takeapart, NEW s \in Numbers \ {0}, Paired(s)', [Next]_vars
    PROVE  PairState(s)'
<1>1. CASE Paired(s)
  <2>1. PairState(s)
    BY <1>1 DEF Takeapart
  <2>. QED BY <1>1, <2>1, PresentTakenApart, GoneStays
<1>2. CASE ~Paired(s)
  <2>1. joined \in Nat /\ s \in Nat /\ s # 0
    BY StereoAssumption DEF TypeOK, Numbers
  <2>2. PairSecond /\ s = joined
    <3>1. joined' # joined
      BY <1>2 DEF Paired
    <3>2. PairSecond
      BY <3>1, JoinKept DEF PairFirst
    <3>3. joined' = joined + 1
      BY <3>2 DEF PairSecond
    <3>. QED BY <1>2, <2>1, <3>2, <3>3 DEF Paired
  <2>3. /\ stored' = stored /\ pairs' = [pairs EXCEPT ![Key(<<2, s>>)] = <<1, s>>]
        /\ jPc = "second"
    BY <2>2 DEF PairSecond
  <2>4. \A d \in Cameras : <<d, s>> \in stored'
    BY <2>1, <2>2, <2>3, StereoAssumption DEF Joins, Waiting, TypeOK, Cameras
  <2>5. pairs[Key(<<1, s>>)] = <<2, s>>
    BY <2>1, <2>2, <2>3 DEF Pairing
  <2>6. <<1, s>> \in Frames /\ <<2, s>> \in Frames
    BY DEF Frames, Cameras
  <2>7. Key(<<1, s>>) # Key(<<2, s>>)
    <3>1. Live(s)
      BY <2>1, <2>2, <2>3 DEF Live
    <3>. QED BY <2>6, <3>1 DEF KeysApart
  <2>8. pairs'[Key(<<1, s>>)] = <<2, s>> /\ pairs'[Key(<<2, s>>)] = <<1, s>>
    BY <2>3, <2>5, <2>6, <2>7, KeyIn DEF TypeOK
  <2>. QED BY <2>4, <2>8 DEF PairState, Halves, There, Other, Cameras, NoFrame
<1>. QED BY <1>1, <1>2

\* Whoever does not delete a pair leaves it to somebody who will.
LEMMA NoOrphanKept ==
    ASSUME TypeOK, Places, Joins, Handing, NoLateFlag, Pairing, Takeapart,
           \A u \in Numbers \ {0} : Taken(u) /\ <<1, u>> \in stored => Owed(u),
           NEW s \in Numbers \ {0}, Taken(s)', <<1, s>> \in stored', [Next]_vars
    PROVE  Owed(s)'
<1>. USE StereoAssumption DEF TypeOK, vars, repoVars, joinVars, procVars, Procs,
      Nodes, Cameras, Frames, Numbers, NoFrame
<1>1. ASSUME NEW c \in Cameras, SourceFrame(c)
      PROVE  Owed(s)'
  <2>1. s < taken
    BY <1>1 DEF SourceFrame, Taken
  <2>2. <<1, s>> \in stored
    BY <1>1, <2>1 DEF SourceFrame, Joins
  <2>3. Owed(s)
    BY <1>1, <2>2 DEF SourceFrame, Taken
  <2>. QED BY <1>1, <2>3 DEF SourceFrame, Owed, Responsible
<1>2. CASE PairFirst
  <2>1. <<1, s>> \in stored /\ Owed(s)
    BY <1>2 DEF PairFirst, Taken
  <2>. QED BY <1>2, <2>1 DEF PairFirst, Owed, Responsible
<1>3. CASE PairSecond
  <2>1. <<1, s>> \in stored /\ Owed(s)
    BY <1>3 DEF PairSecond, Taken
  <2>. QED BY <1>3, <2>1 DEF PairSecond, Owed, Responsible
<1>4. ASSUME NEW p \in Procs, Erase(p)
      PROVE  Owed(s)'
  <2>1. <<1, s>> \in stored /\ Owed(s) /\ up' = up /\ seq' = seq
    BY <1>4 DEF Erase, EraseUnless, Go, Return, Taken
  <2>2. \A q \in Procs : q # p => pc'[q] = pc[q] /\ own'[q] = own[q]
    BY <1>4 DEF Erase, EraseUnless, Go, Return
  <2>3. CASE \E n \in Nodes : s \in up[n]
    BY <2>1, <2>3 DEF Owed
  <2>4. ASSUME NEW q \in Procs, q # p, Responsible(q, s)
        PROVE  Owed(s)'
    BY <2>1, <2>2, <2>4 DEF Owed, Responsible
  <2>5. CASE Responsible(p, s)
    <3>1. own[p] \in Frames /\ own[p][2] = s /\ pc[p] = "delete" /\ own' = own
      BY <1>4, <2>5 DEF Erase, EraseUnless, Places, Responsible
    <3>2. CASE own[p] = <<1, s>>
      BY <1>4, <2>1, <2>3, <3>1, <3>2 DEF Erase, EraseUnless, InUse
    <3>3. CASE own[p] = <<2, s>>
      <4>1. Paired(s) /\ Present(s)
        BY <1>4, <2>1 DEF Erase, EraseUnless, Taken, Paired, Present
      <4>2. Halves(s)
        BY <4>1 DEF Takeapart, PairState
      <4>3. CASE own[p] \in stored
        <5>1. pairs[Key(own[p])] # NoFrame /\ ~InUse(own[p], Nodes)
          BY <2>1, <3>3, <4>2 DEF Halves, InUse
        <5>2. pc'[p] = "twin"
          BY <1>4, <4>3, <5>1 DEF Erase, EraseUnless, Go
        <5>. QED BY <3>1, <5>2 DEF Owed, Responsible
      <4>4. CASE own[p] \notin stored
        <5>1. PICK q \in Procs : pc[q] = "twin" /\ own[q] = <<2, s>>
          BY <2>1, <3>3, <4>2, <4>4 DEF Halves, Other
        <5>2. Responsible(q, s) /\ q # p
          BY <3>1, <5>1 DEF Responsible
        <5>. QED BY <2>4, <5>2
      <4>. QED BY <4>3, <4>4
    <3>. QED BY <3>1, <3>2, <3>3, PairOf
  <2>. QED BY <2>1, <2>3, <2>4, <2>5 DEF Owed
<1>5. ASSUME NEW p \in Procs, EraseTwin(p)
      PROVE  Owed(s)'
  <2>1. <<1, s>> \in stored /\ Owed(s) /\ up' = up /\ seq' = seq
    BY <1>5 DEF EraseTwin, Go, Return, Taken
  <2>2. \A q \in Procs : q # p => pc'[q] = pc[q] /\ own'[q] = own[q]
    BY <1>5 DEF EraseTwin, Go, Return
  <2>3. CASE \E n \in Nodes : s \in up[n]
    BY <2>1, <2>3 DEF Owed
  <2>4. ASSUME NEW q \in Procs, q # p, Responsible(q, s)
        PROVE  Owed(s)'
    BY <2>1, <2>2, <2>4 DEF Owed, Responsible
  <2>5. CASE Responsible(p, s)
    <3>1. own[p] \in Frames /\ own[p][2] = s /\ own[p] \notin stored /\ twin[p] = Partner(own[p])
      BY <1>5, <2>5 DEF EraseTwin, Places, Pairing, Responsible
    <3>2. twin[p] \notin stored'
      BY <1>5, TwinIsFree DEF EraseTwin
    <3>. QED BY <2>1, <3>1, <3>2, PairOf
  <2>. QED BY <2>1, <2>3, <2>4, <2>5 DEF Owed
<1>6. ASSUME NEW p \in Procs, Unpair(p)
      PROVE  Owed(s)'
  <2>1. <<1, s>> \in stored /\ Owed(s) /\ up' = up /\ seq' = seq
    BY <1>6 DEF Unpair, Go, Return, Taken
  <2>2. \A q \in Procs : q # p => pc'[q] = pc[q] /\ own'[q] = own[q]
    BY <1>6 DEF Unpair, Go, Return
  <2>3. CASE \E n \in Nodes : s \in up[n]
    BY <2>1, <2>3 DEF Owed
  <2>4. ASSUME NEW q \in Procs, q # p, Responsible(q, s)
        PROVE  Owed(s)'
    BY <2>1, <2>2, <2>4 DEF Owed, Responsible
  <2>5. CASE Responsible(p, s)
    <3>1. own[p] \in Frames /\ own[p][2] = s /\ own[p] \notin stored /\ Partner(own[p]) \notin stored
      BY <1>6, <2>5 DEF Unpair, Places, Pairing, Responsible
    <3>. QED BY <2>1, <3>1, PairOf
  <2>. QED BY <2>1, <2>3, <2>4, <2>5 DEF Owed
<1>7. ASSUME NEW p \in Routers, RouterTake(p)
      PROVE  Owed(s)'
  <2>1. <<1, s>> \in stored /\ up' = up /\ own' = own /\ pc[p] = "idle"
    BY <1>7 DEF RouterTake
  <2>2. CASE Taken(s)
    <3>1. Owed(s)
      BY <2>1, <2>2 DEF Taken
    <3>2. \A q \in Procs : q # p => pc'[q] = pc[q] /\ seq'[q] = seq[q]
      BY <1>7 DEF RouterTake, Go
    <3>. QED BY <2>1, <3>1, <3>2 DEF Owed, Responsible
  <2>3. CASE ~Taken(s)
    <3>1. s = taken
      BY <1>7, <2>3 DEF RouterTake, Taken
    <3>2. pc'[p] = "detector" /\ seq'[p] = s
      BY <1>7, <2>1, <3>1 DEF RouterTake, Go
    <3>. QED BY <3>2 DEF Owed, Responsible
  <2>. QED BY <2>2, <2>3
<1>8. ASSUME NEW p \in Routers, NEW n \in Nodes, (pc[p] = n /\ Put(p, n))
      PROVE  Owed(s)'
  <2>1. <<1, s>> \in stored /\ Owed(s)
    BY <1>8 DEF Put, Taken
  <2>. QED BY <1>8, <2>1 DEF Put, Owed, Responsible
<1>9. ASSUME NEW p \in Routers, Refused(p)
      PROVE  Owed(s)'
  <2>1. <<1, s>> \in stored /\ Owed(s)
    BY <1>9 DEF Refused, Delete, Go, Taken
  <2>. QED BY <1>9, <2>1 DEF Refused, Delete, Go, Owed, Responsible
<1>10. ASSUME NEW p \in Routers, RouterFlag(p)
      PROVE  Owed(s)'
  <2>1. <<1, s>> \in stored /\ Owed(s)
    BY <1>10 DEF RouterFlag, Go, Taken
  <2>. QED BY <1>10, <2>1 DEF RouterFlag, Go, Owed, Responsible
<1>11. ASSUME NEW n \in Nodes, NodeStart(n)
      PROVE  Owed(s)'
  <2>1. <<1, s>> \in stored /\ Owed(s)
    BY <1>11 DEF NodeStart, Go, Taken
  <2>. QED BY <1>11, <2>1 DEF NodeStart, Go, Owed, Responsible
<1>12. CASE DetectTwin
  <2>1. <<1, s>> \in stored /\ Owed(s)
    BY <1>12 DEF DetectTwin, Go, Taken
  <2>. QED BY <1>12, <2>1 DEF DetectTwin, Go, Owed, Responsible
<1>13. ASSUME NEW n \in Nodes, NodeDone(n)
      PROVE  Owed(s)'
  <2>1. <<1, s>> \in stored /\ Owed(s)
    BY <1>13 DEF NodeDone, Lower, Delete, Go, Taken
  <2>. QED BY <1>13, <2>1 DEF NodeDone, Lower, Delete, Go, Owed, Responsible
<1>14. CASE RenderBegin
  <2>1. <<1, s>> \in stored /\ Owed(s)
    BY <1>14 DEF RenderBegin, Lower, Delete, Go, Taken
  <2>. QED BY <1>14, <2>1 DEF RenderBegin, Lower, Delete, Go, Owed, Responsible
<1>15. CASE DetectSecond
  <2>1. <<1, s>> \in stored /\ Owed(s)
    BY <1>15 DEF DetectSecond, Lower, Delete, Go, Taken
  <2>. QED BY <1>15, <2>1 DEF DetectSecond, Lower, Delete, Go, Owed, Responsible
<1>16. CASE UNCHANGED vars
  BY <1>16 DEF Taken, Owed, Responsible
<1>. HIDE DEF TypeOK, vars, repoVars, joinVars, procVars, Procs, Nodes, Cameras,
      Frames, Numbers, NoFrame
<1>. QED BY <1>1, <1>2, <1>3, <1>4, <1>5, <1>6, <1>7, <1>8, <1>9, <1>10, <1>11, <1>12,
      <1>13, <1>14, <1>15, <1>16
  DEF Next, Deletion, Router, RouterPut, Node

-----------------------------------------------------------------------------
(* Theorems.                                                               *)

\* No frame is made, no node at work.
LEMMA InitIInv == Init => IInv
<1>. SUFFICES ASSUME Init PROVE IInv
  OBVIOUS
<1>. USE StereoAssumption DEF Init, Procs, Nodes, Cameras, Numbers, NoFrame, Frames
<1>1. TypeOK /\ Places /\ Joins
  BY DEF TypeOK, Places, Joins
<1>2. Handing /\ NoLateFlag
  BY DEF Handing, Touches, NoLateFlag, AtSecond
<1>3. Waiting
  BY DEF Waiting
<1>4. \A s \in Numbers : ~Paired(s) /\ ~Taken(s)
  BY DEF Paired, Taken
<1>5. Takeapart /\ NoOrphanPair
  BY <1>4 DEF Takeapart, NoOrphanPair
<1>6. \A s \in Numbers : ~Present(s) /\ ~Live(s)
  BY <1>4 DEF Present, Live
<1>7. \A f \in Frames : f[2] \in Numbers
  BY PairOf
<1>8. Pairing /\ KeysApart
  BY <1>6, <1>7 DEF Pairing, KeysApart
<1>. QED BY <1>1, <1>2, <1>3, <1>5, <1>8 DEF IInv, PairInv

\* The inductive invariant: who is where, who may still touch a number, what
\* stereoFrames says, and how far each pair has been taken apart and by whom.
THEOREM StereoInvariance == Spec => []IInv
<1>1. IInv /\ [Next]_vars => IInv'
  <2>. SUFFICES ASSUME IInv, [Next]_vars PROVE IInv'
    OBVIOUS
  <2>. USE DEF IInv
  <2>1. TypeOK' /\ Places' /\ Joins'
    BY TypesKept
  <2>2. Handing'
    BY HandingKept
  <2>3. ASSUME apart' PROVE PairInv'
    <3>. USE <2>3 DEF PairInv
    <3>1. apart
      BY ApartBefore
    <3>2. NoLateFlag' /\ Waiting' /\ KeysApart'
      BY <3>1, NoLateFlagKept, WaitingKept, KeysApartKept
    <3>3. Pairing'
      BY <3>1, <3>2, PairingKept
    <3>4. Takeapart'
      BY <3>1, <3>2, <3>3, TakeapartKept DEF Takeapart
    <3>5. \A u \in Numbers \ {0} : Taken(u) /\ <<1, u>> \in stored => Owed(u)
      BY <3>1 DEF NoOrphanPair, Owed
    <3>6. \A s \in Numbers \ {0} : Taken(s)' /\ <<1, s>> \in stored' => Owed(s)'
      BY <3>1, <3>5, NoOrphanKept
    <3>7. NoOrphanPair'
      BY <3>6 DEF NoOrphanPair, Owed
    <3>. QED BY <3>2, <3>3, <3>4, <3>7 DEF PairInv
  <2>. QED BY <2>1, <2>2, <2>3
<1>. QED BY InitIInv, <1>1, PTL DEF Spec

\* Types; no router is ahead of the join.
THEOREM StereoTypes == Spec => []TypeOK
<1>1. IInv => TypeOK
  BY DEF IInv
<1>. QED BY <1>1, StereoInvariance, PTL

\* Twins leave together, whoever deletes them and from which side.
THEOREM TwinsTogether == Spec => []TwinsLeaveTogether
<1>1. IInv => TwinsLeaveTogether
  BY DEF IInv, PairInv, Takeapart, PairState, TwinsLeaveTogether
<1>. QED BY <1>1, StereoInvariance, PTL

\* A routed pair is never forgotten with all its flags down.
THEOREM NoPairOrphaned == Spec => []NoOrphanPair
<1>1. IInv => NoOrphanPair
  BY DEF IInv, PairInv, NoOrphanPair
<1>. QED BY <1>1, StereoInvariance, PTL

\* A frame marked for the renderer is erased by the detector's deletion of its
\* twin, or not at all.
THEOREM RenderLosses == Spec => RenderLossByTwin
<1>1. ASSUME IInv, [Next]_vars, apart, NEW s \in up["renderer"],
             <<1, s>> \in stored \ stored'
      PROVE  pc["detector"] = "twin" /\ own["detector"] = <<2, s>>
  <2>. USE <1>1 DEF IInv, PairInv
  <2>1. CASE \E p \in Procs : Erase(p)
    BY <2>1 DEF Erase, EraseUnless, InUse, Nodes, Places
  <2>2. ASSUME NEW p \in Procs, EraseTwin(p)
        PROVE  pc["detector"] = "twin" /\ own["detector"] = <<2, s>>
    <3>1. pc[p] = "twin" /\ own[p] \in Frames /\ twin[p] = Partner(own[p])
      BY <2>2 DEF EraseTwin, Places, Pairing
    <3>2. twin[p] = <<1, s>>
      BY <2>2 DEF EraseTwin
    <3>3. own[p] = <<2, s>>
      BY <3>1, <3>2, PartnerOfFirst
    <3>. QED BY <3>1, <3>3 DEF Places
  <2>3. stored' = stored \/ stored \subseteq stored' \/ \E p \in Procs : Erase(p) \/ EraseTwin(p)
    BY DEF Next, Deletion, Router, Node, SourceFrame, PairFirst, PairSecond, Unpair, RouterTake,
           RouterPut, Put, Refused, RouterFlag, NodeStart, DetectTwin, NodeDone, RenderBegin,
           DetectSecond, vars, repoVars
  <2>. QED BY <2>1, <2>2, <2>3
<1>2. IInv /\ [Next]_vars =>
        [apart => \A s \in up["renderer"] : <<1, s>> \in stored \ stored' =>
            pc["detector"] = "twin" /\ own["detector"] = <<2, s>>]_vars
  BY <1>1
<1>. QED BY <1>2, StereoInvariance, PTL DEF Spec, RenderLossByTwin

-----------------------------------------------------------------------------
(* Each camera's half of the repository implements the FrameStore.         *)

\* Whoever is at work has a number that was given.
LEMMA WorkedOn ==
    ASSUME TypeOK, Places, Joins, NEW p \in Procs, pc[p] # "idle"
    PROVE  seq[p] \in 0 .. count[1] - 1
<1>1. seq[p] >= 1 /\ seq[p] < taken /\ seq[p] \in Nat
  BY DEF Places, TypeOK, Numbers
<1>2. /\ taken \in Nat /\ taken <= joined /\ joined \in Nat /\ joined <= count[1]
      /\ count[1] \in Nat
  BY StereoAssumption DEF TypeOK, Joins, Cameras
<1>. QED BY <1>1, <1>2

\* new_frame is an Insert in its camera's half and nothing in the other's.
LEMMA SourceInserts ==
    ASSUME TypeOK, NEW c \in Cameras, SourceFrame(c)
    PROVE  /\ c = 1 => First!Insert /\ UNCHANGED Second!vars
           /\ c = 2 => Second!Insert /\ UNCHANGED First!vars
<1>1. /\ stored' = stored \cup {<<c, count[c]>>} /\ UNCHANGED up
      /\ count' = [count EXCEPT ![c] = @ + 1]
  BY DEF SourceFrame
<1>2. count[c] \in Numbers
  BY StereoAssumption DEF SourceFrame, TypeOK, Numbers
<1>3. Stored(c)' = Stored(c) \cup {count[c]} /\ count'[c] = count[c] + 1
  BY <1>1, <1>2 DEF Stored, TypeOK
<1>4. \A d \in Cameras : d # c => Stored(d)' = Stored(d) /\ count'[d] = count[d]
  BY <1>1 DEF Stored, TypeOK
<1>. QED BY <1>1, <1>3, <1>4 DEF Cameras, First!Insert, Second!Insert, First!vars, Second!vars

\* A frame that leaves is erased from its camera's half; one of the first
\* camera's has neither of the flags that pin it.
LEMMA LeavingErases ==
    ASSUME NEW f \in Frames, stored' \in {stored, stored \ {f}}, UNCHANGED <<up, count>>,
           f \in stored /\ f \notin stored' => ~InUse(f, {"detector", "tracker"})
    PROVE  /\ First!Erase \/ UNCHANGED First!vars
           /\ Second!Erase \/ UNCHANGED Second!vars
<1>1. /\ UNCHANGED up
      /\ \A c \in Cameras : count'[c] = count[c]
  OBVIOUS
<1>2. CASE f \notin stored \/ f \in stored'
  <2>1. stored' = stored
    BY <1>2
  <2>. QED BY <1>1, <2>1 DEF Stored, Cameras, First!vars, Second!vars
<1>3. CASE f \in stored /\ f \notin stored'
  <2>1. f[2] \in Numbers /\ f = <<f[1], f[2]>> /\ f[1] \in {1, 2}
    BY DEF Frames, Cameras
  <2>2. stored' = stored \ {f}
    BY <1>3
  <2>3. CASE f[1] = 1
    <3>1. Stored(1)' = Stored(1) \ {f[2]} /\ f[2] \in Stored(1) /\ Stored(2)' = Stored(2)
      BY <1>3, <2>1, <2>2, <2>3 DEF Stored
    <3>2. f[2] \notin up["detector"] \cup up["tracker"]
      BY <1>3, <2>3 DEF InUse
    <3>. QED BY <1>1, <3>1, <3>2 DEF Cameras, First!Erase, Second!vars
  <2>4. CASE f[1] = 2
    <3>1. Stored(2)' = Stored(2) \ {f[2]} /\ f[2] \in Stored(2) /\ Stored(1)' = Stored(1)
      BY <1>3, <2>1, <2>2, <2>4 DEF Stored
    <3>. QED BY <1>1, <3>1 DEF Cameras, First!vars, Second!Erase
  <2>. QED BY <2>1, <2>3, <2>4
<1>. QED BY <1>2, <1>3

\* A flag that is lowered is an Unpin, or nothing.
LEMMA LoweringUnpins ==
    ASSUME TypeOK, NEW n \in Nodes, Lower(n), UNCHANGED <<stored, count>>
    PROVE  /\ First!Unpin \/ UNCHANGED First!vars
           /\ UNCHANGED Second!vars
<1>. DEFINE pins == up["detector"] \cup up["tracker"]
<1>1. up' = [up EXCEPT ![n] = @ \ {seq[n]}] /\ up \in [Nodes -> SUBSET Numbers]
  BY DEF Lower, TypeOK
<1>2. pins' = pins \/ \E s \in pins : pins' = pins \ {s}
  BY <1>1 DEF Nodes
<1>3. \A c \in Cameras : Stored(c)' = Stored(c) /\ count'[c] = count[c]
  BY DEF Stored
<1>. QED BY <1>2, <1>3 DEF Cameras, First!Unpin, First!vars, Second!vars

\* A router that raises a flag pins its frame, or has the renderer do so, whom
\* the deletion of a twin does not ask.
LEMMA RaisingPins ==
    ASSUME TypeOK, Places, Joins, NEW p \in Routers, RouterFlag(p)
    PROVE  /\ First!Pin \/ UNCHANGED First!vars
           /\ UNCHANGED Second!vars
<1>. DEFINE pins == up["detector"] \cup up["tracker"]
<1>1. seq[p] \in 0 .. count[1] - 1 /\ ret[p] \in Nodes
  BY WorkedOn DEF RouterFlag, Procs, Places
<1>2. /\ up' = [up EXCEPT ![ret[p]] = @ \cup {seq[p]}] /\ up \in [Nodes -> SUBSET Numbers]
      /\ UNCHANGED <<stored, count>>
  BY DEF RouterFlag, TypeOK, repoVars, joinVars
<1>3. pins' = pins \/ pins' = pins \cup {seq[p]}
  BY <1>1, <1>2 DEF Nodes
<1>4. \A c \in Cameras : Stored(c)' = Stored(c) /\ count'[c] = count[c]
  BY <1>2 DEF Stored
<1>. QED BY <1>1, <1>3, <1>4 DEF Cameras, First!Pin, First!vars, Second!vars

\* Frames leave two at a time, from either side and by any of the deleters; all
\* the same each camera's half of the repository is a FrameStore: numbers are
\* given in order, what detector or tracker have flagged stays, and what has
\* left does not come back (new_frame, delete_frame and the flags).
THEOREM HalvesImplementStore == Spec => HalvesSpec
<1>1. Init => First!Init /\ Second!Init
  BY DEF Init, First!Init, Second!Init, Stored, Cameras, Nodes
<1>2. ASSUME IInv, [Next]_vars
      PROVE  (First!Next \/ UNCHANGED First!vars) /\ (Second!Next \/ UNCHANGED Second!vars)
  <2>. USE <1>2 DEF IInv, First!Next, Second!Next
  <2>1. ASSUME UNCHANGED <<stored, count, up>>
        PROVE  UNCHANGED First!vars /\ UNCHANGED Second!vars
    BY <2>1 DEF First!vars, Second!vars, Stored
  <2>2. ASSUME NEW c \in Cameras, SourceFrame(c)
        PROVE  (First!Next \/ UNCHANGED First!vars) /\ (Second!Next \/ UNCHANGED Second!vars)
    BY <2>2, SourceInserts DEF Cameras
  <2>3. ASSUME NEW p \in Procs, Erase(p)
        PROVE  (First!Next \/ UNCHANGED First!vars) /\ (Second!Next \/ UNCHANGED Second!vars)
    <3>1. /\ own[p] \in Frames /\ stored' \in {stored, stored \ {own[p]}} /\ UNCHANGED <<up, count>>
          /\ stored' # stored => ~InUse(own[p], Nodes)
      BY <2>3 DEF Erase, EraseUnless, Places, joinVars
    <3>2. own[p] \in stored /\ own[p] \notin stored' => ~InUse(own[p], {"detector", "tracker"})
      BY <3>1 DEF InUse, Nodes
    <3>. QED BY <3>1, <3>2, LeavingErases
  <2>4. ASSUME NEW p \in Procs, EraseTwin(p)
        PROVE  (First!Next \/ UNCHANGED First!vars) /\ (Second!Next \/ UNCHANGED Second!vars)
    <3>1. /\ stored' = IF InUse(twin[p], {"detector", "tracker"}) THEN stored
                       ELSE stored \ {twin[p]}
          /\ UNCHANGED <<up, count>>
      BY <2>4 DEF EraseTwin, joinVars
    <3>2. CASE twin[p] \in Frames
      BY <3>1, <3>2, LeavingErases
    <3>3. CASE twin[p] \notin Frames
      <4>1. stored' = stored
        BY <3>1, <3>3 DEF TypeOK
      <4>. QED BY <2>1, <3>1, <4>1
    <3>. QED BY <3>2, <3>3
  <2>5. ASSUME NEW p \in Routers, RouterFlag(p)
        PROVE  (First!Next \/ UNCHANGED First!vars) /\ (Second!Next \/ UNCHANGED Second!vars)
    BY <2>5, RaisingPins
  <2>6. ASSUME NEW n \in Nodes, UNCHANGED <<stored, count>>, Lower(n) \/ UNCHANGED up
        PROVE  (First!Next \/ UNCHANGED First!vars) /\ (Second!Next \/ UNCHANGED Second!vars)
    BY <2>1, <2>6, LoweringUnpins
  <2>7. CASE Node
    <3>1. \E n \in Nodes : UNCHANGED <<stored, count>> /\ (Lower(n) \/ UNCHANGED up)
      BY <2>7 DEF Node, NodeStart, NodeDone, DetectTwin, DetectSecond, RenderBegin, repoVars,
                  joinVars, Nodes
    <3>. QED BY <2>6, <3>1
  <2>8. CASE \/ UNCHANGED vars \/ PairFirst \/ PairSecond
             \/ \E p \in Procs : Unpair(p)
             \/ \E p \in Routers : RouterTake(p) \/ RouterPut(p)
    <3>1. UNCHANGED <<stored, count, up>>
      BY <2>8 DEF vars, PairFirst, PairSecond, Unpair, RouterTake, RouterPut, Put, Refused,
                  repoVars, joinVars
    <3>. QED BY <2>1, <3>1
  <2>. QED BY <2>2, <2>3, <2>4, <2>5, <2>7, <2>8 DEF Next, Deletion, Router
<1>3. IInv /\ [Next]_vars => [First!Next]_(First!vars) /\ [Second!Next]_(Second!vars)
  BY <1>2
<1>. QED BY <1>1, <1>3, StereoInvariance, PTL DEF Spec, HalvesSpec, First!Spec, Second!Spec

=============================================================================
