---------------------------- MODULE DevicesProofs ----------------------------
(***************************************************************************)
(* Theorems about the search for devices and the list of disks, for any    *)
(* devices, node tables, DISK sections and questions, with nodes that      *)
(* others change and a run that ends at any system call.                   *)
(***************************************************************************)
EXTENDS Devices, SequenceTheorems, WellFoundedInduction, TLAPS

\* A frame of dev_open: where it is in lookup_dev, and the node that it uses.
Phases == {"lookup", "scan", "make", "made", "open", "opened"}

Frames ==
    [dev : Devices, opens : BOOLEAN, phase : Phases, name : Names \cup {""}, delete : BOOLEAN]

\* The process is gone.
Ended == pc \in {"exited", "died"}

\* The phases in which a frame has found a node, or made one.
Placed(f) == f.phase \in {"made", "open", "opened"}

\* While a question is asked, one device is open or about to be, and another one
\* within it only while it is open.
FramesInv ==
    /\ pc \in {"config", "section", "idle", "query", "merge", "exited", "died"}
    /\ frames \in Seq(Frames) /\ Len(frames) \in 0 .. 2
    /\ (pc = "query") = (frames # <<>>)
    /\ \A i \in {1, 2} : i <= Len(frames) =>
        /\ frames[i].delete => Placed(frames[i])
        /\ frames[i].phase = "made" => frames[i].delete
    /\ Len(frames) = 2 => frames[1].opens /\ frames[1].phase = "opened" /\ ~frames[2].opens

\* The nodes that are LILO's own.
Own(i, n) == i <= Len(frames) /\ frames[i].delete /\ frames[i].name = n
Ours(n) == Own(1, n) \/ Own(2, n)

\* The cache pairs names with devices.
Cached == [name : Names, number : Devices]
CacheFits == cache \in Seq(Cached)

\* Every other node is as others made it, each of LILO's own stands where there
\* was none, and all of them but the last are registered; a device is found under
\* its node, and a device within another one has made none of the same name.
NodeTypes ==
    /\ nodes \in [Names -> Devices \cup {NoDevice}]
    /\ others \in [Names -> Devices \cup {NoDevice}]
    /\ CacheFits

\* Nodes that are not LILO's own are what others made them.
OthersStand == ~Ended => \A n \in Names : Ours(n) \/ nodes[n] = others[n]

\* A frame that has a node has one of its device.
FrameStands(i) ==
    i <= Len(frames) =>
        /\ Placed(frames[i]) => frames[i].name \in Names /\ nodes[frames[i].name] = frames[i].dev
        /\ frames[i].delete => others[frames[i].name] = NoDevice

\* Two frames do not make the same node.
Apart == Len(frames) = 2 /\ frames[2].delete => frames[1].name # frames[2].name

\* The nodes that are registered to be removed.
Listed(i, n) == Own(i, n) /\ frames[i].phase # "made"
TempsListed == \A n : n \in temps <=> Listed(1, n) \/ Listed(2, n)

\* All that is said of the nodes.
NodesInv == NodeTypes /\ OthersStand /\ FrameStands(1) /\ FrameStands(2) /\ Apart /\ TempsListed

SearchInv == FramesInv /\ NodesInv

-----------------------------------------------------------------------------
(* The devices that are open.                                              *)

\* Devices are not what a missing node is.
LEMMA DevicesAreThere ==
    /\ NoDevice \notin Devices /\ Hd(0) \in Devices /\ Hd(1) \in Devices
    /\ \A d \in Devices : d.major # "none"
  BY DeviceAssumption DEF NoDevice

\* A new frame is a frame.
LEMMA FrameIsOne ==
    ASSUME NEW d \in Devices, NEW opens \in BOOLEAN
    PROVE  /\ Frame(d, opens) \in Frames
           /\ Frame(d, opens).dev = d /\ Frame(d, opens).opens = opens
           /\ Frame(d, opens).phase = "lookup" /\ Frame(d, opens).delete = FALSE
  BY DEF Frame, Frames, Phases

\* A step of the device that was opened last leaves the one around it alone.
LEMMA BecomesIsLast ==
    ASSUME FramesInv, frames # <<>>, NEW f \in Frames, Becomes(f)
    PROVE  /\ frames' \in Seq(Frames) /\ Len(frames') = Len(frames) /\ frames' # <<>>
           /\ Len(frames) \in 1 .. 2 /\ frames'[Len(frames)] = f
           /\ Len(frames) = 2 => frames'[1] = frames[1]
  <1>1. Len(frames) \in 1 .. 2 /\ frames \in Seq(Frames)
    BY DEF FramesInv
  <1>2. frames' = [frames EXCEPT ![Len(frames)] = f]
    BY DEF Becomes
  <1> QED
    BY <1>1, <1>2

\* A set of numbers that is not empty has a least one.
LEMMA NatSetHasLeast ==
    ASSUME NEW S \in SUBSET Nat, S # {}
    PROVE  \E i \in S : \A j \in S : i <= j
  <1> DEFINE R == {ss \in Nat \X Nat : ss[1] < ss[2]}
  <1>1. IsWellFoundedOn(R, Nat)
    BY NatLessThanWellFounded DEF OpToRel
  <1> HIDE DEF R
  <1>2. PICK i \in S : \A j \in S : <<j, i>> \notin R
    BY <1>1, WFMin
  <1>3. \A j \in S : ~(j < i)
    BY <1>2 DEF R
  <1> QED
    BY <1>3

\* An element of a sequence is one of its set.
LEMMA ElementIn ==
    ASSUME NEW T, NEW s \in Seq(T), NEW i \in DOMAIN s
    PROVE  s[i] \in T /\ i \in 1 .. Len(s)
  OBVIOUS

\* What a list without one of its elements is.
LEMMA RemoveAtKeeps ==
    ASSUME NEW T, NEW s \in Seq(T), NEW i \in 1 .. Len(s)
    PROVE  RemoveAt(s, i) \in Seq(T)
  BY DEF RemoveAt

\* What the frame of the last device is, and where it is.
LEMMA TopIsLast ==
    ASSUME FramesInv, NEW phase, At(phase)
    PROVE  /\ frames # <<>> /\ Len(frames) \in 1 .. 2 /\ pc = "query"
           /\ Top = frames[Len(frames)] /\ Top \in Frames /\ Top.phase = phase
           /\ Top.delete => Placed(Top)
           /\ Top.dev \in Devices /\ Top.opens \in BOOLEAN /\ Top.delete \in BOOLEAN
  <1>1. frames # <<>> /\ Len(frames) \in 1 .. 2 /\ pc = "query" /\ Top.phase = phase
    BY DEF At, FramesInv
  <1>2. Top = frames[Len(frames)] /\ Top \in Frames
    BY <1>1 DEF Top, FramesInv
  <1>3. Top.delete => Placed(Top)
    BY <1>1, <1>2 DEF FramesInv
  <1> QED
    BY <1>1, <1>2, <1>3 DEF Frames

\* A frame that goes on.
LEMMA FrameGoesOn ==
    ASSUME FramesInv, NEW phase, At(phase), NEW f \in Frames, Becomes(f), pc' = pc,
           f.opens = Top.opens, f.delete => Placed(f), f.phase = "made" => f.delete
    PROVE  FramesInv'
  <1>1. /\ frames # <<>> /\ Len(frames) \in 1 .. 2 /\ pc = "query"
        /\ Top = frames[Len(frames)]
    BY TopIsLast
  <1>2. /\ frames' \in Seq(Frames) /\ Len(frames') = Len(frames) /\ frames' # <<>>
        /\ frames'[Len(frames)] = f
        /\ Len(frames) = 2 => frames'[1] = frames[1]
    BY <1>1, BecomesIsLast
  <1>3. CASE Len(frames) = 1
    BY <1>1, <1>2, <1>3 DEF FramesInv, Placed
  <1>4. CASE Len(frames) = 2
    BY <1>1, <1>2, <1>4 DEF FramesInv, Placed
  <1> QED
    BY <1>1, <1>3, <1>4

\* A frame that goes on without a change to the nodes.
LEMMA FrameChangesNoNode ==
    ASSUME SearchInv, NEW phase, At(phase), NEW f \in Frames, Becomes(f),
           UNCHANGED <<pc, nodes, others, temps>>, phase # "made",
           CacheFits',
           f.dev = Top.dev, f.opens = Top.opens, f.phase # "made",
           Placed(f) => f.name \in Names /\ nodes[f.name] = f.dev,
           f.delete => Top.delete /\ Placed(f) /\ f.name = Top.name,
           Top.delete => f.delete
    PROVE  SearchInv'
  <1>1. FramesInv'
    BY FrameGoesOn DEF SearchInv
  <1>2. /\ frames # <<>> /\ Len(frames) \in 1 .. 2 /\ pc = "query" /\ Top.phase = phase
        /\ Top = frames[Len(frames)]
    BY TopIsLast DEF SearchInv
  <1>3. /\ Len(frames') = Len(frames) /\ frames'[Len(frames)] = f
        /\ Len(frames) = 2 => frames'[1] = frames[1]
    BY <1>2, BecomesIsLast DEF SearchInv
  <1>4. NodesInv'
    <2>1. /\ f.delete <=> Top.delete
          /\ f.delete => f.name = Top.name /\ f.dev = Top.dev
      OBVIOUS
    <2>2. CASE Len(frames) = 1
      <3>1. frames[1] = Top /\ frames'[1] = f /\ Len(frames') = 1
        BY <1>2, <1>3, <2>2
      <3>2. \A m : (Own(1, m)' <=> Own(1, m)) /\ (Own(2, m)' <=> Own(2, m))
        BY <2>1, <2>2, <3>1 DEF Own
      <3>3. \A m : Ours(m) => Ours(m)'
        BY <3>2 DEF Ours
      <3>4. \A m : (Listed(1, m)' <=> Listed(1, m)) /\ (Listed(2, m)' <=> Listed(2, m))
        BY <1>2, <2>2, <3>1, <3>2 DEF Listed, Own
      <3>5. TempsListed'
        BY <3>4 DEF SearchInv, NodesInv, TempsListed
      <3>6. OthersStand'
        BY <1>2, <3>3 DEF SearchInv, NodesInv, OthersStand, Ended
      <3>7. FrameStands(1)' /\ FrameStands(2)'
        BY <2>1, <2>2, <3>1 DEF SearchInv, NodesInv, FrameStands, Placed
      <3>8. Apart'
        BY <2>1, <2>2, <3>1 DEF SearchInv, NodesInv, Apart
      <3> QED
        BY <3>5, <3>6, <3>7, <3>8 DEF SearchInv, NodesInv, NodeTypes
    <2>3. CASE Len(frames) = 2
      <3>1. frames[2] = Top /\ frames'[2] = f /\ frames'[1] = frames[1] /\ Len(frames') = 2
        BY <1>2, <1>3, <2>3
      <3>2. \A m : (Own(1, m)' <=> Own(1, m)) /\ (Own(2, m)' <=> Own(2, m))
        BY <2>1, <2>3, <3>1 DEF Own
      <3>3. \A m : Ours(m) => Ours(m)'
        BY <3>2 DEF Ours
      <3>4. \A m : (Listed(1, m)' <=> Listed(1, m)) /\ (Listed(2, m)' <=> Listed(2, m))
        BY <1>2, <2>3, <3>1, <3>2 DEF Listed, Own
      <3>5. TempsListed'
        BY <3>4 DEF SearchInv, NodesInv, TempsListed
      <3>6. OthersStand'
        BY <1>2, <3>3 DEF SearchInv, NodesInv, OthersStand, Ended
      <3>7. FrameStands(1)' /\ FrameStands(2)'
        BY <2>1, <2>3, <3>1 DEF SearchInv, NodesInv, FrameStands, Placed
      <3>8. Apart'
        BY <2>1, <2>3, <3>1 DEF SearchInv, NodesInv, Apart
      <3> QED
        BY <3>5, <3>6, <3>7, <3>8 DEF SearchInv, NodesInv, NodeTypes
    <2> QED
      BY <1>2, <2>2, <2>3
  <1> QED
    BY <1>1, <1>4 DEF SearchInv

\* The cache is looked through.
LEMMA NextLookup == SearchInv /\ lookup_dev => SearchInv'
  <1> SUFFICES ASSUME SearchInv, lookup_dev
               PROVE  SearchInv'
    OBVIOUS
  <1>1. At("lookup") /\ UNCHANGED <<pc, nodes, others, temps>>
    BY DEF lookup_dev, world
  <1>2. Top \in Frames /\ Top.delete = FALSE
    <2>1. /\ Top \in Frames /\ Top.delete \in BOOLEAN /\ (Top.delete => Placed(Top))
          /\ ~Placed(Top)
      BY <1>1, TopIsLast DEF SearchInv, Placed
    <2> QED
      BY <2>1
  <1>3. cache \in Seq(Cached)
    BY DEF SearchInv, NodesInv, NodeTypes, CacheFits
  <1> DEFINE hits == {i \in DOMAIN cache : cache[i].number = Top.dev}
             hit == CHOOSE i \in hits : \A j \in hits : i <= j
  <1>4. CASE hits # {} /\ Valid(cache[hit]) /\ cache' = cache
             /\ Becomes([Top EXCEPT !.phase = "open", !.name = cache[hit].name])
    <2>1. hit \in hits
      <3>1. hits \subseteq Nat
        BY <1>3
      <3>2. \E i \in hits : \A j \in hits : i <= j
        BY <1>4, <3>1, NatSetHasLeast
      <3> QED
        BY <3>2
    <2>2. cache[hit].name \in Names /\ cache[hit].number = Top.dev
      <3>1. hit \in DOMAIN cache /\ cache[hit].number = Top.dev
        BY <2>1
      <3> HIDE DEF hit
      <3>2. cache[hit] \in [name : Names, number : Devices]
        BY <1>3, <3>1, ElementIn DEF Cached
      <3> QED
        BY <3>1, <3>2
    <2> DEFINE f == [Top EXCEPT !.phase = "open", !.name = cache[hit].name]
    <2>3. /\ f \in Frames /\ f.dev = Top.dev /\ f.opens = Top.opens /\ f.phase = "open"
          /\ f.delete = FALSE /\ f.name = cache[hit].name
      BY <1>2, <2>2 DEF Frames, Phases
    <2>4. nodes[f.name] = f.dev
      BY <1>4, <2>2, <2>3 DEF Valid
    <2> HIDE DEF f, hit
    <2>5. Becomes(f)
      BY <1>4 DEF f, hit
    <2>6. ~f.delete /\ ~Top.delete
      BY <1>2, <2>3
    <2>7. CacheFits'
      BY <1>3, <1>4 DEF CacheFits
    <2> QED
      BY <1>1, <1>2, <2>2, <2>3, <2>4, <2>5, <2>6, <2>7, FrameChangesNoNode DEF Placed
  <1>5. CASE /\ Becomes([Top EXCEPT !.phase = "scan"])
             /\ cache' = IF hits = {} THEN cache ELSE RemoveAt(cache, hit)
    <2>1. CacheFits'
      <3>1. CASE hits # {}
        <4>1. hits \subseteq 1 .. Len(cache) /\ hits \subseteq Nat
          BY <1>3
        <4>2. \E i \in hits : \A j \in hits : i <= j
          BY <3>1, <4>1, NatSetHasLeast
        <4>3. hit \in 1 .. Len(cache)
          BY <4>1, <4>2
        <4> HIDE DEF hit
        <4> QED
          BY <1>3, <1>5, <3>1, <4>3, RemoveAtKeeps DEF hit, CacheFits
      <3> QED
        BY <1>3, <1>5, <3>1 DEF CacheFits
    <2> DEFINE f == [Top EXCEPT !.phase = "scan"]
    <2>2. /\ f \in Frames /\ f.dev = Top.dev /\ f.opens = Top.opens /\ f.phase = "scan"
          /\ f.delete = FALSE
      BY <1>2 DEF Frames, Phases
    <2> HIDE DEF f
    <2>3. Becomes(f)
      BY <1>5 DEF f
    <2>6. ~f.delete /\ ~Top.delete
      BY <1>2, <2>1, <2>2
    <2> QED
      BY <2>6, <1>1, <1>2, <2>1, <2>2, <2>3, FrameChangesNoNode DEF Placed
  <1> QED
    BY <1>4, <1>5 DEF lookup_dev

\* /dev is searched.
LEMMA NextScan == SearchInv /\ scan_dir => SearchInv'
  <1> SUFFICES ASSUME SearchInv, scan_dir
               PROVE  SearchInv'
    OBVIOUS
  <1>1. At("scan") /\ UNCHANGED <<pc, nodes, others, temps>>
    BY DEF scan_dir, world
  <1>2. Top \in Frames /\ Top.delete = FALSE
    <2>1. /\ Top \in Frames /\ Top.delete \in BOOLEAN /\ (Top.delete => Placed(Top))
          /\ ~Placed(Top)
      BY <1>1, TopIsLast DEF SearchInv, Placed
    <2> QED
      BY <2>1
  <1>3. cache \in Seq(Cached)
    BY DEF SearchInv, NodesInv, NodeTypes, CacheFits
  <1>4. ASSUME NEW n \in DevNames, nodes[n] = Top.dev,
               Becomes([Top EXCEPT !.phase = "open", !.name = n]),
               cache' = <<[name |-> n, number |-> Top.dev]>> \o cache
        PROVE  SearchInv'
    <2>1. n \in Names /\ Top.dev \in Devices
      BY <1>2 DEF Names, Frames
    <2>2. CacheFits'
      <3>1. <<[name |-> n, number |-> Top.dev]>> \in Seq(Cached)
        BY <2>1 DEF Cached
      <3> QED
        BY <1>3, <1>4, <3>1 DEF CacheFits
    <2> DEFINE f == [Top EXCEPT !.phase = "open", !.name = n]
    <2>3. /\ f \in Frames /\ f.dev = Top.dev /\ f.opens = Top.opens /\ f.phase = "open"
          /\ f.delete = FALSE /\ f.name = n
      BY <1>2, <2>1 DEF Frames, Phases
    <2> HIDE DEF f
    <2>4. Becomes(f) /\ nodes[f.name] = f.dev
      BY <1>4, <2>3 DEF f
    <2>6. ~f.delete /\ ~Top.delete
      BY <1>2, <2>1, <2>2, <2>3
    <2> QED
      BY <2>6, <1>1, <1>2, <2>1, <2>2, <2>3, <2>4, FrameChangesNoNode DEF Placed
  <1>5. CASE Becomes([Top EXCEPT !.phase = "make"]) /\ UNCHANGED cache
    <2> DEFINE f == [Top EXCEPT !.phase = "make"]
    <2>1. /\ f \in Frames /\ f.dev = Top.dev /\ f.opens = Top.opens /\ f.phase = "make"
          /\ f.delete = FALSE
      BY <1>2 DEF Frames, Phases
    <2> HIDE DEF f
    <2>2. Becomes(f)
      BY <1>5 DEF f
    <2>6. ~f.delete /\ ~Top.delete
      BY <1>2, <2>1, <2>2
    <2>3. CacheFits'
      BY <1>3, <1>5 DEF CacheFits
    <2> QED
      BY <1>1, <1>2, <2>1, <2>2, <2>3, <2>6, FrameChangesNoNode DEF Placed
  <1> QED
    BY <1>4, <1>5 DEF scan_dir

\* A node is opened.
LEMMA NextOpen == SearchInv /\ OpenNode => SearchInv'
  <1> SUFFICES ASSUME SearchInv, OpenNode
               PROVE  SearchInv'
    OBVIOUS
  <1>1. /\ At("open") /\ UNCHANGED <<pc, nodes, others, temps, cache>>
    BY DEF OpenNode, world
  <1>2. Top \in Frames /\ Top.phase = "open" /\ Top.name \in Names /\ nodes[Top.name] = Top.dev
    BY <1>1, TopIsLast DEF SearchInv, NodesInv, FrameStands, Placed
  <1> DEFINE f == [Top EXCEPT !.phase = "opened"]
  <1>3. /\ f \in Frames /\ f.dev = Top.dev /\ f.opens = Top.opens /\ f.phase = "opened"
        /\ f.delete = Top.delete /\ f.name = Top.name
    BY <1>2 DEF Frames, Phases
  <1> HIDE DEF f
  <1>4. Becomes(f)
    BY DEF OpenNode, f
  <1>5. CacheFits'
    BY <1>1 DEF SearchInv, NodesInv, NodeTypes, CacheFits
  <1> QED
    BY <1>1, <1>2, <1>3, <1>4, <1>5, FrameChangesNoNode DEF Placed

\* A temporary node is made under a name that nobody uses.
LEMMA NextMake == SearchInv /\ MakeNode => SearchInv'
  <1> SUFFICES ASSUME SearchInv, MakeNode
               PROVE  SearchInv'
    OBVIOUS
  <1>1. At("make") /\ FreeTmp # {} /\ UNCHANGED <<pc, others, temps, cache>>
    BY DEF MakeNode, world
  <1>2. /\ frames # <<>> /\ Len(frames) \in 1 .. 2 /\ pc = "query" /\ Top.phase = "make"
        /\ Top = frames[Len(frames)] /\ Top \in Frames /\ Top.dev \in Devices
        /\ Top.opens \in BOOLEAN /\ Top.delete \in BOOLEAN /\ (Top.delete => Placed(Top))
    BY <1>1, TopIsLast DEF SearchInv
  <1>3. ~Top.delete
    BY <1>2 DEF Placed
  <1>4. PICK n \in Names :
            /\ nodes[n] = NoDevice /\ nodes' = [nodes EXCEPT ![n] = Top.dev]
            /\ Becomes([Top EXCEPT !.phase = "made", !.name = n, !.delete = TRUE])
    <2> DEFINE i0 == CHOOSE i \in FreeTmp : \A j \in FreeTmp : i <= j
    <2>1. FreeTmp \in SUBSET Nat
      BY DeviceAssumption DEF FreeTmp
    <2>2. \E i \in FreeTmp : \A j \in FreeTmp : i <= j
      BY <1>1, <2>1, NatSetHasLeast
    <2>3. i0 \in FreeTmp
      BY <2>2
    <2>4. TmpDev[i0] \in Names /\ nodes[TmpDev[i0]] = NoDevice
      BY <2>3 DEF FreeTmp, Names, Range
    <2> QED
      BY <2>4 DEF MakeNode
  <1> DEFINE f == [Top EXCEPT !.phase = "made", !.name = n, !.delete = TRUE]
  <1>5. /\ f \in Frames /\ f.dev = Top.dev /\ f.opens = Top.opens /\ f.phase = "made"
        /\ f.delete = TRUE /\ f.name = n
    BY <1>2 DEF Frames, Phases
  <1> HIDE DEF f
  <1>6. Placed(f) /\ f.delete
    BY <1>5 DEF Placed
  <1>7. Becomes(f)
    BY <1>4 DEF f
  <1>8. FramesInv'
    BY <1>1, <1>2, <1>5, <1>6, <1>7, FrameGoesOn DEF SearchInv
  <1>9. /\ Len(frames') = Len(frames) /\ frames'[Len(frames)] = f
        /\ Len(frames) = 2 => frames'[1] = frames[1]
    BY <1>2, <1>5, <1>7, BecomesIsLast DEF SearchInv
  <1>10. /\ nodes \in [Names -> Devices \cup {NoDevice}]
         /\ others \in [Names -> Devices \cup {NoDevice}]
         /\ \A m \in Names : Ours(m) \/ nodes[m] = others[m]
         /\ CacheFits
    BY <1>2 DEF SearchInv, NodesInv, NodeTypes, OthersStand, Ended
  <1>11. nodes' \in [Names -> Devices \cup {NoDevice}] /\ nodes'[n] = Top.dev
         /\ \A m \in Names : m # n => nodes'[m] = nodes[m]
    BY <1>2, <1>4, <1>10
  <1>12. CacheFits'
    BY <1>1, <1>10 DEF CacheFits
  <1>13. CASE Len(frames) = 1
    <2>1. frames[1] = Top /\ frames'[1] = f /\ Len(frames') = 1
      BY <1>2, <1>9, <1>13
    <2>2. \A m : ~Ours(m) /\ m \notin temps
      BY <1>3, <1>13, <2>1 DEF Ours, Own, Listed, SearchInv, NodesInv, TempsListed
    <2>3. others[n] = NoDevice
      BY <1>4, <1>10, <2>2
    <2>4. Own(1, n)'
      BY <1>5, <2>1 DEF Own
    <2>5. \A m \in Names : Ours(m)' \/ nodes'[m] = others'[m]
      BY <1>1, <1>10, <1>11, <2>2, <2>4 DEF Ours
    <2>6. \A m : m \notin temps' /\ ~(Listed(1, m)') /\ ~(Listed(2, m)')
      BY <1>1, <1>5, <2>1, <2>2 DEF Own, Listed
    <2>7. FrameStands(1)' /\ FrameStands(2)' /\ Apart'
      BY <1>1, <1>5, <1>11, <2>1, <2>3 DEF FrameStands, Apart
    <2>8. NodesInv'
      BY <1>1, <1>10, <1>11, <1>12, <2>5, <2>6, <2>7
      DEF NodesInv, NodeTypes, OthersStand, TempsListed
    <2> QED
      BY <1>8, <2>8 DEF SearchInv
  <1>14. CASE Len(frames) = 2
    <2>1. frames[2] = Top /\ frames'[2] = f /\ frames'[1] = frames[1] /\ Len(frames') = 2
      BY <1>2, <1>9, <1>14
    <2>2. Placed(frames[1]) /\ frames[1].phase = "opened" /\ frames[1] \in Frames
      BY <1>14 DEF SearchInv, FramesInv, Placed
    <2>3. frames[1].name \in Names /\ nodes[frames[1].name] = frames[1].dev
      BY <1>14, <2>2 DEF SearchInv, NodesInv, FrameStands
    <2>4. frames[1].name # n
      BY <1>4, <2>2, <2>3, DevicesAreThere DEF Frames
    <2>5. \A m : Ours(m) <=> frames[1].delete /\ frames[1].name = m
      BY <1>3, <1>14, <2>1 DEF Ours, Own
    <2>6. others[n] = NoDevice
      BY <1>4, <1>10, <2>4, <2>5
    <2>7. \A m : Own(1, m)' <=> frames[1].delete /\ frames[1].name = m
      BY <2>1 DEF Own
    <2>8. \A m : Own(2, m)' <=> m = n
      BY <1>5, <2>1 DEF Own
    <2>9. \A m \in Names : Ours(m)' \/ nodes'[m] = others'[m]
      BY <1>1, <1>10, <1>11, <2>5, <2>7, <2>8 DEF Ours
    <2>10. \A m : m \in temps <=> frames[1].delete /\ frames[1].name = m
      BY <1>3, <1>14, <2>1, <2>2 DEF Own, Listed, SearchInv, NodesInv, TempsListed
    <2>11. TempsListed'
      BY <1>1, <1>5, <2>1, <2>2, <2>7, <2>8, <2>10 DEF Listed, TempsListed
    <2>12. nodes'[frames[1].name] = frames[1].dev
      BY <1>11, <2>3, <2>4
    <2>13. frames[1].delete => others[frames[1].name] = NoDevice
      BY <1>14 DEF SearchInv, NodesInv, FrameStands
    <2>14. FrameStands(1)' /\ FrameStands(2)' /\ Apart'
      BY <1>1, <1>5, <1>11, <2>1, <2>3, <2>4, <2>6, <2>12, <2>13 DEF FrameStands, Apart
    <2>15. NodesInv'
      BY <1>1, <1>10, <1>11, <1>12, <2>9, <2>11, <2>14 DEF NodesInv, NodeTypes, OthersStand
    <2> QED
      BY <1>8, <2>15 DEF SearchInv
  <1> QED
    BY <1>2, <1>13, <1>14

\* A node that was made is registered.
LEMMA NextRegister == SearchInv /\ RegisterNode => SearchInv'
  <1> SUFFICES ASSUME SearchInv, RegisterNode
               PROVE  SearchInv'
    OBVIOUS
  <1>1. /\ At("made") /\ UNCHANGED <<pc, others, nodes, cache>> /\ temps' = temps \cup {Top.name}
    BY DEF RegisterNode, world
  <1>2. /\ frames # <<>> /\ Len(frames) \in 1 .. 2 /\ pc = "query" /\ Top.phase = "made"
        /\ Top = frames[Len(frames)] /\ Top \in Frames
    BY <1>1, TopIsLast DEF SearchInv
  <1> DEFINE f == [Top EXCEPT !.phase = "open"]
  <1>3. /\ f \in Frames /\ f.dev = Top.dev /\ f.opens = Top.opens /\ f.phase = "open"
        /\ f.name = Top.name /\ f.delete = Top.delete
    BY <1>2 DEF Frames, Phases
  <1> HIDE DEF f
  <1>4. Becomes(f)
    BY DEF RegisterNode, f
  <1>5. Top.delete
    BY <1>2 DEF SearchInv, FramesInv
  <1>6. Placed(f) /\ Placed(Top) /\ f.delete
    BY <1>2, <1>3, <1>5 DEF Placed
  <1>7. FramesInv'
    BY <1>1, <1>2, <1>3, <1>4, <1>6, FrameGoesOn DEF SearchInv
  <1>8. /\ Len(frames') = Len(frames) /\ frames'[Len(frames)] = f
        /\ Len(frames) = 2 => frames'[1] = frames[1]
    BY <1>2, <1>3, <1>4, BecomesIsLast DEF SearchInv
  <1>9. CacheFits'
    BY <1>1 DEF CacheFits, SearchInv, NodesInv, NodeTypes
  <1>10. CASE Len(frames) = 1
    <2>1. frames[1] = Top /\ frames'[1] = f /\ Len(frames') = 1
      BY <1>2, <1>8, <1>10
    <2>2. \A m : (Own(1, m)' <=> m = Top.name) /\ (Own(1, m) <=> m = Top.name)
      BY <1>3, <1>5, <1>6, <1>10, <2>1 DEF Own
    <2>3. \A m : ~Own(2, m) /\ ~(Own(2, m)')
      BY <1>10, <2>1 DEF Own
    <2>4. \A m : Ours(m) => Ours(m)'
      BY <2>2, <2>3 DEF Ours
    <2>5. \A m : m \notin temps
      BY <1>2, <2>1, <2>3 DEF SearchInv, NodesInv, TempsListed, Listed
    <2>6. TempsListed'
      <3>1. \A m : m \in temps' <=> m = Top.name
        BY <1>1, <2>5
      <3>2. \A m : (Listed(1, m)' <=> m = Top.name) /\ ~(Listed(2, m)')
        BY <1>3, <2>1, <2>2, <2>3 DEF Listed
      <3> QED
        BY <3>1, <3>2 DEF TempsListed
    <2>7. FrameStands(1)' /\ FrameStands(2)' /\ Apart'
      <3>1. /\ f.name \in Names /\ nodes[f.name] = f.dev
            /\ others[f.name] = NoDevice
        BY <1>3, <1>5, <1>6, <1>10, <2>1 DEF SearchInv, NodesInv, FrameStands
      <3>2. FrameStands(1)'
        BY <1>1, <2>1, <3>1 DEF FrameStands
      <3> QED
        BY <2>1, <3>2 DEF FrameStands, Apart
    <2>8. NodesInv'
      BY <1>1, <1>2, <1>9, <2>4, <2>6, <2>7
      DEF SearchInv, NodesInv, NodeTypes, OthersStand, Ended
    <2> QED
      BY <1>7, <2>8 DEF SearchInv
  <1>11. CASE Len(frames) = 2
    <2>1. frames[2] = Top /\ frames'[2] = f /\ frames'[1] = frames[1] /\ Len(frames') = 2
      BY <1>2, <1>8, <1>11
    <2>2. \A m : (Own(2, m)' <=> m = Top.name) /\ (Own(2, m) <=> m = Top.name)
      BY <1>3, <1>5, <1>6, <1>11, <2>1 DEF Own
    <2>3. \A m : Own(1, m)' <=> Own(1, m)
      BY <1>11, <2>1 DEF Own
    <2>4. \A m : Ours(m) => Ours(m)'
      BY <2>2, <2>3 DEF Ours
    <2>5. \A m : m \in temps <=> Own(1, m) /\ frames[1].phase # "made"
      BY <1>2, <2>1 DEF SearchInv, NodesInv, TempsListed, Listed
    <2>6. TempsListed'
      BY <1>1, <1>3, <2>1, <2>2, <2>3, <2>5 DEF TempsListed, Listed
    <2>7. FrameStands(1)' /\ FrameStands(2)' /\ Apart'
      BY <1>1, <1>3, <1>6, <1>11, <2>1 DEF SearchInv, NodesInv, FrameStands, Apart
    <2>8. NodesInv'
      BY <1>1, <1>2, <1>9, <2>4, <2>6, <2>7
      DEF SearchInv, NodesInv, NodeTypes, OthersStand, Ended
    <2> QED
      BY <1>7, <2>8 DEF SearchInv
  <1> QED
    BY <1>2, <1>10, <1>11

-----------------------------------------------------------------------------
(* Beginning and end.                                                      *)

\* Without a device that is open every node is as others made it.
LEMMA AsFound ==
    ASSUME NodesInv, frames = <<>>, ~Ended
    PROVE  nodes = others /\ \A n : n \notin temps
  <1>1. Len(frames) = 0
    OBVIOUS
  <1>2. \A n : ~Ours(n) /\ ~Listed(1, n) /\ ~Listed(2, n)
    BY <1>1 DEF Ours, Listed, Own
  <1>3. \A n \in Names : nodes[n] = others[n]
    BY <1>2 DEF NodesInv, OthersStand
  <1> QED
    BY <1>2, <1>3 DEF NodesInv, NodeTypes, TempsListed

\* With nothing open the nodes are as others made them.
LEMMA AsFoundAfter ==
    NodesInv' /\ (frames = <<>>)' /\ ~(Ended') => (nodes = others)'
  <1>1. NodesInv /\ frames = <<>> /\ ~Ended => nodes = others
    BY AsFound
  <1> QED
    BY <1>1, PTL

\* What is needed of the nodes while no device has one.
Unplaced(i) == i <= Len(frames) => ~Placed(frames[i]) /\ ~frames[i].delete

\* No frame has a node.
NothingPlaced ==
    /\ NodeTypes
    /\ nodes = others \/ Ended
    /\ \A n : n \notin temps
    /\ Unplaced(1) /\ Unplaced(2)

\* Then the nodes are those of others.
LEMMA PlacedByNobody == NothingPlaced => NodesInv
  <1> SUFFICES ASSUME NothingPlaced
               PROVE  NodesInv
    OBVIOUS
  <1>1. \A n : ~Own(1, n) /\ ~Own(2, n)
    BY DEF NothingPlaced, Unplaced, Own
  <1>2. TempsListed
    BY <1>1 DEF NothingPlaced, TempsListed, Listed
  <1>3. OthersStand
    BY DEF NothingPlaced, OthersStand
  <1>4. FrameStands(1) /\ FrameStands(2) /\ Apart
    BY DEF NothingPlaced, Unplaced, FrameStands, Apart
  <1> QED
    BY <1>2, <1>3, <1>4 DEF NodesInv, NothingPlaced

\* The same after a step.
LEMMA PlacedByNobodyAfter == NothingPlaced' => NodesInv'
  BY PlacedByNobody, PTL

\* A node that is not registered yet belongs to the device opened last.
LEMMA MadeIsTop ==
    ASSUME SearchInv, ~At("made"), NEW n
    PROVE  /\ Own(1, n) => Listed(1, n)
           /\ Own(2, n) => Listed(2, n)
  <1>1. Len(frames) \in 0 .. 2 /\ frames \in Seq(Frames)
    BY DEF SearchInv, FramesInv
  <1>2. CASE Own(1, n) /\ frames[1].phase = "made"
    <2>1. Len(frames) # 2
      BY <1>2 DEF SearchInv, FramesInv
    <2>2. Len(frames) = 1 /\ frames # <<>>
      BY <1>1, <1>2, <2>1 DEF Own
    <2>3. At("made")
      BY <1>2, <2>2 DEF At, Top, SearchInv, FramesInv
    <2> QED
      BY <2>3
  <1>3. CASE Own(2, n) /\ frames[2].phase = "made"
    <2>1. Len(frames) = 2 /\ frames # <<>>
      BY <1>1, <1>3 DEF Own
    <2>2. At("made")
      BY <1>3, <2>1 DEF At, Top, SearchInv, FramesInv
    <2> QED
      BY <2>2
  <1> QED
    BY <1>2, <1>3 DEF Listed

\* The end of the run removes what is registered; a node made just before, and
\* not registered yet, is left.
LEMMA LeaveKeeps ==
    ASSUME SearchInv, ~Ended, NEW how \in {"exited", "died"}, Leave(how)
    PROVE  /\ SearchInv'
           /\ ~At("made") => nodes' = others'
  <1>1. /\ pc' = how /\ temps' = {} /\ frames' = <<>> /\ cache' = <<>> /\ UNCHANGED others
        /\ nodes' = [n \in Names |-> IF n \in temps THEN NoDevice ELSE nodes[n]]
    BY DEF Leave, world
  <1>2. NodeTypes'
    <2>1. nodes' \in [Names -> Devices \cup {NoDevice}]
      BY <1>1 DEF SearchInv, NodesInv, NodeTypes
    <2> QED
      BY <1>1, <2>1 DEF SearchInv, NodesInv, NodeTypes, CacheFits
  <1>3. FramesInv'
    BY <1>1 DEF FramesInv
  <1>4. NodesInv'
    <2>1. Len(frames') = 0
      BY <1>1
    <2>2. NothingPlaced'
      BY <1>1, <1>2, <2>1 DEF NothingPlaced, Unplaced, Ended
    <2> QED
      BY <2>2, PlacedByNobodyAfter
  <1>5. ASSUME ~At("made")
        PROVE  nodes' = others'
    <2>1. ASSUME NEW n \in Names
          PROVE  nodes'[n] = others[n]
      <3>1. nodes'[n] = IF n \in temps THEN NoDevice ELSE nodes[n]
        BY <1>1
      <3>2. Own(1, n) => others[n] = NoDevice
        BY DEF SearchInv, NodesInv, FrameStands, Own
      <3>3. Own(2, n) => others[n] = NoDevice
        BY DEF SearchInv, NodesInv, FrameStands, Own
      <3>4. n \in temps => others[n] = NoDevice
        BY <3>2, <3>3 DEF SearchInv, NodesInv, TempsListed, Listed
      <3>5. Ours(n) => n \in temps
        BY <1>5, MadeIsTop DEF Ours, SearchInv, NodesInv, TempsListed, Listed
      <3>6. Ours(n) \/ nodes[n] = others[n]
        BY DEF SearchInv, NodesInv, OthersStand
      <3> QED
        BY <3>1, <3>4, <3>5, <3>6
    <2> QED
      BY <1>1, <1>2, <2>1 DEF NodeTypes
  <1> QED
    BY <1>3, <1>4, <1>5 DEF SearchInv

-----------------------------------------------------------------------------
(* Devices that are opened and closed.                                     *)

\* A list of one element and another one, and of two without the last.
LEMMA TwoOfOne ==
    ASSUME NEW T, NEW s \in Seq(T), Len(s) = 1, NEW x \in T
    PROVE  /\ Append(s, x) \in Seq(T) /\ Len(Append(s, x)) = 2
           /\ Append(s, x)[1] = s[1] /\ Append(s, x)[2] = x
           /\ Append(s, x) = <<s[1], x>>
  <1> DEFINE t == Append(s, x)
  <1>1. t \in Seq(T) /\ Len(t) = 2
    <2>1. t \in Seq(T)
      OBVIOUS
    <2>2. Len(t) = Len(s) + 1
      BY AppendProperties, ZenonT(30)
    <2> QED
      BY <2>1, <2>2
  <1>2. t[1] = s[1] /\ t[2] = x
    <2>1. t[1] = s[1]
      OBVIOUS
    <2>2. t[Len(s) + 1] = x
      BY AppendProperties
    <2>3. Len(s) + 1 = 2
      OBVIOUS
    <2> HIDE DEF t
    <2> QED
      BY <2>1, <2>2, <2>3
  <1>3. t \in Seq(T) /\ Len(t) = 2 /\ t[1] = s[1] /\ t[2] = x
    BY <1>1, <1>2
  <1> HIDE DEF t
  <1>4. t = <<s[1], x>>
    BY <1>3
  <1> QED
    BY <1>1, <1>2, <1>4 DEF t

\* The outer of two frames is left when the inner one goes.
LEMMA OneOfTwo ==
    ASSUME NEW T, NEW s \in Seq(T), Len(s) = 2
    PROVE  /\ Front(s) = <<s[1]>> /\ Front(s) \o <<>> = <<s[1]>>
           /\ \A x \in T : Front(s) \o <<x>> = <<s[1], x>>
  <1>1. /\ Front(s) \in Seq(T) /\ Len(Front(s)) = 1 /\ Front(s)[1] = s[1]
    <2>1. Front(s) = SubSeq(s, 1, 1) /\ \A i \in 1 .. 1 : s[i] \in T
      BY DEF Front
    <2>2. /\ SubSeq(s, 1, 1) \in Seq(T) /\ Len(SubSeq(s, 1, 1)) = IF 1 <= 1 THEN 1 - 1 + 1 ELSE 0
          /\ \A i \in 1 .. 1 - 1 + 1 : SubSeq(s, 1, 1)[i] = s[1 + i - 1]
      BY <2>1, SubSeqProperties
    <2> QED
      BY <2>1, <2>2
  <1>2. Front(s) = <<s[1]>>
    BY <1>1
  <1>3. \A x \in T : Append(Front(s), x) = Front(s) \o <<x>>
    BY <1>1, AppendIsConcat
  <1>4. \A x \in T : Append(Front(s), x) = <<Front(s)[1], x>>
    BY <1>1, TwoOfOne
  <1>5. Front(s) \o <<>> = Front(s)
    BY <1>1
  <1> QED
    BY <1>1, <1>2, <1>3, <1>4, <1>5

\* Nothing is left of one frame.
LEMMA NoneOfOne ==
    ASSUME NEW T, NEW s \in Seq(T), Len(s) = 1
    PROVE  /\ Front(s) = <<>> /\ Front(s) \o <<>> = <<>>
           /\ \A x \in T : Front(s) \o <<x>> = <<x>>
  <1>1. Front(s) = <<>>
    BY DEF Front
  <1>2. <<>> \o <<>> = <<>> /\ \A x \in T : <<>> \o <<x>> = <<x>>
    OBVIOUS
  <1> QED
    BY <1>1, <1>2

\* The first device of a question.
LEMMA FirstIsOpened ==
    ASSUME SearchInv, pc = "idle", NEW d \in Devices, NEW opens \in BOOLEAN,
           pc' = "query", frames' = <<Frame(d, opens)>>,
           UNCHANGED <<nodes, others, cache, temps>>
    PROVE  SearchInv'
  <1> DEFINE f == Frame(d, opens)
  <1>1. f \in Frames /\ f.phase = "lookup" /\ f.delete = FALSE
    BY FrameIsOne
  <1>2. ~f.delete /\ ~Placed(f)
    BY <1>1 DEF Placed
  <1> HIDE DEF f
  <1>3. frames' = <<f>>
    BY DEF f
  <1>4. frames = <<>>
    BY DEF SearchInv, FramesInv
  <1>5. FramesInv'
    BY <1>1, <1>2, <1>3 DEF FramesInv
  <1>6. nodes = others /\ \A n : n \notin temps
    BY <1>4, AsFound DEF SearchInv, Ended
  <1>7. NodeTypes'
    BY DEF SearchInv, NodesInv, NodeTypes, CacheFits
  <1>8. Unplaced(1)' /\ Unplaced(2)'
    BY <1>2, <1>3 DEF Unplaced
  <1>9. NothingPlaced'
    BY <1>6, <1>7, <1>8 DEF NothingPlaced
  <1> QED
    BY <1>5, <1>9, PlacedByNobodyAfter DEF SearchInv

\* A device within the one that is open.
LEMMA NextStartCount == SearchInv /\ StartCount => SearchInv'
  <1> SUFFICES ASSUME SearchInv, StartCount
               PROVE  SearchInv'
    OBVIOUS
  <1> DEFINE f == Frame(Hd(0), FALSE)
  <1>1. f \in Frames /\ f.phase = "lookup" /\ f.delete = FALSE /\ f.opens = FALSE
    BY FrameIsOne, DevicesAreThere
  <1>2. ~f.delete /\ ~Placed(f) /\ ~f.opens
    BY <1>1 DEF Placed
  <1> HIDE DEF f
  <1>3. /\ At("opened") /\ Top.opens /\ frames' = Append(frames, f)
        /\ UNCHANGED <<pc, nodes, others, cache, temps>>
    BY DEF StartCount, f, world
  <1>4. /\ frames # <<>> /\ Len(frames) \in 1 .. 2 /\ pc = "query" /\ Top.phase = "opened"
        /\ Top = frames[Len(frames)] /\ Top \in Frames
    BY <1>3, TopIsLast DEF SearchInv
  <1>5. Len(frames) = 1 /\ frames \in Seq(Frames)
    BY <1>3, <1>4 DEF SearchInv, FramesInv
  <1>6. /\ Len(frames') = 2 /\ frames'[1] = frames[1] /\ frames'[2] = f
        /\ frames' \in Seq(Frames)
    BY <1>1, <1>3, <1>5, TwoOfOne
  <1>7. frames[1].opens /\ frames[1].phase = "opened"
    BY <1>3, <1>4, <1>5
  <1>8. FramesInv'
    BY <1>2, <1>1, <1>3, <1>4, <1>5, <1>6, <1>7 DEF SearchInv, FramesInv
  <1>9. \A n : (Own(1, n)' <=> Own(1, n)) /\ ~Own(2, n) /\ ~(Own(2, n)')
    BY <1>2, <1>5, <1>6 DEF Own
  <1>10. NodesInv'
    <2>1. \A n : Ours(n) => Ours(n)'
      BY <1>9 DEF Ours
    <2>2. OthersStand'
      BY <1>3, <1>4, <2>1 DEF SearchInv, NodesInv, OthersStand, Ended
    <2>3. TempsListed'
      BY <1>3, <1>6, <1>9 DEF SearchInv, NodesInv, TempsListed, Listed
    <2>4. FrameStands(1)' /\ FrameStands(2)'
      BY <1>2, <1>3, <1>5, <1>6 DEF SearchInv, NodesInv, FrameStands
    <2>5. Apart'
      BY <1>2, <1>6 DEF Apart
    <2>6. NodeTypes'
      BY <1>3 DEF SearchInv, NodesInv, NodeTypes, CacheFits
    <2> QED
      BY <2>2, <2>3, <2>4, <2>5, <2>6 DEF NodesInv
  <1> QED
    BY <1>8, <1>10 DEF SearchInv

\* What dev_close leaves: the nodes of others and that of the device around.
LEMMA Closed ==
    ASSUME SearchInv, At("opened"), CloseNode, UNCHANGED <<others, cache>>
    PROVE  /\ NodeTypes'
           /\ \A n \in Names : (Len(frames) = 2 /\ Own(1, n)) \/ nodes'[n] = others'[n]
           /\ \A n : n \in temps' <=> Len(frames) = 2 /\ Own(1, n)
           /\ Len(frames) = 2 => nodes'[frames[1].name] = frames[1].dev
  <1>1. /\ frames # <<>> /\ Len(frames) \in 1 .. 2 /\ pc = "query" /\ Top.phase = "opened"
        /\ Top = frames[Len(frames)] /\ Top \in Frames /\ Top.delete \in BOOLEAN
    BY TopIsLast DEF SearchInv
  <1>2. /\ Top.name \in Names /\ nodes[Top.name] = Top.dev
        /\ Top.delete => others[Top.name] = NoDevice
    BY <1>1 DEF SearchInv, NodesInv, FrameStands, Placed
  <1>3. /\ nodes' = IF Top.delete THEN [nodes EXCEPT ![Top.name] = NoDevice] ELSE nodes
        /\ temps' = IF Top.delete THEN temps \ {Top.name} ELSE temps
    BY DEF CloseNode, Removes
  <1>4. NodeTypes
    BY DEF SearchInv, NodesInv
  <1>5. NodeTypes'
    BY <1>3, <1>4 DEF NodeTypes, CacheFits
  <1>6. /\ \A n \in Names : Ours(n) \/ nodes[n] = others[n]
        /\ \A n : n \in temps <=> Listed(1, n) \/ Listed(2, n)
    BY <1>1 DEF SearchInv, NodesInv, OthersStand, TempsListed, Ended
  <1>7. \A n : (n = Top.name /\ Top.delete) <=> Own(Len(frames), n)
    BY <1>1 DEF Own
  <1>8. Top.phase # "made" /\ \A n : Own(Len(frames), n) <=> Listed(Len(frames), n)
    BY <1>1 DEF Listed
  <1>9. \A n \in Names : n # Top.name \/ ~Top.delete => nodes'[n] = nodes[n]
    BY <1>3, <1>4 DEF NodeTypes
  <1>10. Top.delete => nodes'[Top.name] = NoDevice
    BY <1>2, <1>3, <1>4 DEF NodeTypes
  <1>11. CASE Len(frames) = 1
    <2>1. \A n : ~Own(2, n) /\ ~Listed(2, n)
      BY <1>11 DEF Own, Listed
    <2>2. \A n \in Names : nodes'[n] = others[n]
      BY <1>2, <1>6, <1>7, <1>9, <1>10, <1>11, <2>1 DEF Ours
    <2>3. \A n : n \notin temps'
      BY <1>3, <1>6, <1>7, <1>8, <1>11, <2>1
    <2> QED
      BY <1>5, <1>11, <2>2, <2>3
  <1>12. CASE Len(frames) = 2
    <2>1. frames[1].phase = "opened" /\ Placed(frames[1])
      BY <1>12 DEF SearchInv, FramesInv, Placed
    <2>2. frames[1].name \in Names /\ nodes[frames[1].name] = frames[1].dev
      BY <1>12, <2>1 DEF SearchInv, NodesInv, FrameStands
    <2>3. Top.delete => frames[1].name # Top.name
      BY <1>1, <1>12 DEF SearchInv, NodesInv, Apart
    <2>4. nodes'[frames[1].name] = frames[1].dev
      BY <1>9, <2>2, <2>3
    <2>5. \A n \in Names : Own(1, n) \/ nodes'[n] = others[n]
      BY <1>2, <1>6, <1>7, <1>9, <1>10, <1>12 DEF Ours
    <2>6. \A n : Own(1, n) <=> Listed(1, n)
      BY <2>1 DEF Listed
    <2>7. \A n : Own(1, n) => ~Own(2, n)
      BY <1>1, <1>12, <2>3 DEF Own
    <2>8. \A n : n \in temps' <=> Own(1, n)
      BY <1>3, <1>6, <1>7, <1>8, <1>12, <2>6, <2>7
    <2> QED
      BY <1>5, <1>12, <2>4, <2>5, <2>8
  <1> QED
    BY <1>1, <1>11, <1>12

\* The kernel is asked, and the device closed.
LEMMA NextQuery == SearchInv /\ QueryDevice => SearchInv'
  <1> SUFFICES ASSUME SearchInv, QueryDevice
               PROVE  SearchInv'
    OBVIOUS
  <1>1. /\ At("opened") /\ Top.opens /\ CloseNode /\ frames' = <<>> /\ pc' = "merge"
        /\ UNCHANGED <<others, cache>>
    BY DEF QueryDevice, world
  <1>2. Len(frames) = 1
    <2>1. Len(frames) \in 1 .. 2 /\ Top = frames[Len(frames)]
      BY <1>1, TopIsLast DEF SearchInv
    <2> QED
      BY <1>1, <2>1 DEF SearchInv, FramesInv
  <1>3. /\ NodeTypes'
        /\ \A n \in Names : nodes'[n] = others'[n]
        /\ \A n : n \notin temps'
    BY <1>1, <1>2, Closed
  <1>4. Len(frames') = 0
    BY <1>1
  <1>5. NothingPlaced'
    BY <1>3, <1>4 DEF NothingPlaced, Unplaced, NodeTypes
  <1>6. FramesInv'
    BY <1>1 DEF FramesInv
  <1> QED
    BY <1>5, <1>6, PlacedByNobodyAfter DEF SearchInv

\* The next disk is counted.
LEMMA NextCountDisk == SearchInv /\ CountDisk => SearchInv'
  <1> SUFFICES ASSUME SearchInv, CountDisk
               PROVE  SearchInv'
    OBVIOUS
  <1> DEFINE f == Frame(Hd(1), FALSE)
  <1>1. f \in Frames /\ f.phase = "lookup" /\ f.delete = FALSE /\ f.opens = FALSE
    BY FrameIsOne, DevicesAreThere
  <1>2. ~f.delete /\ ~Placed(f) /\ ~f.opens /\ f.phase # "made"
    BY <1>1 DEF Placed
  <1>3. PICK next \in {<<>>, <<f>>} :
            /\ frames' = Front(frames) \o next
            /\ pc' = IF frames' = <<>> THEN "merge" ELSE pc
    BY DEF CountDisk
  <1> HIDE DEF f
  <1>4. At("opened") /\ CloseNode /\ UNCHANGED <<others, cache>>
    BY DEF CountDisk, world
  <1>5. /\ frames # <<>> /\ Len(frames) \in 1 .. 2 /\ pc = "query" /\ frames \in Seq(Frames)
    BY <1>4, TopIsLast DEF SearchInv, FramesInv
  <1>6. /\ NodeTypes'
        /\ \A n \in Names : (Len(frames) = 2 /\ Own(1, n)) \/ nodes'[n] = others'[n]
        /\ \A n : n \in temps' <=> Len(frames) = 2 /\ Own(1, n)
        /\ Len(frames) = 2 => nodes'[frames[1].name] = frames[1].dev
    BY <1>4, Closed
  <1>7. CASE Len(frames) = 1
    <2>1. Front(frames) = <<>>
      BY <1>5, <1>7 DEF Front
    <2>2. frames' = next
      BY <1>1, <1>3, <2>1
    <2>3. Unplaced(1)' /\ Unplaced(2)'
      BY <1>2, <2>2 DEF Unplaced
    <2>4. NothingPlaced'
      BY <1>6, <1>7, <2>3 DEF NothingPlaced, NodeTypes
    <2>5. FramesInv'
      <3>1. CASE next = <<>>
        BY <1>3, <2>2, <3>1 DEF FramesInv
      <3>2. CASE next = <<f>>
        BY <1>1, <1>2, <1>3, <1>5, <2>2, <3>2 DEF FramesInv
      <3> QED
        BY <3>1, <3>2
    <2> QED
      BY <2>4, <2>5, PlacedByNobodyAfter DEF SearchInv
  <1>8. CASE Len(frames) = 2
    <2>1. /\ frames[1].opens /\ frames[1].phase = "opened" /\ Placed(frames[1])
          /\ frames[1] \in Frames
      BY <1>5, <1>8 DEF SearchInv, FramesInv, Placed
    <2>2. Front(frames) = <<frames[1]>>
      BY <1>1, <1>5, <1>8, OneOfTwo
    <2>3. frames' = <<frames[1]>> \/ frames' = <<frames[1], f>>
      BY <1>1, <1>3, <1>5, <1>8, OneOfTwo
    <2>4. pc' = "query"
      BY <1>3, <1>5, <2>3
    <2>5. FramesInv'
      <3>1. CASE frames' = <<frames[1]>>
        BY <2>1, <2>4, <3>1 DEF FramesInv
      <3>2. CASE frames' = <<frames[1], f>>
        BY <1>1, <1>2, <2>1, <2>4, <3>2 DEF FramesInv
      <3> QED
        BY <2>3, <3>1, <3>2
    <2>6. \A n : (Own(1, n)' <=> Own(1, n)) /\ ~(Own(2, n)')
      BY <1>2, <1>8, <2>3 DEF Own
    <2>7. OthersStand'
      BY <1>6, <2>6 DEF OthersStand, Ours
    <2>8. TempsListed'
      <3>1. frames'[1] = frames[1]
        BY <2>3
      <3> QED
        BY <1>6, <1>8, <2>1, <2>6, <3>1 DEF TempsListed, Listed
    <2>9. FrameStands(1)'
      <3>1. frames'[1] = frames[1] /\ 1 <= Len(frames')
        BY <2>3
      <3>2. frames[1].name \in Names /\ (frames[1].delete => others[frames[1].name] = NoDevice)
        BY <1>8, <2>1 DEF SearchInv, NodesInv, FrameStands
      <3> QED
        BY <1>4, <1>6, <1>8, <3>1, <3>2 DEF FrameStands
    <2>10. FrameStands(2)' /\ Apart'
      BY <1>2, <2>3 DEF FrameStands, Apart
    <2> QED
      BY <1>6, <2>5, <2>7, <2>8, <2>9, <2>10 DEF SearchInv, NodesInv
  <1> QED
    BY <1>5, <1>7, <1>8

-----------------------------------------------------------------------------
(* The invariant of the search.                                            *)

\* Nothing is open at first.
LEMMA InitSearch == Init => SearchInv
  <1> SUFFICES ASSUME Init
               PROVE  SearchInv
    OBVIOUS
  <1>1. FramesInv
    BY DEF Init, FramesInv
  <1>2. CacheFits
    BY DeviceAssumption DEF Init, CacheFits, Cached
  <1>3. NodeTypes
    BY <1>2, DeviceAssumption DEF Init, NodeTypes
  <1>4. Len(frames) = 0
    BY DEF Init
  <1>5. NothingPlaced
    BY <1>3, <1>4 DEF Init, NothingPlaced, Unplaced
  <1> QED
    BY <1>1, <1>5, PlacedByNobody DEF SearchInv

\* A step that opens no device and closes none.
QuietSearch ==
    /\ UNCHANGED <<search, others>>
    /\ pc \in {"config", "section", "idle", "merge"}
    /\ pc' \in {"config", "section", "idle", "merge"}

\* Steps that leave frames, nodes and cache alone.
LEMMA QuietSearchKeeps == SearchInv /\ QuietSearch => SearchInv'
  <1> SUFFICES ASSUME SearchInv, QuietSearch
               PROVE  SearchInv'
    OBVIOUS
  <1>1. UNCHANGED <<frames, nodes, cache, temps, others>> /\ frames = <<>>
    BY DEF QuietSearch, search, SearchInv, FramesInv
  <1>2. FramesInv'
    BY <1>1 DEF QuietSearch, FramesInv
  <1>3. nodes = others /\ \A n : n \notin temps
    BY <1>1, AsFound DEF SearchInv, QuietSearch, Ended
  <1>4. NodeTypes'
    BY <1>1 DEF SearchInv, NodesInv, NodeTypes, CacheFits
  <1>5. Len(frames') = 0
    BY <1>1
  <1>6. NothingPlaced'
    BY <1>1, <1>3, <1>4, <1>5 DEF NothingPlaced, Unplaced
  <1> QED
    BY <1>2, <1>6, PlacedByNobodyAfter DEF SearchInv

\* Others change a node.
LEMMA NextNodeChanges ==
    ASSUME SearchInv, NEW c \in Changes, NodeChanges(c)
    PROVE  SearchInv'
  <1>1. /\ pc = "idle" /\ UNCHANGED <<pc, cache, temps, frames>>
        /\ others' = [others EXCEPT ![c.name] = c.number]
        /\ nodes' = [nodes EXCEPT ![c.name] = c.number]
    BY DEF NodeChanges
  <1>2. c.name \in Names /\ c.number \in Devices \cup {NoDevice}
    BY DeviceAssumption
  <1>3. frames = <<>>
    BY <1>1 DEF SearchInv, FramesInv
  <1>4. nodes = others /\ \A n : n \notin temps
    BY <1>1, <1>3, AsFound DEF SearchInv, Ended
  <1>5. NodeTypes'
    BY <1>1, <1>2 DEF SearchInv, NodesInv, NodeTypes, CacheFits
  <1>6. FramesInv'
    BY <1>1, <1>3 DEF FramesInv
  <1>7. Len(frames') = 0
    BY <1>1, <1>3
  <1>8. NothingPlaced'
    BY <1>1, <1>4, <1>5, <1>7 DEF NothingPlaced, Unplaced
  <1> QED
    BY <1>6, <1>8, PlacedByNobodyAfter DEF SearchInv

\* geo_get begins.
LEMMA NextGet ==
    ASSUME SearchInv, NEW d \in Devices, NEW all \in BOOLEAN, geo_get(d, all)
    PROVE  SearchInv'
  <1>1. pc = "idle" /\ ~Ended
    BY DEF geo_get, Ended
  <1>2. CASE Leave("died")
    BY <1>1, <1>2, LeaveKeeps
  <1>3. CASE /\ frames' = <<Frame(d, TRUE)>> /\ pc' = "query"
             /\ UNCHANGED <<world, nodes, cache, temps>>
    BY <1>1, <1>3, FirstIsOpened DEF world
  <1>4. CASE pc' = "merge" /\ UNCHANGED <<world, nodes, cache, temps, frames>>
    BY <1>1, <1>4, QuietSearchKeeps DEF world, search, QuietSearch
  <1> QED
    BY <1>2, <1>3, <1>4 DEF geo_get

\* is_first begins.
LEMMA NextIsFirst ==
    ASSUME SearchInv, NEW d \in Devices, is_first(d)
    PROVE  SearchInv'
  <1>1. pc = "idle" /\ ~Ended
    BY DEF is_first, Ended
  <1>2. CASE Leave("died")
    BY <1>1, <1>2, LeaveKeeps
  <1>3. CASE frames' = <<Frame(Hd(0), FALSE)>> /\ pc' = "query"
             /\ UNCHANGED <<world, nodes, cache, temps>>
    BY <1>1, <1>3, FirstIsOpened, DevicesAreThere DEF world
  <1>4. CASE pc' = "merge" /\ UNCHANGED <<world, nodes, cache, temps, frames>>
    BY <1>1, <1>4, QuietSearchKeeps DEF world, search, QuietSearch
  <1> QED
    BY <1>2, <1>3, <1>4 DEF is_first

\* A line of the configuration ends the run, or opens nothing.
LEMMA NextConfig ==
    (\/ \E s \in Sections : do_disk(s)
     \/ \E d \in Devices, start \in Starts : do_partition(d, start)
     \/ \E lines \in DiskTabs : geo_init(lines))
      => (pc \in {"config", "section"} /\ Leave("died")) \/ QuietSearch
  BY DEF do_disk, do_partition, geo_init, QuietSearch, world, search

\* An answer ends the process or leaves the search alone.
LEMMA NextAnswer == Answer => (pc = "merge" /\ Leave("died")) \/ QuietSearch
  BY DEF Answer, QuietSearch, world, search

\* Each step keeps frames and nodes as described.
LEMMA NextSearch == SearchInv /\ [Next]_vars => SearchInv'
  <1> SUFFICES ASSUME SearchInv, [Next]_vars
               PROVE  SearchInv'
    OBVIOUS
  <1>1. CASE \/ \E s \in Sections : do_disk(s)
             \/ \E d \in Devices, start \in Starts : do_partition(d, start)
             \/ \E lines \in DiskTabs : geo_init(lines)
    BY <1>1, NextConfig, LeaveKeeps, QuietSearchKeeps DEF Ended
  <1>2. CASE \E d \in Devices : is_first(d) \/ geo_open(d) \/ geo_open_boot(d)
    BY <1>2, NextIsFirst, NextGet DEF geo_open, geo_open_boot
  <1>3. CASE lookup_dev \/ scan_dir \/ MakeNode \/ RegisterNode \/ OpenNode
    BY <1>3, NextLookup, NextScan, NextMake, NextRegister, NextOpen
  <1>4. CASE StartCount \/ CountDisk \/ QueryDevice
    BY <1>4, NextStartCount, NextCountDisk, NextQuery
  <1>5. CASE Answer
    BY <1>5, NextAnswer, LeaveKeeps, QuietSearchKeeps DEF Ended
  <1>6. CASE Fail \/ Exit
    BY <1>6, LeaveKeeps DEF Fail, Exit, Ended
  <1>7. CASE \E c \in Changes : NodeChanges(c)
    BY <1>7, NextNodeChanges
  <1>8. CASE UNCHANGED vars
    BY <1>8 DEF vars, world, search, SearchInv, FramesInv, NodesInv, NodeTypes, CacheFits,
       OthersStand, Ended, FrameStands, Apart, TempsListed, Listed, Ours, Own
  <1> QED
    BY <1>1, <1>2, <1>3, <1>4, <1>5, <1>6, <1>7, <1>8 DEF Next

\* Every node of /dev and /tmp is where others put it or belongs to a device that
\* is open, under whose name it stands, and what is registered is LILO's own.
THEOREM SearchInvariance == Spec => []SearchInv
  <1>1. Init => SearchInv
    BY InitSearch
  <1>2. SearchInv /\ [Next]_vars => SearchInv'
    BY NextSearch
  <1> QED
    BY <1>1, <1>2, PTL DEF Spec

\* dev_open: what is open is the device that was asked for, whatever the list of
\* customary names and the cache say and whoever changes nodes in between.
THEOREM DeviceIsTheOneAskedFor == Spec => []OpensTheDevice
  <1>1. SearchInv => OpensTheDevice
    <2> SUFFICES ASSUME SearchInv, NEW i \in DOMAIN frames, frames[i].phase = "opened"
                 PROVE  nodes[frames[i].name] = frames[i].dev
      BY DEF OpensTheDevice
    <2>1. i \in {1, 2} /\ i <= Len(frames)
      BY DEF SearchInv, FramesInv
    <2>2. Placed(frames[i])
      BY DEF Placed
    <2> QED
      BY <2>1, <2>2 DEF SearchInv, NodesInv, FrameStands
  <1> QED
    BY <1>1, SearchInvariance, PTL

\* dev_close, temp_remove, exit and die: between the questions and after the run
\* /dev and /tmp are as others left them, wherever the run ended, but for a node
\* made just before the end.
THEOREM NodesLeftAsFound == Spec => NodesAsFound
  <1>1. SearchInv /\ SearchInv' /\ [Next]_vars =>
            [pc' \in {"idle", "exited", "died"} /\ ~At("made") => nodes' = others']_vars
    <2> SUFFICES ASSUME SearchInv, SearchInv', Next,
                        pc' \in {"idle", "exited", "died"}, ~At("made")
                 PROVE  nodes' = others'
      OBVIOUS
    <2>1. CASE pc' = "idle"
      <3>1. NodesInv' /\ (frames = <<>>)' /\ ~(Ended')
        BY <2>1 DEF SearchInv, FramesInv, Ended
      <3> QED
        BY <3>1, AsFoundAfter
    <2>2. CASE ~Ended /\ \E how \in {"exited", "died"} : Leave(how)
      BY <2>2, LeaveKeeps
    <2>3. CASE Ended'
      <3>1. CASE \/ \E s \in Sections : do_disk(s)
                 \/ \E d \in Devices, start \in Starts : do_partition(d, start)
                 \/ \E lines \in DiskTabs : geo_init(lines)
        BY <2>3, <2>2, <3>1, NextConfig DEF Ended, QuietSearch
      <3>2. CASE \E d \in Devices : is_first(d) \/ geo_open(d) \/ geo_open_boot(d)
        BY <2>3, <2>2, <3>2 DEF is_first, geo_open, geo_open_boot, geo_get, Ended
      <3>3. CASE lookup_dev \/ scan_dir \/ MakeNode \/ RegisterNode \/ OpenNode \/ StartCount
        BY <2>3, <3>3 DEF lookup_dev, scan_dir, MakeNode, RegisterNode, OpenNode, StartCount,
           At, Ended
      <3>4. CASE CountDisk \/ QueryDevice
        BY <2>3, <3>4 DEF CountDisk, QueryDevice, At, Ended
      <3>5. CASE Answer
        BY <2>3, <2>2, <3>5, NextAnswer DEF Ended, QuietSearch
      <3>6. CASE Fail \/ Exit
        BY <2>2, <3>6 DEF Fail, Exit, Ended
      <3>7. CASE \E c \in Changes : NodeChanges(c)
        BY <2>3, <3>7 DEF NodeChanges, Ended
      <3> QED
        BY <3>1, <3>2, <3>3, <3>4, <3>5, <3>6, <3>7 DEF Next
    <2> QED
      BY <2>1, <2>2, <2>3 DEF Ended
  <1> QED
    BY <1>1, SearchInvariance, PTL DEF Spec, NodesAsFound

-----------------------------------------------------------------------------
(* The IDE disks that are counted.                                         *)

\* How many of the first two IDE disks there are, as last_dev counts them.
Count == IF Hd(0) \in present THEN IF Hd(1) \in present THEN 2 ELSE 1 ELSE 0

\* The questions whose answer depends on it.
Needed ==
    /\ BehindIde(call.dev) /\ Walk(call.dev).bios = Unset
    /\ call.op = "first" => call.dev.disk = 0 /\ Decided(call.dev)

\* A question is about a device that can be opened.
Asked ==
    pc \in {"query", "merge"} =>
        call.op \in {"get", "first"} /\ call.dev \in Devices /\ ~Inaccessible(call.dev)

\* The device around is the one that the question is about; the disk that is open
\* within it is the next one to be counted.
Counting ==
    pc = "query" =>
        /\ frames[1].opens = (call.op = "get")
        /\ frames[1].opens => frames[1].dev = call.dev
        /\ counting \in {"no", "yes", "done"}
        /\ counting = "yes" => ~Top.opens /\ devs \in {0, 1} /\ Top.dev = Hd(devs)
        /\ counting = "yes" => (devs = 1 => Hd(0) \in present)
        /\ counting = "no" => Top.opens /\ devs = 0
        /\ counting = "done" => Top.opens /\ devs = Count

\* The disks counted so far.
Counted == pc = "merge" /\ Needed => devs = Count

CountInv == Asked /\ Counting /\ Counted

\* The list of disks answers the same for as long as it is the same.
LEMMA SameWalk ==
    ASSUME UNCHANGED diskTab, NEW d
    PROVE  Walk(d)' = Walk(d) /\ Inaccessible(d)' = Inaccessible(d)
  BY DEF Walk, Found, diskTab, Inaccessible

\* The question stays.
SameQuestion == UNCHANGED <<world, diskTab, call>>

\* The question stays the same until it is answered.
LEMMA AskedStays ==
    ASSUME SameQuestion, Asked, pc \in {"query", "merge"}
    PROVE  Asked' /\ (Needed' <=> Needed) /\ Count' = Count
  <1>1. UNCHANGED diskTab /\ UNCHANGED <<call, present>>
    BY DEF SameQuestion, world
  <1>2. Walk(call.dev)' = Walk(call.dev) /\ Inaccessible(call.dev)' = Inaccessible(call.dev)
    BY <1>1, SameWalk
  <1>3. Needed' <=> Needed
    BY <1>1, <1>2 DEF Needed
  <1>4. Asked'
    BY <1>1, <1>2 DEF Asked
  <1>5. Count' = Count
    BY <1>1 DEF Count
  <1> QED
    BY <1>3, <1>4, <1>5

\* The search for a node goes on with the same device.
GoesOn ==
    /\ SameQuestion /\ UNCHANGED <<counter, pc>>
    /\ pc = "query"
    /\ \E f \in Frames : Becomes(f) /\ f.dev = Top.dev /\ f.opens = Top.opens

\* The steps of the search for a node belong to the question at hand.
LEMMA SearchGoesOn ==
    SearchInv /\ SearchInv'
    /\ (lookup_dev \/ scan_dir \/ MakeNode \/ RegisterNode \/ OpenNode) => GoesOn
  <1> SUFFICES ASSUME SearchInv, SearchInv',
                      lookup_dev \/ scan_dir \/ MakeNode \/ RegisterNode \/ OpenNode
               PROVE  GoesOn
    OBVIOUS
  <1>1. SameQuestion /\ UNCHANGED <<counter, pc>> /\ pc = "query" /\ frames # <<>>
    BY DEF lookup_dev, scan_dir, MakeNode, RegisterNode, OpenNode, SameQuestion, config, At
  <1>2. Top \in Frames /\ Len(frames) \in 1 .. 2 /\ frames \in Seq(Frames)
    BY <1>1 DEF SearchInv, FramesInv, Top
  <1>3. \E f : Becomes(f) /\ f.dev = Top.dev /\ f.opens = Top.opens
    <2>2. \/ \E p : Becomes([Top EXCEPT !.phase = p])
          \/ \E p, n : Becomes([Top EXCEPT !.phase = p, !.name = n])
          \/ \E p, n : Becomes([Top EXCEPT !.phase = p, !.name = n, !.delete = TRUE])
      <3>1. CASE lookup_dev
        BY <3>1 DEF lookup_dev
      <3>2. CASE scan_dir
        BY <3>2 DEF scan_dir
      <3>3. CASE MakeNode
        BY <3>3 DEF MakeNode
      <3>4. CASE RegisterNode \/ OpenNode
        BY <3>4 DEF RegisterNode, OpenNode
      <3> QED
        BY <3>1, <3>2, <3>3, <3>4
    <2>3. CASE \E p : Becomes([Top EXCEPT !.phase = p])
      <3>1. PICK p : Becomes([Top EXCEPT !.phase = p])
        BY <2>3
      <3> DEFINE f == [Top EXCEPT !.phase = p]
      <3>2. f.dev = Top.dev /\ f.opens = Top.opens
        BY <1>2 DEF Frames
      <3> HIDE DEF f
      <3> QED
        BY <3>1, <3>2 DEF f
    <2>4. CASE \E p, n : Becomes([Top EXCEPT !.phase = p, !.name = n])
      <3>1. PICK p, n : Becomes([Top EXCEPT !.phase = p, !.name = n])
        BY <2>4
      <3> DEFINE f == [Top EXCEPT !.phase = p, !.name = n]
      <3>2. f.dev = Top.dev /\ f.opens = Top.opens
        BY <1>2 DEF Frames
      <3> HIDE DEF f
      <3> QED
        BY <3>1, <3>2 DEF f
    <2>5. CASE \E p, n : Becomes([Top EXCEPT !.phase = p, !.name = n, !.delete = TRUE])
      <3>1. PICK p, n : Becomes([Top EXCEPT !.phase = p, !.name = n, !.delete = TRUE])
        BY <2>5
      <3> DEFINE f == [Top EXCEPT !.phase = p, !.name = n, !.delete = TRUE]
      <3>2. f.dev = Top.dev /\ f.opens = Top.opens
        BY <1>2 DEF Frames
      <3> HIDE DEF f
      <3> QED
        BY <3>1, <3>2 DEF f
    <2> QED
      BY <2>2, <2>3, <2>4, <2>5
  <1>4. ASSUME NEW f, Becomes(f)
        PROVE  f \in Frames
    <2>1. frames' = [frames EXCEPT ![Len(frames)] = f] /\ frames' \in Seq(Frames)
      BY <1>4 DEF Becomes, SearchInv, FramesInv
    <2>2. Len(frames) \in DOMAIN frames' /\ frames'[Len(frames)] = f
      BY <1>2, <2>1
    <2> QED
      BY <2>1, <2>2, ElementIn
  <1> QED
    BY <1>1, <1>3, <1>4 DEF GoesOn

\* They keep the count.
LEMMA GoesOnCounting ==
    ASSUME SearchInv, CountInv, GoesOn
    PROVE  CountInv'
  <1>1. PICK f \in Frames : Becomes(f) /\ f.dev = Top.dev /\ f.opens = Top.opens
    BY DEF GoesOn
  <1>2. /\ SameQuestion /\ pc = "query" /\ pc' = "query"
        /\ UNCHANGED <<call, present, counting, devs>>
    BY DEF GoesOn, SameQuestion, counter, world
  <1>3. frames # <<>>
    BY <1>2 DEF SearchInv, FramesInv
  <1>4. /\ Len(frames') = Len(frames) /\ frames' # <<>> /\ Len(frames) \in 1 .. 2
        /\ frames'[Len(frames)] = f
        /\ Len(frames) = 2 => frames'[1] = frames[1]
    BY <1>1, <1>3, BecomesIsLast DEF SearchInv
  <1>5. Top' = f /\ Top = frames[Len(frames)]
    BY <1>4 DEF Top
  <1>6. frames'[1].opens = frames[1].opens /\ frames'[1].dev = frames[1].dev
    BY <1>1, <1>4, <1>5
  <1>7. Asked' /\ Count' = Count
    BY <1>2, AskedStays DEF CountInv
  <1>8. Hd(devs)' = Hd(devs) /\ Hd(0)' = Hd(0)
    BY <1>2 DEF Hd
  <1>9. Counting'
    BY <1>1, <1>2, <1>5, <1>6, <1>7, <1>8 DEF CountInv, Counting
  <1> QED
    BY <1>2, <1>7, <1>9 DEF CountInv, Counted

\* The count of disks begins with the first.
LEMMA StartCounting ==
    ASSUME SearchInv, CountInv, StartCount
    PROVE  CountInv'
  <1> DEFINE f == Frame(Hd(0), FALSE)
  <1>1. f \in Frames /\ f.dev = Hd(0) /\ f.opens = FALSE
    BY FrameIsOne, DevicesAreThere
  <1>2. ~f.opens
    BY <1>1
  <1> HIDE DEF f
  <1>3. /\ At("opened") /\ Top.opens /\ frames' = Append(frames, f)
        /\ pc = "query" /\ pc' = "query"
        /\ SameQuestion /\ UNCHANGED <<call, present, devs>>
        /\ counting = "no" /\ counting' = "yes"
    BY DEF StartCount, f, world, config, SameQuestion, At
  <1>4. Len(frames) \in 1 .. 2 /\ Top = frames[Len(frames)] /\ frames \in Seq(Frames)
    BY <1>3, TopIsLast DEF SearchInv, FramesInv
  <1>5. Len(frames) = 1
    BY <1>3, <1>4 DEF SearchInv, FramesInv
  <1>6. Len(frames') = 2 /\ frames'[1] = frames[1] /\ frames'[2] = f
    BY <1>1, <1>3, <1>4, <1>5, TwoOfOne
  <1>7. Top' = f /\ ~(Top'.opens)
    BY <1>2, <1>6 DEF Top
  <1>8. Asked' /\ Count' = Count
    BY <1>3, AskedStays DEF CountInv
  <1>9. devs = 0 /\ frames[1].opens = (call.op = "get") /\ frames[1].dev = call.dev
    BY <1>3, <1>4, <1>5 DEF CountInv, Counting
  <1>10. Top'.dev = Hd(0) /\ Hd(devs)' = Hd(0)
    BY <1>1, <1>3, <1>7, <1>9 DEF Hd
  <1>11. Counting'
    BY <1>3, <1>6, <1>7, <1>9, <1>10 DEF Counting
  <1> QED
    BY <1>3, <1>8, <1>11 DEF CountInv, Counted

\* A disk exists if its node can be opened, and then the next one is looked for.
LEMMA CountsDisk ==
    ASSUME SearchInv, CountInv, CountDisk, SearchInv'
    PROVE  CountInv'
  <1> DEFINE f == Frame(Hd(1), FALSE)
  <1>1. f \in Frames /\ f.dev = Hd(1) /\ f.opens = FALSE
    BY FrameIsOne, DevicesAreThere
  <1>2. ~f.opens
    BY <1>1
  <1> HIDE DEF f
  <1>3. /\ At("opened") /\ ~Top.opens /\ pc = "query"
        /\ SameQuestion /\ UNCHANGED <<call, present>>
    BY DEF CountDisk, world, config, SameQuestion, At
  <1>4. /\ Len(frames) \in 1 .. 2 /\ Top = frames[Len(frames)] /\ Top.phase = "opened"
        /\ frames \in Seq(Frames)
    BY <1>3, TopIsLast DEF SearchInv, FramesInv
  <1>5. counting = "yes" /\ devs \in {0, 1} /\ Top.dev = Hd(devs) /\ (devs = 1 => Hd(0) \in present)
    BY <1>3 DEF CountInv, Counting
  <1>6. nodes[Top.name] = Hd(devs)
    <2>1. Placed(Top)
      BY <1>4 DEF Placed
    <2> QED
      BY <1>4, <1>5, <2>1 DEF SearchInv, NodesInv, FrameStands
  <1>7. Asked' /\ Count' = Count /\ (Needed' <=> Needed)
    BY <1>3, AskedStays DEF CountInv
  <1>8. CASE /\ Hd(0) \in present /\ devs = 0 /\ devs' = 1 /\ counting' = "yes"
             /\ frames' = Front(frames) \o <<f>> /\ pc' = IF frames' = <<>> THEN "merge" ELSE pc
    <2>1. CASE Len(frames) = 1
      <3>1. frames' = <<f>>
        BY <1>1, <1>4, <1>8, <2>1, NoneOfOne
      <3>2. pc' = "query" /\ Top' = f
        BY <1>3, <1>8, <3>1 DEF Top
      <3>3. frames[1].opens = (call.op = "get") /\ ~frames[1].opens
        BY <1>3, <1>4, <2>1 DEF CountInv, Counting
      <3>4. ~(frames'[1].opens) /\ call.op # "get"
        BY <1>2, <3>1, <3>3
      <3>5. frames'[1].opens = FALSE
        BY <1>1, <3>1
      <3>6. Top'.dev = Hd(1) /\ Hd(devs)' = Hd(1) /\ Hd(0)' = Hd(0)
        BY <1>1, <1>8, <3>2 DEF Hd
      <3>7. Counting'
        <4>1. frames'[1].opens = (call'.op = "get")
          BY <1>3, <3>4, <3>5
        <4>2. ~(Top'.opens)
          BY <1>2, <3>2
        <4> QED
          BY <1>3, <1>8, <3>4, <3>6, <4>1, <4>2 DEF Counting
      <3> QED
        BY <1>7, <3>2, <3>7 DEF CountInv, Counted
    <2>2. CASE Len(frames) = 2
      <3>1. frames' = <<frames[1], f>>
        BY <1>1, <1>4, <1>8, <2>2, OneOfTwo
      <3>2. pc' = "query" /\ Top' = f /\ frames'[1] = frames[1]
        BY <1>3, <1>8, <3>1 DEF Top
      <3>3. frames[1].opens = (call.op = "get") /\ (frames[1].opens => frames[1].dev = call.dev)
        BY <1>3 DEF CountInv, Counting
      <3>4. Top'.dev = Hd(1) /\ Hd(devs)' = Hd(1) /\ Hd(0)' = Hd(0) /\ ~(Top'.opens)
        BY <1>1, <1>2, <1>8, <3>2 DEF Hd
      <3>5. Counting'
        BY <1>3, <1>8, <3>2, <3>3, <3>4 DEF Counting
      <3> QED
        BY <1>7, <3>2, <3>5 DEF CountInv, Counted
    <2> QED
      BY <1>4, <2>1, <2>2
  <1>9. CASE /\ devs' = Count /\ counting' = "done" /\ frames' = Front(frames) \o <<>>
             /\ pc' = IF frames' = <<>> THEN "merge" ELSE pc
    <2>1. CASE Len(frames) = 1
      <3>1. frames' = <<>>
        BY <1>4, <1>9, <2>1, NoneOfOne
      <3>2. pc' = "merge"
        BY <1>9, <3>1
      <3> QED
        BY <1>7, <1>9, <3>2 DEF CountInv, Counting, Counted
    <2>2. CASE Len(frames) = 2
      <3>1. frames' = <<frames[1]>>
        <4>1. Front(frames) \o <<>> = <<frames[1]>>
          BY <1>4, <2>2, OneOfTwo
        <4>2. frames' = Front(frames) \o <<>>
          BY <1>9
        <4> QED
          BY <4>1, <4>2
      <3>2. pc' = "query" /\ Top' = frames[1] /\ frames'[1] = frames[1]
        <4>1. frames' # <<>> /\ Len(frames') = 1 /\ frames'[1] = frames[1]
          BY <3>1
        <4>2. Top' = frames[1]
          BY <4>1 DEF Top
        <4> QED
          BY <1>3, <1>9, <4>1, <4>2
      <3>3. frames[1].opens
        BY <2>2 DEF SearchInv, FramesInv
      <3>4. frames[1].opens = (call.op = "get") /\ (frames[1].opens => frames[1].dev = call.dev)
        BY <1>3 DEF CountInv, Counting
      <3>5. Counting'
        BY <1>3, <1>7, <1>9, <3>2, <3>3, <3>4 DEF Counting
      <3> QED
        BY <1>7, <3>2, <3>5 DEF CountInv, Counted
    <2> QED
      BY <1>4, <2>1, <2>2
  <1>10. CASE nodes[Top.name] \in present /\ devs = 0
    <2>1. Hd(0) \in present
      BY <1>6, <1>10
    <2> QED
      BY <1>8, <1>10, <2>1 DEF CountDisk, f
  <1>11. CASE ~(nodes[Top.name] \in present /\ devs = 0)
    <2>1. /\ devs' = IF nodes[Top.name] \in present THEN devs + 1 ELSE devs
          /\ frames' = Front(frames) \o <<>> /\ counting' = "done"
          /\ pc' = IF frames' = <<>> THEN "merge" ELSE pc
      BY <1>11 DEF CountDisk
    <2>2. devs' = Count
      <3>1. CASE devs = 0
        BY <1>6, <1>11, <2>1, <3>1 DEF Count
      <3>2. CASE devs = 1
        BY <1>5, <1>6, <2>1, <3>2 DEF Count
      <3> QED
        BY <1>5, <3>1, <3>2
    <2> QED
      BY <1>9, <2>1, <2>2
  <1> QED
    BY <1>10, <1>11

\* A disk that answers is counted.
LEMMA QueryCounts ==
    ASSUME SearchInv, CountInv, QueryDevice
    PROVE  CountInv'
  <1>1. /\ At("opened") /\ Top.opens /\ pc = "query" /\ pc' = "merge"
        /\ BehindIde(Top.dev) => counting = "done"
        /\ SameQuestion /\ UNCHANGED <<call, devs>>
    BY DEF QueryDevice, world, config, SameQuestion, At, counter
  <1>2. Len(frames) = 1 /\ Top = frames[1]
    <2>1. Len(frames) \in 1 .. 2 /\ Top = frames[Len(frames)]
      BY <1>1, TopIsLast DEF SearchInv
    <2> QED
      BY <1>1, <2>1 DEF SearchInv, FramesInv
  <1>3. Top.dev = call.dev
    BY <1>1, <1>2 DEF CountInv, Counting
  <1>4. Asked' /\ Count' = Count /\ (Needed' <=> Needed)
    BY <1>1, AskedStays DEF CountInv
  <1>5. Needed => devs = Count
    BY <1>1, <1>3 DEF CountInv, Counting, Needed
  <1>6. Counted'
    BY <1>1, <1>4, <1>5 DEF Counted
  <1> QED
    BY <1>1, <1>4, <1>6 DEF CountInv, Counting

\* A step after which no question is being asked.
LEMMA NobodyAsks ==
    ASSUME pc' \notin {"query", "merge"}
    PROVE  CountInv'
  BY DEF CountInv, Asked, Counting, Counted

\* geo_get asks its question.
LEMMA GetAsks ==
    ASSUME SearchInv, NEW d \in Devices, NEW all \in BOOLEAN, geo_get(d, all)
    PROVE  CountInv'
  <1>1. CASE Leave("died")
    BY <1>1, NobodyAsks DEF Leave
  <1>2. CASE /\ ~Inaccessible(d) /\ call' = [op |-> "get", dev |-> d, all |-> all]
             /\ counting' = "no" /\ devs' = 0 /\ UNCHANGED <<world, config>>
             /\ IF keep_cyls(d) /\ (all \/ d.major # "fd")
                THEN frames' = <<Frame(d, TRUE)>> /\ pc' = "query"
                ELSE pc' = "merge" /\ UNCHANGED frames
    <2>1. call'.op = "get" /\ call'.dev = d
      BY <1>2
    <2>2. Walk(d)' = Walk(d) /\ Inaccessible(d)' = Inaccessible(d)
      BY <1>2, SameWalk DEF config
    <2>3. Asked'
      BY <1>2, <2>1, <2>2 DEF Asked
    <2>4. CASE keep_cyls(d) /\ (all \/ d.major # "fd")
      <3> DEFINE f == Frame(d, TRUE)
      <3>1. f.dev = d /\ f.opens = TRUE
        BY FrameIsOne
      <3> HIDE DEF f
      <3>2. frames' = <<f>> /\ pc' = "query"
        BY <1>2, <2>4 DEF f
      <3>3. Top' = f /\ frames'[1] = f
        BY <3>2 DEF Top
      <3>4. f.opens /\ frames'[1].opens = (call'.op = "get")
        <4>1. (call'.op = "get") = TRUE
          BY <2>1
        <4> QED
          BY <3>1, <3>3, <4>1
      <3>5. Counting'
        BY <1>2, <2>1, <3>1, <3>2, <3>3, <3>4 DEF Counting
      <3> QED
        BY <2>3, <3>2, <3>5 DEF CountInv, Counted
    <2>5. CASE ~(keep_cyls(d) /\ (all \/ d.major # "fd"))
      <3>1. pc' = "merge"
        BY <1>2, <2>5
      <3>2. ~(Needed')
        <4>1. BehindIde(d) => d.major # "fd"
          BY DEF BehindIde
        <4>2. Walk(d).bios = Unset => keep_cyls(d)
          BY DEF keep_cyls
        <4> QED
          BY <2>1, <2>2, <2>5, <4>1, <4>2 DEF Needed
      <3> QED
        BY <2>3, <3>1, <3>2 DEF CountInv, Counting, Counted
    <2> QED
      BY <2>4, <2>5
  <1> QED
    BY <1>1, <1>2 DEF geo_get

\* is_first asks its question.
LEMMA FirstAsks ==
    ASSUME SearchInv, NEW d \in Devices, is_first(d)
    PROVE  CountInv'
  <1>1. CASE Leave("died")
    BY <1>1, NobodyAsks DEF Leave
  <1>2. CASE /\ ~Inaccessible(d) /\ call' = [op |-> "first", dev |-> d, all |-> FALSE]
             /\ devs' = 0 /\ UNCHANGED <<world, config>>
             /\ IF Walk(d).bios = Unset /\ Decided(d) /\ BehindIde(d) /\ d.disk = 0
                THEN frames' = <<Frame(Hd(0), FALSE)>> /\ counting' = "yes" /\ pc' = "query"
                ELSE pc' = "merge" /\ counting' = "no" /\ UNCHANGED frames
    <2>1. call'.op = "first" /\ call'.dev = d
      BY <1>2
    <2>2. Walk(d)' = Walk(d) /\ Inaccessible(d)' = Inaccessible(d)
      BY <1>2, SameWalk DEF config
    <2>3. Asked'
      BY <1>2, <2>1, <2>2 DEF Asked
    <2>4. CASE Walk(d).bios = Unset /\ Decided(d) /\ BehindIde(d) /\ d.disk = 0
      <3> DEFINE f == Frame(Hd(0), FALSE)
      <3>1. f.dev = Hd(0) /\ f.opens = FALSE
        BY FrameIsOne, DevicesAreThere
      <3> HIDE DEF f
      <3>2. frames' = <<f>> /\ pc' = "query" /\ counting' = "yes"
        BY <1>2, <2>4 DEF f
      <3>3. Top' = f /\ frames'[1] = f
        BY <3>2 DEF Top
      <3>4. ~f.opens /\ frames'[1].opens = (call'.op = "get")
        <4>1. (call'.op = "get") = FALSE
          BY <2>1
        <4> QED
          BY <3>1, <3>3, <4>1
      <3>5. Hd(devs)' = Hd(0)
        BY <1>2 DEF Hd
      <3>6. Counting'
        BY <1>2, <3>1, <3>2, <3>3, <3>4, <3>5 DEF Counting
      <3> QED
        BY <2>3, <3>2, <3>6 DEF CountInv, Counted
    <2>5. CASE ~(Walk(d).bios = Unset /\ Decided(d) /\ BehindIde(d) /\ d.disk = 0)
      <3>1. pc' = "merge"
        BY <1>2, <2>5
      <3>2. ~(Needed')
        BY <2>1, <2>2, <2>5 DEF Needed
      <3> QED
        BY <2>3, <3>1, <3>2 DEF CountInv, Counting, Counted
    <2> QED
      BY <2>4, <2>5
  <1> QED
    BY <1>1, <1>2 DEF is_first

\* Each step keeps count as described.
LEMMA NextCount == SearchInv /\ SearchInv' /\ CountInv /\ [Next]_vars => CountInv'
  <1> SUFFICES ASSUME SearchInv, SearchInv', CountInv, [Next]_vars
               PROVE  CountInv'
    OBVIOUS
  <1>1. CASE \/ \E s \in Sections : do_disk(s)
             \/ \E d \in Devices, start \in Starts : do_partition(d, start)
             \/ \E lines \in DiskTabs : geo_init(lines)
    <2>1. pc' \notin {"query", "merge"}
      BY <1>1 DEF do_disk, do_partition, geo_init, Leave
    <2> QED
      BY <2>1, NobodyAsks
  <1>2. CASE \E d \in Devices : is_first(d) \/ geo_open(d) \/ geo_open_boot(d)
    BY <1>2, FirstAsks, GetAsks DEF geo_open, geo_open_boot
  <1>3. CASE lookup_dev \/ scan_dir \/ MakeNode \/ RegisterNode \/ OpenNode
    BY <1>3, SearchGoesOn, GoesOnCounting
  <1>4. CASE StartCount \/ CountDisk \/ QueryDevice
    BY <1>4, StartCounting, CountsDisk, QueryCounts
  <1>5. CASE Answer \/ Fail \/ Exit
    <2>1. pc' \notin {"query", "merge"}
      BY <1>5 DEF Answer, Fail, Exit, Leave
    <2> QED
      BY <2>1, NobodyAsks
  <1>6. CASE \E c \in Changes : NodeChanges(c)
    <2>1. pc' \notin {"query", "merge"}
      BY <1>6 DEF NodeChanges
    <2> QED
      BY <2>1, NobodyAsks
  <1>7. CASE UNCHANGED vars
    <2>1. UNCHANGED <<pc, counting, devs, present, call, frames>> /\ SameQuestion
      BY <1>7 DEF vars, world, config, search, counter, SameQuestion
    <2>2. Top' = Top
      BY <2>1 DEF Top
    <2>3. CASE pc \in {"query", "merge"}
      <3>1. Asked' /\ Count' = Count /\ (Needed' <=> Needed)
        BY <2>1, <2>3, AskedStays DEF CountInv
      <3>2. Counting'
        BY <2>1, <2>2, <3>1 DEF CountInv, Counting, Hd
      <3>3. Counted'
        BY <2>1, <3>1 DEF CountInv, Counted
      <3> QED
        BY <3>1, <3>2, <3>3 DEF CountInv
    <2>4. CASE pc \notin {"query", "merge"}
      BY <2>1, <2>4, NobodyAsks
    <2> QED
      BY <2>3, <2>4
  <1> QED
    BY <1>1, <1>2, <1>3, <1>4, <1>5, <1>6, <1>7 DEF Next

-----------------------------------------------------------------------------
(* The answers.                                                            *)

\* is_first and the drive number of geo_query_dev, with the disks that there are.
FirstOf(d) ==
    Decided(d) => IF d.major = "fd" THEN d.part % 4 = 0 ELSE d.disk = 0 /\ (BehindIde(d) => Count = 0)
GuessOf(d) ==
    IF d.major = "fd" THEN d.part % 4 ELSE 128 + d.disk + (IF BehindIde(d) THEN Count ELSE 0)

FirstAnswered ==
    first.dev # NoDevice =>
        /\ first.dev \in Devices
        /\ first.yes <=> IF Walk(first.dev).bios # Unset THEN Walk(first.dev).bios % 128 = 0
                         ELSE FirstOf(first.dev)

\* What the entry leaves open is as the kernel says.
GeometryAnswered(d) ==
    /\ ~Inaccessible(d)
    /\ (d.major = "fd" => geo.all) =>
        /\ geo.found.heads = Given(Walk(d).heads, Kernel[d].heads)
        /\ geo.found.sectors = Given(Walk(d).sectors, Kernel[d].sectors)
        /\ Walk(d).cylinders # Unset => geo.found.cylinders = Walk(d).cylinders
        /\ geo.found.start = StartOf(d, Kernel[d])

GeoAnswered ==
    geo.dev # NoDevice =>
        /\ geo.dev \in Devices
        /\ geo.found.bios = Given(Walk(geo.dev).bios, GuessOf(geo.dev))
        /\ GeometryAnswered(geo.dev)

\* There is no answer before the list of disks is complete.
NotYet == pc \in {"config", "section"} => first.dev = NoDevice /\ geo.dev = NoDevice

AnswersInv == NotYet /\ FirstAnswered /\ GeoAnswered

\* A step that answers nothing and leaves alone what the answers rest on.
SameAnswers ==
    /\ UNCHANGED <<answers, present, diskTab>>
    /\ pc' \in {"config", "section"} => pc \in {"config", "section"}

\* An answer holds as long as the disks and their list do.
LEMMA FirstStays ==
    ASSUME FirstAnswered, UNCHANGED <<first, present>>, UNCHANGED diskTab
    PROVE  FirstAnswered'
  <1>1. Count' = Count
    BY DEF Count, Hd
  <1>2. Walk(first.dev)' = Walk(first.dev)
    BY SameWalk
  <1>3. FirstOf(first.dev)' <=> FirstOf(first.dev)
    BY <1>1 DEF FirstOf, BehindIde
  <1> QED
    BY <1>2, <1>3 DEF FirstAnswered

\* The same for geo_get.
LEMMA GeoStays ==
    ASSUME GeoAnswered, UNCHANGED <<geo, present>>, UNCHANGED diskTab
    PROVE  GeoAnswered'
  <1>1. Count' = Count
    BY DEF Count, Hd
  <1>2. Walk(geo.dev)' = Walk(geo.dev) /\ Inaccessible(geo.dev)' = Inaccessible(geo.dev)
    BY SameWalk
  <1>3. GuessOf(geo.dev)' = GuessOf(geo.dev)
    BY <1>1 DEF GuessOf, BehindIde
  <1>4. StartOf(geo.dev, Kernel[geo.dev])' = StartOf(geo.dev, Kernel[geo.dev])
    BY <1>2 DEF StartOf, Inherited, Known, diskTab
  <1>5. GeometryAnswered(geo.dev)' <=> GeometryAnswered(geo.dev)
    BY <1>2, <1>4 DEF GeometryAnswered
  <1> QED
    BY <1>2, <1>3, <1>5 DEF GeoAnswered

\* No answer is given.
LEMMA SameAnswersKeep == AnswersInv /\ SameAnswers => AnswersInv'
  <1> SUFFICES ASSUME AnswersInv, SameAnswers
               PROVE  AnswersInv'
    OBVIOUS
  <1>1. UNCHANGED <<first, geo, present>> /\ UNCHANGED diskTab
    BY DEF SameAnswers, answers
  <1>2. FirstAnswered' /\ GeoAnswered'
    BY <1>1, FirstStays, GeoStays DEF AnswersInv
  <1>3. NotYet'
    BY <1>1 DEF SameAnswers, AnswersInv, NotYet
  <1> QED
    BY <1>2, <1>3 DEF AnswersInv

\* The end of the run, after which there is no answer.
LEMMA LeaveAnswersNothing ==
    ASSUME NEW how, Leave(how)
    PROVE  AnswersInv'
  <1>1. first'.dev = NoDevice /\ geo'.dev = NoDevice
    BY DEF Leave, NoAnswer
  <1> QED
    BY <1>1 DEF AnswersInv, NotYet, FirstAnswered, GeoAnswered

\* Is it the first disk?
AnswerFirst ==
    /\ call.op = "first"
    /\ first' = [dev |-> call.dev,
                 yes |-> IF Walk(call.dev).bios # Unset THEN Walk(call.dev).bios % 128 = 0
                         ELSE IsFirstOf(call.dev)]
    /\ UNCHANGED geo

\* is_first answers.
LEMMA AnswersFirst ==
    ASSUME CountInv, AnswersInv, pc = "merge", pc' = "idle", UNCHANGED <<world, config>>,
           AnswerFirst
    PROVE  AnswersInv'
  <1>1. call.dev \in Devices /\ call.op = "first" /\ (Needed => devs = Count)
    BY DEF CountInv, Asked, Counted, AnswerFirst
  <1>2. UNCHANGED present /\ UNCHANGED diskTab
    BY DEF world, config
  <1>3. Count' = Count
    BY <1>2 DEF Count, Hd
  <1>4. Walk(call.dev).bios = Unset => (IsFirstOf(call.dev) <=> FirstOf(call.dev))
    BY <1>1 DEF IsFirstOf, FirstOf, Needed
  <1>5. first'.dev = call.dev
        /\ (first'.yes <=> IF Walk(call.dev).bios # Unset THEN Walk(call.dev).bios % 128 = 0
                           ELSE FirstOf(call.dev))
    BY <1>4 DEF AnswerFirst
  <1>6. ASSUME NEW d
        PROVE  Walk(d)' = Walk(d) /\ (FirstOf(d)' <=> FirstOf(d))
    BY <1>2, <1>3, SameWalk DEF FirstOf, BehindIde
  <1>7. FirstAnswered'
    BY <1>1, <1>5, <1>6 DEF FirstAnswered
  <1>8. GeoAnswered'
    BY <1>2, GeoStays DEF AnswersInv, AnswerFirst
  <1> QED
    BY <1>7, <1>8 DEF AnswersInv, NotYet

\* What drive and geometry does it have?
AnswerGet ==
    /\ call.op = "get"
    /\ geo' = [dev |-> call.dev, all |-> call.all, found |-> Answered(call.dev)]
    /\ UNCHANGED first

\* geo_get answers.
LEMMA AnswersGet ==
    ASSUME CountInv, AnswersInv, pc = "merge", pc' = "idle", UNCHANGED <<world, config>>,
           AnswerGet
    PROVE  AnswersInv'
  <1>1. /\ call.dev \in Devices /\ call.op = "get" /\ (Needed => devs = Count)
        /\ ~Inaccessible(call.dev)
    BY DEF CountInv, Asked, Counted, AnswerGet
  <1>2. UNCHANGED present /\ UNCHANGED diskTab
    BY DEF world, config
  <1>3. Count' = Count
    BY <1>2 DEF Count, Hd
  <1>0. PICK d \in Devices : d = call.dev
    BY <1>1
  <1>4. geo'.dev = d /\ geo'.all = call.all /\ geo'.found = Answered(d)
    BY <1>0 DEF AnswerGet
  <1>5. /\ Answered(d).bios = Given(Walk(d).bios, Guess(d))
        /\ Answered(d).heads = Given(Walk(d).heads, Reported(d).heads)
        /\ Answered(d).sectors = Given(Walk(d).sectors, Reported(d).sectors)
        /\ Walk(d).cylinders # Unset => Answered(d).cylinders = Walk(d).cylinders
        /\ Answered(d).start = StartOf(d, Reported(d))
    BY DEF Answered, Merged, Given, Reported
  <1>6. Given(Walk(d).bios, Guess(d)) = Given(Walk(d).bios, GuessOf(d))
    BY <1>0, <1>1 DEF Guess, GuessOf, Given, Needed
  <1>7. (d.major = "fd" => call.all) =>
            /\ Reported(d).heads = Kernel[d].heads
            /\ Reported(d).sectors = Kernel[d].sectors
            /\ Reported(d).start = Kernel[d].start
    BY DEF Reported
  <1>8. (d.major = "fd" => call.all) => StartOf(d, Reported(d)) = StartOf(d, Kernel[d])
    BY <1>7 DEF StartOf
  <1>9. ASSUME NEW e
        PROVE  /\ Walk(e)' = Walk(e) /\ Inaccessible(e)' = Inaccessible(e)
               /\ GuessOf(e)' = GuessOf(e)
               /\ StartOf(e, Kernel[e])' = StartOf(e, Kernel[e])
    <2>1. Walk(e)' = Walk(e) /\ Inaccessible(e)' = Inaccessible(e)
      BY <1>2, SameWalk
    <2>2. GuessOf(e)' = GuessOf(e)
      BY <1>3 DEF GuessOf, BehindIde
    <2>3. StartOf(e, Kernel[e])' = StartOf(e, Kernel[e])
      BY <1>2, <2>1 DEF StartOf, Inherited, Known, diskTab
    <2> QED
      BY <2>1, <2>2, <2>3
  <1>10. GeoAnswered'
    <2>1. geo'.found.bios = Given(Walk(d)'.bios, GuessOf(d)')
      BY <1>4, <1>5, <1>6, <1>9
    <2>2. /\ ~(Inaccessible(d)')
          /\ (d.major = "fd" => geo'.all) =>
                /\ geo'.found.heads = Given(Walk(d)'.heads, Kernel[d].heads)
                /\ geo'.found.sectors = Given(Walk(d)'.sectors, Kernel[d].sectors)
                /\ Walk(d)'.cylinders # Unset => geo'.found.cylinders = Walk(d)'.cylinders
                /\ geo'.found.start = StartOf(d, Kernel[d])
      BY <1>0, <1>1, <1>4, <1>5, <1>7, <1>8, <1>9
    <2> QED
      BY <1>1, <1>4, <1>9, <2>1, <2>2 DEF GeoAnswered, GeometryAnswered
  <1>11. FirstAnswered'
    BY <1>2, FirstStays DEF AnswersInv, AnswerGet
  <1> QED
    BY <1>10, <1>11 DEF AnswersInv, NotYet

\* Each step keeps the answers as described.
LEMMA NextAnswers == CountInv /\ AnswersInv /\ [Next]_vars => AnswersInv'
  <1> SUFFICES ASSUME CountInv, AnswersInv, [Next]_vars
               PROVE  AnswersInv'
    OBVIOUS
  <1>1. CASE \/ \E s \in Sections : do_disk(s)
             \/ \E d \in Devices, start \in Starts : do_partition(d, start)
             \/ \E lines \in DiskTabs : geo_init(lines)
    <2>1. CASE \E how \in {"exited", "died"} : Leave(how)
      BY <2>1, LeaveAnswersNothing
    <2>2. CASE pc \in {"config", "section"} /\ UNCHANGED answers
      BY <2>2 DEF answers, AnswersInv, NotYet, FirstAnswered, GeoAnswered
    <2> QED
      BY <1>1, <2>1, <2>2 DEF do_disk, do_partition, geo_init
  <1>2. CASE \E d \in Devices : is_first(d) \/ geo_open(d) \/ geo_open_boot(d)
    <2>1. CASE \E how \in {"exited", "died"} : Leave(how)
      BY <2>1, LeaveAnswersNothing
    <2>2. CASE UNCHANGED <<world, config, answers>> /\ pc' \in {"query", "merge"}
      BY <2>2, SameAnswersKeep DEF SameAnswers, world, config
    <2> QED
      BY <1>2, <2>1, <2>2 DEF is_first, geo_open, geo_open_boot, geo_get
  <1>3. CASE lookup_dev \/ scan_dir \/ MakeNode \/ RegisterNode \/ OpenNode
             \/ StartCount \/ CountDisk \/ QueryDevice
    <2>1. /\ UNCHANGED <<world, config, answers>>
          /\ pc' \in {"config", "section"} => pc \in {"config", "section"}
      BY <1>3 DEF lookup_dev, scan_dir, MakeNode, RegisterNode, OpenNode, StartCount, CountDisk,
         QueryDevice
    <2> QED
      BY <2>1, SameAnswersKeep DEF SameAnswers, world, config
  <1>4. CASE Answer
    <2>1. CASE \E how \in {"exited", "died"} : Leave(how)
      BY <2>1, LeaveAnswersNothing
    <2>2. CASE /\ pc = "merge" /\ pc' = "idle" /\ UNCHANGED <<world, config>>
               /\ AnswerFirst \/ AnswerGet
      BY <2>2, AnswersFirst, AnswersGet
    <2> QED
      BY <1>4, <2>1, <2>2 DEF Answer, AnswerFirst, AnswerGet
  <1>5. CASE Fail \/ Exit
    BY <1>5, LeaveAnswersNothing DEF Fail, Exit
  <1>6. CASE \E c \in Changes : NodeChanges(c)
    <2>1. UNCHANGED <<present, config, answers, pc>>
      BY <1>6 DEF NodeChanges
    <2> QED
      BY <2>1, SameAnswersKeep DEF SameAnswers, config
  <1>7. CASE UNCHANGED vars
    <2>1. SameAnswers
      BY <1>7 DEF vars, world, config, SameAnswers
    <2> QED
      BY <2>1, SameAnswersKeep
  <1> QED
    BY <1>1, <1>2, <1>3, <1>4, <1>5, <1>6, <1>7 DEF Next

\* While a question is asked, the disks are counted right, and every answer is
\* what the list of disks, the kernel and the number of IDE disks make of it.
THEOREM AnswersInvariance == Spec => [](CountInv /\ AnswersInv)
  <1>1. Init => CountInv /\ AnswersInv
    BY DEF Init, NoAnswer, CountInv, Asked, Counting, Counted, AnswersInv, NotYet, FirstAnswered,
       GeoAnswered
  <1>2. SearchInv /\ SearchInv' /\ CountInv /\ AnswersInv /\ [Next]_vars
            => CountInv' /\ AnswersInv'
    BY NextCount, NextAnswers
  <1> QED
    BY <1>1, <1>2, SearchInvariance, PTL DEF Spec

\* A disk is the first one exactly if its number is one of a first drive.
LEMMA FirstHasNumberZero ==
    ASSUME NEW d \in Devices, Decided(d)
    PROVE  FirstOf(d) <=> GuessOf(d) % 128 = 0
  <1>1. d.disk \in 0 .. 15 /\ d.part \in 0 .. 15 /\ Count \in 0 .. 2
    BY DeviceAssumption DEF Count
  <1>2. CASE d.major = "fd"
    <2>1. d.part % 4 \in 0 .. 3
      BY <1>1
    <2>2. \A k \in 0 .. 3 : k % 128 = k
      OBVIOUS
    <2> QED
      BY <1>2, <2>1, <2>2 DEF FirstOf, GuessOf
  <1>3. CASE d.major # "fd"
    <2>1. \A k \in 0 .. 17 : (128 + k) % 128 = k
      OBVIOUS
    <2>2. PICK n \in 0 .. 2 : n = IF BehindIde(d) THEN Count ELSE 0
      BY <1>1
    <2>3. GuessOf(d) = 128 + (d.disk + n)
      BY <1>1, <1>3, <2>2 DEF GuessOf
    <2>4. GuessOf(d) % 128 = d.disk + n
      BY <1>1, <2>1, <2>3
    <2>5. FirstOf(d) <=> d.disk = 0 /\ n = 0
      BY <1>1, <1>3, <2>2 DEF FirstOf
    <2> QED
      BY <1>1, <2>4, <2>5
  <1> QED
    BY <1>2, <1>3

\* is_first and geo_query_dev: the warning of an image that is not on the first
\* disk agrees with the number that its boot sector gets, for every list of disks
\* and every number of IDE disks, if is_first has a case for the driver or a DISK
\* section gives the number.
THEOREM FirstAgreesWithNumber == Spec => []IsFirstAgrees
  <1>1. CountInv /\ AnswersInv => IsFirstAgrees
    <2> SUFFICES ASSUME AnswersInv, first.dev = geo.dev, first.dev # NoDevice,
                        Decided(first.dev) \/ Walk(first.dev).bios # Unset
                 PROVE  first.yes <=> geo.found.bios % 128 = 0
      BY DEF IsFirstAgrees
    <2>1. PICK d \in Devices : d = geo.dev /\ d = first.dev
      BY DEF AnswersInv, GeoAnswered
    <2>2. /\ geo.found.bios = Given(Walk(d).bios, GuessOf(d))
          /\ first.yes <=> IF Walk(d).bios # Unset THEN Walk(d).bios % 128 = 0 ELSE FirstOf(d)
      BY <2>1 DEF AnswersInv, GeoAnswered, FirstAnswered
    <2>3. CASE Walk(d).bios # Unset
      BY <2>2, <2>3 DEF Given
    <2>4. CASE Walk(d).bios = Unset
      BY <2>1, <2>2, <2>4, FirstHasNumberZero DEF Given
    <2> QED
      BY <2>3, <2>4
  <1> QED
    BY <1>1, AnswersInvariance, PTL

-----------------------------------------------------------------------------
(* The list of disks.                                                      *)

\* What a list with another element at its front, at its end or in the place of
\* its last one holds.
LEMMA RangeOfCons ==
    ASSUME NEW T, NEW t \in Seq(T), NEW e \in T
    PROVE  /\ <<e>> \o t \in Seq(T) /\ <<e>> \o t # <<>> /\ (<<e>> \o t)[1] = e
           /\ Range(<<e>> \o t) = {e} \cup Range(t)
  <1>1. /\ <<e>> \in Seq(T) /\ Len(<<e>>) = 1 /\ <<e>>[1] = e
    OBVIOUS
  <1>2. /\ <<e>> \o t \in Seq(T) /\ Len(<<e>> \o t) = 1 + Len(t)
        /\ \A i \in 1 .. 1 + Len(t) : (<<e>> \o t)[i] = IF i <= 1 THEN <<e>>[i] ELSE t[i - 1]
    BY <1>1, ConcatProperties
  <1> DEFINE u == <<e>> \o t
  <1>3. u \in Seq(T) /\ Len(u) = 1 + Len(t) /\ u[1] = e /\ \A i \in 1 .. Len(t) : u[i + 1] = t[i]
    BY <1>1, <1>2
  <1> HIDE DEF u
  <1>4. u # <<>>
    BY <1>3
  <1>5. Range(u) \subseteq {e} \cup Range(t)
    <2>1. ASSUME NEW i \in 1 .. Len(u)
          PROVE  u[i] = e \/ \E j \in 1 .. Len(t) : u[i] = t[j]
      <3>1. i = 1 \/ (i - 1 \in 1 .. Len(t) /\ u[(i - 1) + 1] = t[i - 1])
        BY <1>3
      <3> QED
        BY <1>3, <3>1
    <2> QED
      BY <1>3, <2>1 DEF Range
  <1>6. {e} \cup Range(t) \subseteq Range(u)
    <2>1. 1 \in 1 .. Len(u) /\ \A i \in 1 .. Len(t) : i + 1 \in 1 .. Len(u)
      BY <1>3
    <2> QED
      BY <1>3, <2>1 DEF Range
  <1> QED
    BY <1>3, <1>4, <1>5, <1>6 DEF u

\* One more entry at the end.
LEMMA RangeOfAppend ==
    ASSUME NEW T, NEW t \in Seq(T), NEW e \in T
    PROVE  /\ Append(t, e) \in Seq(T) /\ Append(t, e) # <<>>
           /\ Append(t, e)[Len(Append(t, e))] = e
           /\ Range(Append(t, e)) = Range(t) \cup {e}
  <1>1. /\ Append(t, e) \in Seq(T) /\ Len(Append(t, e)) = Len(t) + 1
        /\ \A i \in 1 .. Len(t) : Append(t, e)[i] = t[i]
        /\ Append(t, e)[Len(t) + 1] = e /\ Append(t, e) # <<>>
    BY AppendProperties
  <1> DEFINE u == Append(t, e)
  <1>2. /\ u \in Seq(T) /\ Len(u) = Len(t) + 1 /\ u[Len(t) + 1] = e
        /\ \A i \in 1 .. Len(t) : u[i] = t[i]
    BY <1>1
  <1> HIDE DEF u
  <1>3. Range(u) \subseteq Range(t) \cup {e}
    <2>1. ASSUME NEW i \in 1 .. Len(u)
          PROVE  u[i] = e \/ \E j \in 1 .. Len(t) : u[i] = t[j]
      <3>1. i = Len(t) + 1 \/ i \in 1 .. Len(t)
        BY <1>2
      <3> QED
        BY <1>2, <3>1
    <2> QED
      BY <1>2, <2>1 DEF Range
  <1>4. Range(t) \cup {e} \subseteq Range(u)
    <2>1. Len(t) + 1 \in 1 .. Len(u) /\ \A i \in 1 .. Len(t) : i \in 1 .. Len(u)
      BY <1>2
    <2> QED
      BY <1>2, <2>1 DEF Range
  <1> QED
    BY <1>1, <1>3, <1>4 DEF u

\* An entry changed at the end.
LEMMA RangeOfChange ==
    ASSUME NEW T, NEW t \in Seq(T), t # <<>>, NEW u \in Seq(T), Len(u) = Len(t),
           \A i \in 1 .. Len(t) : i # Len(t) => u[i] = t[i]
    PROVE  /\ u # <<>>
           /\ Range(u) \subseteq Range(t) \cup {u[Len(u)]} /\ u[Len(u)] \in Range(u)
           /\ \A x \in Range(t) : x \in Range(u) \/ x = t[Len(t)]
  <1>1. DOMAIN u = 1 .. Len(t) /\ DOMAIN t = 1 .. Len(t) /\ Len(t) \in 1 .. Len(t)
    OBVIOUS
  <1>2. u # <<>>
    OBVIOUS
  <1>3. \A i \in DOMAIN u : u[i] = u[Len(u)] \/ u[i] \in Range(t)
    BY <1>1 DEF Range
  <1>4. Range(u) \subseteq Range(t) \cup {u[Len(u)]}
    BY <1>3 DEF Range
  <1>5. u[Len(u)] \in Range(u)
    BY <1>1 DEF Range
  <1>6. \A x \in Range(t) : x \in Range(u) \/ x = t[Len(t)]
    BY <1>1 DEF Range
  <1> QED
    BY <1>2, <1>4, <1>5, <1>6

\* The entry at the end is replaced.
LastChanged(t, e) == [t EXCEPT ![Len(t)] = e]

\* All entries but this one stay.
LEMMA RangeOfLastChanged ==
    ASSUME NEW T, NEW t \in Seq(T), t # <<>>, NEW e \in T
    PROVE  LET u == LastChanged(t, e)
           IN  /\ u \in Seq(T) /\ u # <<>> /\ u[Len(u)] = e
               /\ Range(u) \subseteq Range(t) \cup {e} /\ e \in Range(u)
               /\ \A x \in Range(t) : x \in Range(u) \/ x = t[Len(t)]
  <1> DEFINE u == LastChanged(t, e)
  <1>1. /\ u \in Seq(T) /\ Len(u) = Len(t) /\ u[Len(t)] = e
        /\ \A i \in 1 .. Len(t) : i # Len(t) => u[i] = t[i]
    BY DEF LastChanged
  <1> HIDE DEF u
  <1>2. /\ u # <<>>
        /\ Range(u) \subseteq Range(t) \cup {u[Len(u)]} /\ u[Len(u)] \in Range(u)
        /\ \A x \in Range(t) : x \in Range(u) \/ x = t[Len(t)]
    BY <1>1, RangeOfChange
  <1>3. u[Len(u)] = e
    BY <1>1
  <1> QED
    BY <1>1, <1>2, <1>3 DEF u

\* Entries put in front, in the other order.
LEMMA RangeOfReverse ==
    ASSUME NEW T, NEW t \in Seq(T), NEW u \in Seq(T)
    PROVE  Reverse(t) \o u \in Seq(T) /\ Reverse(<<>>) \o u = u
  <1>1. Reverse(t) \in Seq(T)
    BY DEF Reverse
  <1>2. Reverse(<<>>) = <<>>
    BY DEF Reverse
  <1> QED
    BY <1>1, <1>2, ConcatProperties, ConcatEmptySeq

\* The entry of a partition that a section names.
PartOf(s, p) == [Entry(s.disk) EXCEPT !.device = p.device, !.start = p.start]

\* An entry of a DISK section, one of a line of the disktab file, one of a PARTITION.
FromSection(s, e) == e = Entry(s.disk) \/ \E p \in Range(s.parts) : e = PartOf(s, p)

Parted == [device : Devices, start : Starts]
Accepted == [disk : Sections, parts : Seq(Parted)]

TableTypes ==
    /\ disktab \in Seq(Entries) /\ sections \in Seq(Accepted)
    /\ pc \in {"config", "section"} => ~old_disktab

\* Without a disktab file every entry is that of a section or of a partition of
\* it, each of them has one, and no device has two.
Entered == \A e \in Range(disktab) : \E s \in Range(sections) : FromSection(s, e)
Recorded ==
    \A s \in Range(sections) :
        /\ Entry(s.disk) \in Range(disktab)
        /\ \A p \in Range(s.parts) :
            PartOf(s, p) \in Range(disktab) /\ Whole(p.device) = Whole(s.disk.device)

\* No device has two entries.
OneEach == \A e, f \in Range(disktab) : e.device = f.device => e = f

\* While a section is read, the head of the list is its own.
Latest ==
    pc = "section" =>
        /\ sections # <<>> /\ disktab # <<>>
        /\ FromSection(sections[Len(sections)], disktab[1])

\* All that is said of the list.
TableInv == TableTypes /\ (~old_disktab => Entered /\ Recorded /\ OneEach /\ Latest)

\* do_disk makes an entry.
LEMMA EntryIsOne ==
    ASSUME NEW s \in Sections
    PROVE  /\ Entry(s) \in Entries /\ Entry(s).device = s.device /\ Entry(s).start = 0
           /\ Entry(s).bios = s.bios /\ Entry(s).sectors = s.sectors
           /\ Entry(s).cylinders = s.cylinders
           /\ Entry(s).heads = IF s.inaccessible THEN 0 ELSE s.heads
  <1>1. /\ s.device \in Devices /\ s.bios \in Nat \cup {Unset} /\ s.heads \in Nat \cup {Unset}
        /\ s.sectors \in Nat \cup {Unset} /\ s.cylinders \in Nat \cup {Unset}
    BY DeviceAssumption
  <1> QED
    BY <1>1 DEF Entry, Entries

\* do_partition makes one of the disk's.
LEMMA PartIsOne ==
    ASSUME NEW s \in Accepted, NEW p \in Parted
    PROVE  /\ PartOf(s, p) \in Entries
           /\ PartOf(s, p).device = p.device /\ PartOf(s, p).start = p.start
           /\ PartOf(s, p).bios = s.disk.bios /\ PartOf(s, p).sectors = s.disk.sectors
           /\ PartOf(s, p).cylinders = s.disk.cylinders
           /\ PartOf(s, p).heads = IF s.disk.inaccessible THEN 0 ELSE s.disk.heads
  <1> DEFINE e == Entry(s.disk)
  <1>1. /\ e \in Entries
        /\ e.bios = s.disk.bios /\ e.sectors = s.disk.sectors /\ e.cylinders = s.disk.cylinders
        /\ e.heads = IF s.disk.inaccessible THEN 0 ELSE s.disk.heads
    BY EntryIsOne DEF Accepted
  <1>2. p.device \in Devices /\ p.start \in Nat \cup {Unset}
    BY DeviceAssumption DEF Parted
  <1> HIDE DEF e
  <1>3. PartOf(s, p) = [e EXCEPT !.device = p.device, !.start = p.start]
    BY DEF PartOf, e
  <1> QED
    BY <1>1, <1>2, <1>3 DEF Entries

\* A device that is not on the list yet.
LEMMA UnknownIsNew ==
    ASSUME NEW d, ~Known(d)
    PROVE  \A e \in Range(disktab) : e.device # d
  BY DEF Known, Range

\* A DISK section is taken.
LEMMA NextDisk ==
    ASSUME TableInv, NEW s \in Sections, do_disk(s), ~Refused(s)
    PROVE  TableInv'
  <1> DEFINE e == Entry(s)
             r == [disk |-> s, parts |-> <<>>]
  <1>1. e \in Entries /\ e.device = s.device /\ e = Entry(r.disk)
    BY EntryIsOne
  <1>2. r \in Accepted /\ Range(r.parts) = {}
    BY DEF Accepted, Range
  <1>3. /\ disktab' = <<e>> \o disktab /\ sections' = Append(sections, r) /\ pc' = "section"
        /\ pc \in {"config", "section"} /\ UNCHANGED old_disktab
    BY DEF do_disk
  <1> HIDE DEF e, r
  <1>4. /\ disktab \in Seq(Entries) /\ sections \in Seq(Accepted) /\ ~old_disktab
        /\ Entered /\ Recorded /\ OneEach
    BY <1>3 DEF TableInv, TableTypes
  <1>5. /\ disktab' \in Seq(Entries) /\ disktab' # <<>> /\ disktab'[1] = e
        /\ Range(disktab') = {e} \cup Range(disktab)
    BY <1>1, <1>3, <1>4, RangeOfCons
  <1>6. /\ sections' \in Seq(Accepted) /\ sections' # <<>> /\ sections'[Len(sections')] = r
        /\ Range(sections') = Range(sections) \cup {r}
    BY <1>2, <1>3, <1>4, RangeOfAppend
  <1>7. \A f \in Range(disktab) : f.device # s.device
    BY UnknownIsNew DEF Refused
  <1>8. Entered'
    BY <1>1, <1>4, <1>5, <1>6 DEF Entered, FromSection
  <1>9. Recorded'
    BY <1>1, <1>2, <1>4, <1>5, <1>6 DEF Recorded
  <1>10. OneEach'
    BY <1>1, <1>4, <1>5, <1>7 DEF OneEach
  <1>11. Latest'
    BY <1>1, <1>5, <1>6 DEF Latest, FromSection
  <1> QED
    BY <1>3, <1>4, <1>5, <1>6, <1>8, <1>9, <1>10, <1>11 DEF TableInv, TableTypes

\* A partition takes over what its section says, whether the head of the list is
\* the section's own entry or that of another partition of it.
LEMMA NextPartition ==
    ASSUME TableInv, NEW d \in Devices, NEW start \in Starts, do_partition(d, start),
           ~RefusedPart(d)
    PROVE  TableInv'
  <1> DEFINE last == sections[Len(sections)]
             p == [device |-> d, start |-> start]
             r == [last EXCEPT !.parts = Append(@, p)]
             e == PartEntry(d, start)
  <1>1. /\ disktab' = <<e>> \o disktab /\ sections' = [sections EXCEPT ![Len(sections)] = r]
        /\ pc = "section" /\ pc' = "section" /\ UNCHANGED old_disktab
    BY DEF do_partition
  <1>2. /\ disktab \in Seq(Entries) /\ sections \in Seq(Accepted) /\ ~old_disktab
        /\ Entered /\ Recorded /\ OneEach
        /\ sections # <<>> /\ disktab # <<>> /\ FromSection(last, disktab[1])
    BY <1>1 DEF TableInv, TableTypes, Latest
  <1>3. last \in Accepted /\ last \in Range(sections)
    BY <1>2 DEF Range
  <1>4. p \in Parted /\ p.device = d /\ p.start = start
    BY DEF Parted
  <1> HIDE DEF last, p
  <1>5. /\ Append(last.parts, p) \in Seq(Parted)
        /\ Range(Append(last.parts, p)) = Range(last.parts) \cup {p}
    BY <1>3, <1>4, RangeOfAppend DEF Accepted
  <1>6. /\ r \in Accepted /\ r.disk = last.disk
        /\ Range(r.parts) = Range(last.parts) \cup {p}
    BY <1>3, <1>5 DEF Accepted
  <1>7. \A q : PartOf(r, q) = PartOf(last, q)
    BY <1>6 DEF PartOf
  <1> HIDE DEF r
  <1>8. e = PartOf(last, p)
    <2> DEFINE h == Entry(last.disk)
    <2>1. h \in Entries
      BY <1>3, EntryIsOne DEF Accepted
    <2>2. disktab[1] = h \/ \E q \in Range(last.parts) :
                                disktab[1] = [h EXCEPT !.device = q.device, !.start = q.start]
      BY <1>2 DEF FromSection, PartOf
    <2> HIDE DEF h
    <2>3. [disktab[1] EXCEPT !.device = d, !.start = start]
              = [h EXCEPT !.device = d, !.start = start]
      BY <2>1, <2>2 DEF Entries
    <2> QED
      BY <1>4, <2>3 DEF PartEntry, PartOf, h
  <1>9. Whole(d) = Whole(last.disk.device) /\ ~Known(d)
    <2>1. Whole(d) = Whole(disktab[1].device) /\ ~Known(d)
      BY DEF RefusedPart
    <2>2. CASE disktab[1] = Entry(last.disk)
      BY <1>3, <2>1, <2>2, EntryIsOne DEF Accepted
    <2>3. CASE \E q \in Range(last.parts) : disktab[1] = PartOf(last, q)
      <3>1. PICK q \in Range(last.parts) : disktab[1] = PartOf(last, q)
        BY <2>3
      <3>2. q \in Parted
        BY <1>3, <3>1 DEF Accepted, Range
      <3>3. disktab[1].device = q.device /\ Whole(q.device) = Whole(last.disk.device)
        BY <1>2, <1>3, <3>1, <3>2, PartIsOne DEF Recorded
      <3> QED
        BY <2>1, <3>3
    <2> QED
      BY <1>2, <2>1, <2>2, <2>3 DEF FromSection
  <1>10. e \in Entries /\ e.device = d
    BY <1>3, <1>4, <1>8, PartIsOne
  <1> HIDE DEF e
  <1>11. /\ disktab' \in Seq(Entries) /\ disktab' # <<>> /\ disktab'[1] = e
         /\ Range(disktab') = {e} \cup Range(disktab)
    BY <1>1, <1>2, <1>10, RangeOfCons
  <1>12. /\ sections' \in Seq(Accepted) /\ sections' # <<>> /\ sections'[Len(sections')] = r
         /\ Range(sections') \subseteq Range(sections) \cup {r} /\ r \in Range(sections')
         /\ \A x \in Range(sections) : x \in Range(sections') \/ x = last
    <2>1. sections \in Seq(Accepted) /\ sections # <<>> /\ r \in Accepted
      BY <1>2, <1>6
    <2> DEFINE u == LastChanged(sections, r)
    <2>2. /\ u \in Seq(Accepted) /\ u # <<>> /\ u[Len(u)] = r
          /\ Range(u) \subseteq Range(sections) \cup {r} /\ r \in Range(u)
          /\ \A x \in Range(sections) : x \in Range(u) \/ x = sections[Len(sections)]
      BY <2>1, RangeOfLastChanged
    <2>3. sections' = u
      BY <1>1 DEF LastChanged
    <2> HIDE DEF u
    <2> QED
      BY <2>2, <2>3 DEF last
  <1>13. \A f \in Range(disktab) : f.device # d
    BY <1>9, UnknownIsNew
  <1>14. FromSection(r, e) /\ \A f : FromSection(last, f) => FromSection(r, f)
    BY <1>6, <1>7, <1>8 DEF FromSection
  <1>15. Entered'
    <2> SUFFICES ASSUME NEW f \in Range(disktab')
                 PROVE  \E x \in Range(sections') : FromSection(x, f)
      BY DEF Entered
    <2>1. CASE f = e
      BY <1>12, <1>14, <2>1
    <2>2. CASE f \in Range(disktab)
      <3>1. PICK x \in Range(sections) : FromSection(x, f)
        BY <1>2, <2>2 DEF Entered
      <3> QED
        BY <1>12, <1>14, <3>1
    <2> QED
      BY <1>11, <2>1, <2>2
  <1>16. Recorded'
    <2> SUFFICES ASSUME NEW x \in Range(sections')
                 PROVE  /\ Entry(x.disk) \in Range(disktab')
                        /\ \A q \in Range(x.parts) :
                            /\ PartOf(x, q) \in Range(disktab')
                            /\ Whole(q.device) = Whole(x.disk.device)
      BY DEF Recorded
    <2>1. CASE x \in Range(sections)
      BY <1>2, <1>11, <2>1 DEF Recorded
    <2>2. CASE x = r
      <3>1. Entry(last.disk) \in Range(disktab')
        BY <1>2, <1>3, <1>11 DEF Recorded
      <3>2. \A q \in Range(last.parts) :
                PartOf(last, q) \in Range(disktab') /\ Whole(q.device) = Whole(last.disk.device)
        BY <1>2, <1>3, <1>11 DEF Recorded
      <3>3. PartOf(last, p) \in Range(disktab') /\ Whole(p.device) = Whole(last.disk.device)
        BY <1>4, <1>8, <1>9, <1>11
      <3> QED
        BY <1>6, <1>7, <2>2, <3>1, <3>2, <3>3
    <2> QED
      BY <1>12, <2>1, <2>2
  <1>17. OneEach'
    BY <1>2, <1>10, <1>11, <1>13 DEF OneEach
  <1>18. Latest'
    BY <1>11, <1>12, <1>14 DEF Latest
  <1> QED
    BY <1>1, <1>2, <1>11, <1>12, <1>15, <1>16, <1>17, <1>18 DEF TableInv, TableTypes

\* The disktab file is read.
LEMMA NextLines ==
    ASSUME TableInv, NEW lines \in DiskTabs, geo_init(lines), ~RefusedLines(lines)
    PROVE  TableInv'
  <1>1. /\ disktab' = Reverse(lines) \o disktab
        /\ old_disktab' = (old_disktab \/ lines # <<>>)
        /\ pc \in {"config", "section"} /\ pc' = "idle" /\ UNCHANGED sections
    BY DEF geo_init, LoadLines
  <1>2. /\ disktab \in Seq(Entries) /\ sections \in Seq(Accepted) /\ ~old_disktab
        /\ Entered /\ Recorded /\ OneEach
    BY <1>1 DEF TableInv, TableTypes
  <1>3. lines \in Seq(Entries)
    BY DeviceAssumption
  <1>4. /\ disktab' \in Seq(Entries)
        /\ lines = <<>> => disktab' = disktab
    BY <1>1, <1>2, <1>3, RangeOfReverse
  <1>5. TableTypes'
    BY <1>1, <1>2, <1>4 DEF TableTypes
  <1>6. ~(old_disktab') => Entered' /\ Recorded' /\ OneEach' /\ Latest'
    <2> SUFFICES ASSUME ~(old_disktab')
                 PROVE  Entered' /\ Recorded' /\ OneEach' /\ Latest'
      OBVIOUS
    <2>1. disktab' = disktab
      BY <1>1, <1>4
    <2> QED
      BY <1>1, <1>2, <2>1 DEF Entered, Recorded, OneEach, Latest
  <1> QED
    BY <1>5, <1>6 DEF TableInv

\* The list is complete when the first question is asked, and stays as it is.
SameTable == UNCHANGED config /\ (pc' \in {"config", "section"} => pc' = pc)

\* The list is left alone.
LEMMA SameTableKeeps == TableInv /\ SameTable => TableInv'
  <1> SUFFICES ASSUME TableInv, SameTable
               PROVE  TableInv'
    OBVIOUS
  <1>1. UNCHANGED <<disktab, old_disktab, sections>>
    BY DEF SameTable, config, diskTab
  <1>2. TableTypes'
    BY <1>1 DEF SameTable, TableInv, TableTypes
  <1>3. (Entered <=> Entered') /\ (Recorded <=> Recorded') /\ (OneEach <=> OneEach')
    BY <1>1 DEF Entered, Recorded, OneEach
  <1>4. Latest => Latest'
    BY <1>1 DEF SameTable, Latest
  <1> QED
    BY <1>1, <1>2, <1>3, <1>4 DEF TableInv

\* The process ends, and its list with it.
LEMMA LeaveForgets ==
    ASSUME NEW how \in {"exited", "died"}, Leave(how)
    PROVE  TableInv'
  <1>1. disktab' = <<>> /\ sections' = <<>> /\ old_disktab' = FALSE /\ pc' = how
    BY DEF Leave
  <1>2. Range(disktab') = {} /\ Range(sections') = {}
    BY <1>1 DEF Range
  <1>3. Entered' /\ Recorded' /\ OneEach' /\ Latest'
    BY <1>1, <1>2 DEF Entered, Recorded, OneEach, Latest
  <1> QED
    BY <1>1, <1>3 DEF TableInv, TableTypes

\* Each step keeps the list as described.
LEMMA NextTable == TableInv /\ [Next]_vars => TableInv'
  <1> SUFFICES ASSUME TableInv, [Next]_vars
               PROVE  TableInv'
    OBVIOUS
  <1>1. CASE \E s \in Sections : do_disk(s)
    BY <1>1, NextDisk, LeaveForgets DEF do_disk
  <1>2. CASE \E d \in Devices, start \in Starts : do_partition(d, start)
    BY <1>2, NextPartition, LeaveForgets DEF do_partition
  <1>3. CASE \E lines \in DiskTabs : geo_init(lines)
    BY <1>3, NextLines, LeaveForgets DEF geo_init
  <1>4. CASE \E d \in Devices : is_first(d) \/ geo_open(d) \/ geo_open_boot(d)
    <2>1. CASE \E how \in {"exited", "died"} : Leave(how)
      BY <2>1, LeaveForgets
    <2>2. CASE UNCHANGED config /\ pc' \in {"query", "merge"}
      BY <2>2, SameTableKeeps DEF SameTable
    <2> QED
      BY <1>4, <2>1, <2>2 DEF is_first, geo_open, geo_open_boot, geo_get
  <1>5. CASE lookup_dev \/ scan_dir \/ MakeNode \/ RegisterNode \/ OpenNode
             \/ StartCount \/ CountDisk \/ QueryDevice
    <2>1. UNCHANGED config /\ pc = "query" /\ pc' \in {"query", "merge"}
      BY <1>5 DEF lookup_dev, scan_dir, MakeNode, RegisterNode, OpenNode, StartCount, CountDisk,
         QueryDevice, At
    <2> QED
      BY <2>1, SameTableKeeps DEF SameTable
  <1>6. CASE Answer \/ Fail \/ Exit
    <2>1. CASE \E how \in {"exited", "died"} : Leave(how)
      BY <2>1, LeaveForgets
    <2>2. CASE UNCHANGED config /\ pc' = "idle"
      BY <2>2, SameTableKeeps DEF SameTable
    <2> QED
      BY <1>6, <2>1, <2>2 DEF Answer, Fail, Exit
  <1>7. CASE \E c \in Changes : NodeChanges(c)
    BY <1>7, SameTableKeeps DEF NodeChanges, SameTable
  <1>8. CASE UNCHANGED vars
    BY <1>8, SameTableKeeps DEF vars, SameTable
  <1> QED
    BY <1>1, <1>2, <1>3, <1>4, <1>5, <1>6, <1>7, <1>8 DEF Next

\* Without a disktab file the list holds one entry for each section and for each
\* partition of a section, with what the section says, and nothing else.
THEOREM TableInvariance == Spec => []TableInv
  <1>1. Init => TableInv
    <2> SUFFICES ASSUME Init
                 PROVE  TableInv
      OBVIOUS
    <2>1. disktab = <<>> /\ sections = <<>> /\ old_disktab = FALSE /\ pc = "config"
      BY DEF Init
    <2>2. Range(disktab) = {} /\ Range(sections) = {}
      BY <2>1 DEF Range
    <2>3. Entered /\ Recorded /\ OneEach /\ Latest
      BY <2>1, <2>2 DEF Entered, Recorded, OneEach, Latest
    <2> QED
      BY <2>1, <2>3 DEF TableInv, TableTypes
  <1>2. TableInv /\ [Next]_vars => TableInv'
    BY NextTable
  <1> QED
    BY <1>1, <1>2, PTL DEF Spec

\* The entry that answers for a device is its own or else that of its disk.
LEMMA WalkIsFound ==
    ASSUME TableInv, ~old_disktab, NEW d
    PROVE  /\ \A e \in Range(disktab) : e.device = d => Walk(d) = e
           /\ ~Known(d) => \A e \in Range(disktab) : e.device = Whole(d) => Walk(d) = e
           /\ (\A e \in Range(disktab) : e.device # d /\ e.device # Whole(d)) => Walk(d) = NoEntry
           /\ (\E e \in Range(disktab) : e.device = d) <=> Known(d)
  <1> DEFINE exact == {i \in DOMAIN disktab : disktab[i].device = d}
             whole == {i \in DOMAIN disktab : disktab[i].device = Whole(d)}
  <1>1. disktab \in Seq(Entries) /\ OneEach
    BY DEF TableInv, TableTypes
  <1>2. DOMAIN disktab \subseteq Nat
    BY <1>1
  <1>3. ASSUME NEW S \in SUBSET DOMAIN disktab, S # {}
        PROVE  Min(S) \in S
    <2>1. \E i \in S : \A j \in S : i <= j
      BY <1>2, <1>3, NatSetHasLeast
    <2> QED
      BY <2>1 DEF Min
  <1>4. (exact # {} <=> Known(d)) /\ ((\E e \in Range(disktab) : e.device = d) <=> Known(d))
    BY DEF Known, Range
  <1>5. ASSUME NEW e \in Range(disktab), e.device = d
        PROVE  Walk(d) = e
    <2>1. Found(d) = exact /\ exact # {}
      BY <1>5 DEF Found, Range
    <2>2. Min(exact) \in exact
      BY <1>3, <2>1
    <2>3. Walk(d) = disktab[Min(exact)] /\ disktab[Min(exact)].device = d
          /\ disktab[Min(exact)] \in Range(disktab)
      BY <2>1, <2>2 DEF Walk, Range
    <2> QED
      BY <1>1, <1>5, <2>3 DEF OneEach
  <1>6. ASSUME ~Known(d), NEW e \in Range(disktab), e.device = Whole(d)
        PROVE  Walk(d) = e
    <2>1. Found(d) = whole /\ whole # {}
      BY <1>4, <1>6 DEF Found, Range
    <2>2. Min(whole) \in whole
      BY <1>3, <2>1
    <2>3. Walk(d) = disktab[Min(whole)] /\ disktab[Min(whole)].device = Whole(d)
          /\ disktab[Min(whole)] \in Range(disktab)
      BY <2>1, <2>2 DEF Walk, Range
    <2> QED
      BY <1>1, <1>6, <2>3 DEF OneEach
  <1>7. ASSUME \A e \in Range(disktab) : e.device # d /\ e.device # Whole(d)
        PROVE  Walk(d) = NoEntry
    <2>1. exact = {} /\ whole = {}
      BY <1>7 DEF Range
    <2> QED
      BY <2>1 DEF Walk, Found
  <1> QED
    BY <1>4, <1>5, <1>6, <1>7

\* What a section says holds for the answer, if the entry that answers is its own
\* or that of a partition of it.
LEMMA SectionHolds ==
    ASSUME NEW s \in Accepted, NEW d, GeometryAnswered(d), d.major = "fd" => geo.all,
           geo.found.bios = Given(Walk(d).bios, GuessOf(d)),
           Walk(d) = Entry(s.disk) \/ \E p \in Parted : Walk(d) = PartOf(s, p)
    PROVE  /\ ~s.disk.inaccessible
           /\ geo.found.heads = Given(s.disk.heads, Kernel[d].heads)
           /\ geo.found.sectors = Given(s.disk.sectors, Kernel[d].sectors)
           /\ s.disk.bios # Unset => geo.found.bios = s.disk.bios
           /\ s.disk.cylinders # Unset => geo.found.cylinders = s.disk.cylinders
  <1>1. /\ Walk(d).bios = s.disk.bios /\ Walk(d).sectors = s.disk.sectors
        /\ Walk(d).cylinders = s.disk.cylinders
        /\ Walk(d).heads = IF s.disk.inaccessible THEN 0 ELSE s.disk.heads
    BY EntryIsOne, PartIsOne DEF Accepted
  <1>2. ~s.disk.inaccessible /\ Walk(d).heads = s.disk.heads
    BY <1>1 DEF GeometryAnswered, Inaccessible
  <1> QED
    BY <1>1, <1>2 DEF GeometryAnswered, Given

\* do_disk, do_partition, geo_init and geo_get: what a DISK section says holds for
\* everything it names and for the unnamed partitions of its disk, for any number
\* of sections and partitions in any order.
THEOREM SectionsAreInherited == Spec => []InheritsFromItsDisk
  <1>1. TableInv /\ AnswersInv => InheritsFromItsDisk
    <2> SUFFICES ASSUME TableInv, AnswersInv, geo.dev # NoDevice, ~old_disktab,
                        geo.dev.major = "fd" => geo.all
                 PROVE  InheritsFromItsDisk
      BY DEF InheritsFromItsDisk
    <2>1. PICK d \in Devices : d = geo.dev
      BY DEF AnswersInv, GeoAnswered
    <2> DEFINE Parts(s, e) == {p \in Range(s.parts) : p.device = e}
               Naming(e) == {s \in Range(sections) : s.disk.device = e \/ Parts(s, e) # {}}
               of == IF Naming(d) # {} THEN Naming(d) ELSE Naming(Whole(d))
               starts == {p.start : p \in UNION {Parts(s, d) : s \in of}}
    <2>2. /\ geo.found.bios = Given(Walk(d).bios, GuessOf(d)) /\ GeometryAnswered(d)
          /\ d.major = "fd" => geo.all
      BY <2>1 DEF AnswersInv, GeoAnswered
    <2>3. geo.found.heads = Given(Walk(d).heads, Kernel[d].heads)
          /\ geo.found.start = StartOf(d, Kernel[d])
      BY <2>2 DEF GeometryAnswered
    <2>4. Entered /\ Recorded /\ OneEach /\ sections \in Seq(Accepted)
      BY DEF TableInv, TableTypes
    <2>5. ASSUME NEW s \in Range(sections)
          PROVE  s \in Accepted /\ s.disk \in Sections /\ \A p \in Range(s.parts) : p \in Parted
      <3>1. s \in Accepted
        BY <2>4 DEF Range
      <3> QED
        BY <3>1 DEF Accepted, Range
    <2>6. ASSUME NEW e, NEW s \in Naming(e)
          PROVE  /\ \E f \in Range(disktab) :
                        /\ f.device = e
                        /\ f = Entry(s.disk) \/ \E p \in Parted : f = PartOf(s, p)
                 /\ Whole(s.disk.device) = Whole(e)
      <3>1. CASE s.disk.device = e
        BY <2>4, <2>5, <3>1, EntryIsOne DEF Recorded
      <3>2. CASE Parts(s, e) # {}
        <4>1. PICK p \in Range(s.parts) : p.device = e
          BY <3>2
        <4> QED
          BY <2>4, <2>5, <4>1, PartIsOne DEF Recorded
      <3> QED
        BY <3>1, <3>2
    <2>7. ASSUME NEW e, NEW f \in Range(disktab), f.device = e
          PROVE  Naming(e) # {} /\ Known(f.device)
      <3>1. PICK s \in Range(sections) : FromSection(s, f)
        BY <2>4 DEF Entered
      <3>2. CASE f = Entry(s.disk)
        <4>1. s.disk.device = e
          BY <2>5, <2>7, <3>2, EntryIsOne
        <4> QED
          BY <4>1, WalkIsFound
      <3>3. CASE \E p \in Range(s.parts) : f = PartOf(s, p)
        <4>1. PICK p \in Range(s.parts) : f = PartOf(s, p)
          BY <3>3
        <4>2. p.device = e
          BY <2>5, <2>7, <4>1, PartIsOne
        <4> QED
          BY <4>1, <4>2, WalkIsFound
      <3> QED
        BY <3>1, <3>2, <3>3 DEF FromSection
    <2>8. Naming(d) # {} <=> Known(d)
      BY <2>6, <2>7, WalkIsFound
    <2>9. Whole(Whole(d)) = Whole(d)
      BY DEF Whole
    <2>10. ASSUME NEW s \in of
           PROVE  /\ Whole(s.disk.device) = Whole(d)
                  /\ s \in Range(sections)
                  /\ Walk(d) = Entry(s.disk) \/ \E p \in Parted : Walk(d) = PartOf(s, p)
      <3>1. CASE Naming(d) # {}
        BY <2>6, <3>1, WalkIsFound
      <3>2. CASE Naming(d) = {}
        BY <2>6, <2>8, <2>9, <3>2, WalkIsFound
      <3> QED
        BY <3>1, <3>2
    <2>11. of = {} => Walk(d) = NoEntry
      BY <2>7, WalkIsFound
    <2>12. geo.found.start = IF starts \ {Unset} # {} THEN CHOOSE t \in starts : TRUE
                             ELSE IF \E s \in of : s.disk.device = d THEN 0
                             ELSE Kernel[d].start
      <3>1. ASSUME NEW s \in of, s.disk.device = d
            PROVE  Walk(d) = Entry(s.disk) /\ Walk(d).start = 0
        BY <2>4, <2>5, <2>10, <3>1, EntryIsOne, WalkIsFound DEF Recorded
      <3>2. ASSUME NEW s \in of, NEW p \in Parts(s, d)
            PROVE  Walk(d).start = p.start
        BY <2>4, <2>5, <2>10, <3>2, PartIsOne, WalkIsFound DEF Recorded
      <3>3. CASE Naming(d) # {}
        <4>1. of = Naming(d) /\ geo.found.start = Given(Walk(d).start, Kernel[d].start)
          BY <2>3, <2>8, <3>3 DEF StartOf, Inherited
        <4>2. \A t \in starts : t = Walk(d).start
          BY <3>2
        <4>3. CASE starts \ {Unset} # {}
          <5>1. (CHOOSE t \in starts : TRUE) \in starts
            BY <4>3
          <5>2. (CHOOSE t \in starts : TRUE) = Walk(d).start /\ Walk(d).start # Unset
            BY <4>2, <4>3, <5>1
          <5> QED
            BY <4>1, <4>3, <5>2 DEF Given
        <4>4. CASE starts \ {Unset} = {} /\ \E s \in of : s.disk.device = d
          <5>1. PICK s \in of : s.disk.device = d
            BY <4>4
          <5>2. Walk(d).start = 0 /\ Walk(d).start # Unset
            BY <3>1, <5>1 DEF Unset
          <5> QED
            BY <4>1, <4>4, <5>2 DEF Given
        <4>5. CASE starts \ {Unset} = {} /\ ~\E s \in of : s.disk.device = d
          <5>1. PICK s \in of : Parts(s, d) # {}
            BY <3>3, <4>1, <4>5
          <5>2. PICK p \in Parts(s, d) : p.start = Walk(d).start
            BY <3>2, <5>1
          <5>3. p.start \in starts
            BY <5>1, <5>2
          <5>4. Walk(d).start = Unset
            BY <4>5, <5>2, <5>3
          <5> QED
            BY <4>1, <4>5, <5>4 DEF Given
        <4> QED
          BY <4>3, <4>4, <4>5
      <3>4. CASE Naming(d) = {}
        <4>1. \A s \in of : s.disk.device # d /\ Parts(s, d) = {}
          BY <2>10, <3>4
        <4>2. starts = {}
          BY <4>1
        <4>3. geo.found.start = Kernel[d].start
          BY <2>3, <2>8, <3>4 DEF StartOf, Inherited
        <4> QED
          BY <4>1, <4>2, <4>3
      <3> QED
        BY <3>3, <3>4
    <2>13. ASSUME NEW s \in of
           PROVE  /\ Whole(s.disk.device) = Whole(d) /\ ~s.disk.inaccessible
                  /\ geo.found.heads = Given(s.disk.heads, Kernel[d].heads)
                  /\ geo.found.sectors = Given(s.disk.sectors, Kernel[d].sectors)
                  /\ s.disk.bios # Unset => geo.found.bios = s.disk.bios
                  /\ s.disk.cylinders # Unset => geo.found.cylinders = s.disk.cylinders
      BY <2>2, <2>5, <2>10, SectionHolds
    <2>14. of = {} => geo.found.heads = Kernel[d].heads
      BY <2>3, <2>11 DEF NoEntry, Given
    <2> QED
      BY <2>1, <2>12, <2>13, <2>14 DEF InheritsFromItsDisk
  <1> QED
    BY <1>1, TableInvariance, AnswersInvariance, PTL
=============================================================================
