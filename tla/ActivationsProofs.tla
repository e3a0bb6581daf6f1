-------------------------- MODULE ActivationsProofs --------------------------
(***************************************************************************)
(* Proofs about the activations of procedures.  The walk along the static  *)
(* links is a recursive function; what it returns is shown by the least    *)
(* frame at which the claim fails (Least of SelectionProofs).  The         *)
(* inductive invariant is the conjunction of the properties with Chained,  *)
(* which says what every frame hangs on.                                   *)
(***************************************************************************)
EXTENDS Activations, SelectionProofs

Frame == [block : Seq(Nat), slink : Nat]

(* The frames of a program that has started; the first is on level 0.       *)
Chained(fs) ==
  /\ fs \in Seq(Frame) /\ Len(fs) > 1
  /\ fs[1].block = <<>> /\ fs[1].slink = 0
  /\ \A f \in 2..Len(fs) : /\ fs[f].block # <<>>
                           /\ fs[f].slink \in 1..(f - 1)
                           /\ fs[fs[f].slink].block = Up(fs[f].block)

-----------------------------------------------------------------------------
(* Sequences of blocks. *)

(* The blocks around a block are sequences; the one above it has one less.  *)
LEMMA AroundTyped ==
  ASSUME NEW b \in Seq(Nat), NEW n \in 0..Len(b)
  PROVE  Around(b, n) \in Seq(Nat) /\ Len(Around(b, n)) = n
BY DEF Around

(* Up takes the last block off. *)
LEMMA UpTyped ==
  ASSUME NEW b \in Seq(Nat), b # <<>>
  PROVE  Up(b) \in Seq(Nat) /\ Len(Up(b)) = Len(b) - 1
<1>1. Len(b) \in Nat /\ Len(b) > 0
  OBVIOUS
<1>2. Len(b) - 1 \in 0..Len(b)
  BY <1>1
<1> QED
  BY <1>2, AroundTyped DEF Up

(* A block is all of the blocks it lies in. *)
LEMMA AroundWhole ==
  ASSUME NEW b \in Seq(Nat)
  PROVE  Around(b, Len(b)) = b
BY DEF Around

(* What lies around the block above lies around the block.                  *)
LEMMA AroundAround ==
  ASSUME NEW b \in Seq(Nat), NEW n \in 0..Len(b), NEW k \in 0..n
  PROVE  Around(Around(b, n), k) = Around(b, k)
<1> DEFINE c == Around(b, n)
<1>1. c \in Seq(Nat) /\ Len(c) = n /\ \A j \in 1..n : c[j] = b[j]
  BY DEF Around
<1> HIDE DEF c
<1>2. Around(c, k) = [j \in 1..k |-> c[j]]
  BY <1>1 DEF Around
<1>3. Around(b, k) = [j \in 1..k |-> b[j]]
  BY DEF Around
<1>4. \A j \in 1..k : c[j] = b[j]
  BY <1>1
<1>5. Around(c, k) = Around(b, k)
  BY <1>2, <1>3, <1>4
<1> QED
  BY <1>5 DEF c

-----------------------------------------------------------------------------
(* The walk along the links. *)

(* at is what Reach computes for the frames up to f. *)
Walk(fs, f, level, at) ==
  /\ at = [g \in 0..f |-> at[g]]
  /\ \A g \in 0..f : at[g] = IF g = 0 THEN 0
                             ELSE IF Len(fs[g].block) > level THEN at[fs[g].slink] ELSE g

(* There is a walk up to every frame, since every link goes back: by the    *)
(* least frame that has none.                                               *)
LEMMA WalkExists ==
  ASSUME NEW fs, NEW n \in Nat, NEW level,
         \A g \in 1..n : fs[g].slink \in 0..(g - 1)
  PROVE  \E at : Walk(fs, n, level, at)
<1> DEFINE Bad == {f \in 0..n : ~ \E at : Walk(fs, f, level, at)}
<1>1. SUFFICES ASSUME Bad # {}
               PROVE  FALSE
  OBVIOUS
<1>2. Bad \subseteq Nat
  OBVIOUS
<1>3. PICK f \in Bad : \A k \in Bad : f <= k
  BY <1>1, <1>2, Least
<1>4. f \in 0..n /\ f \in Nat
  OBVIOUS
<1>5. CASE f = 0
  <2> DEFINE z == [g \in 0..0 |-> 0]
  <2>1. Walk(fs, 0, level, z)
    BY DEF Walk
  <2> QED
    BY <1>5, <2>1
<1>6. CASE f # 0
  <2>1. f - 1 \in 0..n /\ f - 1 \notin Bad
    BY <1>3, <1>4, <1>6
  <2>2. PICK at : Walk(fs, f - 1, level, at)
    BY <2>1
  <2> DEFINE new == IF Len(fs[f].block) > level THEN at[fs[f].slink] ELSE f
             ext == [g \in 0..f |-> IF g < f THEN at[g] ELSE new]
  <2>3. \A g \in 0..(f - 1) : ext[g] = at[g]
    BY <1>4
  <2>4. ext[f] = new
    BY <1>4
  <2>5. ext = [g \in 0..f |-> ext[g]]
    OBVIOUS
  <2> HIDE DEF ext
  <2>6. ASSUME NEW g \in 0..f
        PROVE  ext[g] = IF g = 0 THEN 0
                        ELSE IF Len(fs[g].block) > level THEN ext[fs[g].slink] ELSE g
    <3>1. CASE g = f
      <4>1. fs[f].slink \in 0..(f - 1)
        BY <1>4, <1>6
      <4>2. ext[fs[f].slink] = at[fs[f].slink]
        BY <2>3, <4>1
      <4> QED
        BY <1>6, <2>4, <3>1, <4>2
    <3>2. CASE g # f
      <4>1. g \in 0..(f - 1) /\ (g # 0 => fs[g].slink \in 0..(f - 1))
        BY <1>4, <3>2
      <4>2. at[g] = IF g = 0 THEN 0
                    ELSE IF Len(fs[g].block) > level THEN at[fs[g].slink] ELSE g
        BY <2>2, <4>1 DEF Walk
      <4> QED
        BY <2>3, <4>1, <4>2
    <3> QED
      BY <3>1, <3>2
  <2>7. Walk(fs, f, level, ext)
    BY <2>5, <2>6 DEF Walk
  <2> QED
    BY <2>7
<1> QED
  BY <1>5, <1>6

(* Two walks on frames that begin alike agree where both are. *)
LEMMA WalksAgree ==
  ASSUME NEW fs, NEW gs, NEW n \in Nat, NEW k \in Nat, n <= k, NEW level, NEW at, NEW bt,
         \A g \in 1..n : fs[g].slink \in 0..(g - 1) /\ gs[g] = fs[g],
         Walk(fs, n, level, at), Walk(gs, k, level, bt)
  PROVE  \A g \in 0..n : at[g] = bt[g]
<1> DEFINE Bad == {g \in 0..n : at[g] # bt[g]}
<1>1. SUFFICES ASSUME Bad # {}
               PROVE  FALSE
  OBVIOUS
<1>2. PICK g \in Bad : \A h \in Bad : g <= h
  <2>1. Bad \subseteq Nat
    OBVIOUS
  <2> QED
    BY <1>1, <2>1, Least
<1>3. g \in 0..n /\ g \in 0..k
  OBVIOUS
<1>4. at[g] = IF g = 0 THEN 0 ELSE IF Len(fs[g].block) > level THEN at[fs[g].slink] ELSE g
  BY <1>3 DEF Walk
<1>5. bt[g] = IF g = 0 THEN 0 ELSE IF Len(gs[g].block) > level THEN bt[gs[g].slink] ELSE g
  BY <1>3 DEF Walk
<1>6. g # 0
  BY <1>2, <1>4, <1>5
<1>7. gs[g] = fs[g] /\ fs[g].slink \in 0..(g - 1)
  BY <1>3, <1>6
<1>8. fs[g].slink \in 0..n /\ fs[g].slink \notin Bad
  BY <1>2, <1>3, <1>7
<1>9. at[fs[g].slink] = bt[fs[g].slink]
  BY <1>8
<1> QED
  BY <1>2, <1>4, <1>5, <1>7, <1>9

(* Reach is the last value of a walk. *)
LEMMA ReachIsWalk ==
  ASSUME NEW fs, NEW f \in Nat, NEW level,
         \A g \in 1..f : fs[g].slink \in 0..(g - 1)
  PROVE  \E at : Walk(fs, f, level, at) /\ Reach(fs, f, level) = at[f]
<1> DEFINE R(at) == at = [g \in 0..f |->
                            IF g = 0 THEN 0
                            ELSE IF Len(fs[g].block) > level THEN at[fs[g].slink] ELSE g]
           c == CHOOSE at : R(at)
<1>1. PICK w : Walk(fs, f, level, w)
  BY WalkExists
<1>2. R(w)
  BY <1>1 DEF Walk
<1>3. R(c)
  BY <1>2
<1>4. Reach(fs, f, level) = c[f]
  BY DEF Reach
<1> HIDE DEF c
<1>5. Walk(fs, f, level, c)
  BY <1>3 DEF Walk
<1> QED
  BY <1>4, <1>5

(* One step of the walk. *)
LEMMA ReachStep ==
  ASSUME NEW fs, NEW f \in Nat \ {0}, NEW level,
         \A g \in 1..f : fs[g].slink \in 0..(g - 1)
  PROVE  Reach(fs, f, level) =
           IF Len(fs[f].block) > level THEN Reach(fs, fs[f].slink, level) ELSE f
<1> DEFINE s == fs[f].slink
<1>1. s \in 0..(f - 1) /\ s \in Nat /\ s <= f
  OBVIOUS
<1> HIDE DEF s
<1>2. PICK at : Walk(fs, f, level, at) /\ Reach(fs, f, level) = at[f]
  BY ReachIsWalk
<1>3. \A g \in 1..s : fs[g].slink \in 0..(g - 1)
  BY <1>1
<1>4. PICK bt : Walk(fs, s, level, bt) /\ Reach(fs, s, level) = bt[s]
  BY <1>1, <1>3, ReachIsWalk
<1>5. \A g \in 0..s : bt[g] = at[g]
  BY <1>1, <1>2, <1>3, <1>4, WalksAgree
<1>6. s \in 0..s
  BY <1>1
<1>7. at[f] = IF Len(fs[f].block) > level THEN at[s] ELSE f
  BY <1>2 DEF Walk, s
<1>8. at[s] = Reach(fs, s, level)
  BY <1>4, <1>5, <1>6
<1> QED
  BY <1>2, <1>7, <1>8 DEF s

(* New frames at the end change no walk. *)
LEMMA ReachExtended ==
  ASSUME NEW fs, NEW gs, NEW f \in Nat, NEW level,
         \A g \in 1..f : fs[g].slink \in 0..(g - 1) /\ gs[g] = fs[g]
  PROVE  Reach(gs, f, level) = Reach(fs, f, level)
<1>1. PICK at : Walk(fs, f, level, at) /\ Reach(fs, f, level) = at[f]
  BY ReachIsWalk
<1>2. \A g \in 1..f : gs[g].slink \in 0..(g - 1)
  OBVIOUS
<1>3. PICK bt : Walk(gs, f, level, bt) /\ Reach(gs, f, level) = bt[f]
  BY <1>2, ReachIsWalk
<1>4. f <= f
  OBVIOUS
<1>5. \A g \in 0..f : at[g] = bt[g]
  BY <1>1, <1>3, <1>4, WalksAgree
<1> QED
  BY <1>1, <1>3, <1>5

(* Links of frames that hang together go back. *)
LEMMA LinksGoBack ==
  ASSUME NEW fs, Chained(fs)
  PROVE  /\ Len(fs) \in Nat
         /\ \A f \in 1..Len(fs) : /\ fs[f] \in Frame
                                  /\ fs[f].slink \in 0..(f - 1)
                                  /\ f = 1 => fs[f].block = <<>>
<1>1. Len(fs) \in Nat /\ \A f \in 1..Len(fs) : fs[f] \in Frame
  BY DEF Chained
<1>2. ASSUME NEW f \in 1..Len(fs)
      PROVE  fs[f].slink \in 0..(f - 1) /\ (f = 1 => fs[f].block = <<>>)
  <2>1. CASE f = 1
    BY <2>1 DEF Chained
  <2>2. CASE f # 1
    <3>1. f \in 2..Len(fs)
      BY <1>1, <2>2
    <3> QED
      BY <2>2, <3>1 DEF Chained
  <2> QED
    BY <2>1, <2>2
<1> QED
  BY <1>1, <1>2

(* A frame that is not the first hangs on one of the block above.           *)
LEMMA LinkAbove ==
  ASSUME NEW fs, Chained(fs), NEW f \in 1..Len(fs), fs[f].block # <<>>
  PROVE  /\ fs[f].slink \in 1..Len(fs) /\ fs[f].slink < f
         /\ fs[fs[f].slink].block = Up(fs[f].block)
         /\ Len(fs[fs[f].slink].block) = Len(fs[f].block) - 1
<1>1. Len(fs) \in Nat /\ f # 1 /\ fs[f].block \in Seq(Nat)
  BY LinksGoBack DEF Frame
<1>2. f \in 2..Len(fs)
  BY <1>1
<1>3. fs[f].slink \in 1..(f - 1) /\ fs[fs[f].slink].block = Up(fs[f].block)
  BY <1>2 DEF Chained
<1>4. Len(Up(fs[f].block)) = Len(fs[f].block) - 1
  BY <1>1, UpTyped
<1> QED
  BY <1>1, <1>3, <1>4

(* The walk from a frame goes on from the one it hangs on, or ends there.   *)
LEMMA ReachNext ==
  ASSUME NEW fs, Chained(fs), NEW f \in 1..Len(fs), NEW level \in 0..Len(fs[f].block)
  PROVE  /\ level = Len(fs[f].block) => Reach(fs, f, level) = f
         /\ level # Len(fs[f].block) =>
              /\ fs[f].block # <<>>
              /\ level \in 0..Len(fs[fs[f].slink].block)
              /\ Reach(fs, f, level) = Reach(fs, fs[f].slink, level)
<1>1. /\ Len(fs) \in Nat /\ f \in Nat \ {0}
      /\ fs[f].block \in Seq(Nat) /\ Len(fs[f].block) \in Nat
  BY LinksGoBack DEF Frame
<1>2. \A g \in 1..f : fs[g].slink \in 0..(g - 1)
  BY <1>1, LinksGoBack
<1>3. Reach(fs, f, level) =
        IF Len(fs[f].block) > level THEN Reach(fs, fs[f].slink, level) ELSE f
  BY <1>1, <1>2, ReachStep
<1>4. CASE level = Len(fs[f].block)
  BY <1>1, <1>3, <1>4
<1>5. CASE level # Len(fs[f].block)
  <2>1. Len(fs[f].block) > level /\ fs[f].block # <<>>
    BY <1>1, <1>5
  <2>2. Len(fs[fs[f].slink].block) = Len(fs[f].block) - 1
    BY <2>1, LinkAbove
  <2> QED
    BY <1>1, <1>3, <1>5, <2>1, <2>2
<1> QED
  BY <1>4, <1>5

(* The walk to a level ends at a frame of the block around that is there:   *)
(* by the least frame from which it does not.                               *)
LEMMA ReachBlock ==
  ASSUME NEW fs, Chained(fs), NEW level \in Nat
  PROVE  \A f \in 1..Len(fs) : level <= Len(fs[f].block) =>
           /\ Reach(fs, f, level) \in 1..f
           /\ fs[Reach(fs, f, level)].block = Around(fs[f].block, level)
<1> DEFINE Good(f) == /\ Reach(fs, f, level) \in 1..f
                      /\ fs[Reach(fs, f, level)].block = Around(fs[f].block, level)
           Bad == {f \in 1..Len(fs) : level <= Len(fs[f].block) /\ ~ Good(f)}
<1>1. SUFFICES ASSUME Bad # {}
               PROVE  FALSE
  OBVIOUS
<1>2. PICK f \in Bad : \A k \in Bad : f <= k
  <2>1. Bad \subseteq Nat
    BY LinksGoBack
  <2> QED
    BY <1>1, <2>1, Least
<1> DEFINE s == fs[f].slink
<1>3. /\ f \in 1..Len(fs) /\ f \in Nat /\ Len(fs) \in Nat
      /\ fs[f].block \in Seq(Nat) /\ Len(fs[f].block) \in Nat
      /\ level \in 0..Len(fs[f].block)
  BY LinksGoBack DEF Frame
<1>4. CASE level = Len(fs[f].block)
  <2>1. Reach(fs, f, level) = f
    BY <1>3, <1>4, ReachNext
  <2>2. Around(fs[f].block, level) = fs[f].block
    BY <1>3, <1>4, AroundWhole
  <2> QED
    BY <1>2, <1>3, <2>1, <2>2
<1>5. CASE level # Len(fs[f].block)
  <2>1. /\ fs[f].block # <<>> /\ level \in 0..Len(fs[s].block)
        /\ Reach(fs, f, level) = Reach(fs, s, level)
    BY <1>3, <1>5, ReachNext
  <2>2. /\ s \in 1..Len(fs) /\ s < f
        /\ fs[s].block = Up(fs[f].block) /\ Len(fs[s].block) = Len(fs[f].block) - 1
    BY <1>3, <2>1, LinkAbove
  <2>3. Good(s)
    BY <1>2, <1>3, <2>1, <2>2
  <2>4. Around(Up(fs[f].block), level) = Around(fs[f].block, level)
    <3>1. Len(fs[f].block) - 1 \in 0..Len(fs[f].block) /\ level \in 0..(Len(fs[f].block) - 1)
      BY <1>3, <1>5
    <3> QED
      BY <1>3, <3>1, AroundAround DEF Up
  <2>5. Good(f)
    BY <1>3, <2>1, <2>2, <2>3, <2>4
  <2> QED
    BY <1>2, <2>5
<1> QED
  BY <1>4, <1>5

(* A walk to a level passes through the frame of every level on its way.    *)
LEMMA ReachThrough ==
  ASSUME NEW fs, Chained(fs), NEW d \in Nat, NEW level \in 0..d
  PROVE  \A f \in 1..Len(fs) : d <= Len(fs[f].block) =>
           Reach(fs, Reach(fs, f, d), level) = Reach(fs, f, level)
<1> DEFINE Good(f) == Reach(fs, Reach(fs, f, d), level) = Reach(fs, f, level)
           Bad == {f \in 1..Len(fs) : d <= Len(fs[f].block) /\ ~ Good(f)}
<1>1. SUFFICES ASSUME Bad # {}
               PROVE  FALSE
  OBVIOUS
<1>2. PICK f \in Bad : \A k \in Bad : f <= k
  <2>1. Bad \subseteq Nat
    BY LinksGoBack
  <2> QED
    BY <1>1, <2>1, Least
<1> DEFINE s == fs[f].slink
<1>3. /\ f \in 1..Len(fs) /\ f \in Nat /\ Len(fs) \in Nat
      /\ fs[f].block \in Seq(Nat) /\ Len(fs[f].block) \in Nat
      /\ d \in 0..Len(fs[f].block) /\ level \in 0..Len(fs[f].block)
  BY LinksGoBack DEF Frame
<1>4. CASE d = Len(fs[f].block)
  <2>1. Reach(fs, f, d) = f
    BY <1>3, <1>4, ReachNext
  <2> QED
    BY <1>2, <2>1
<1>5. CASE d # Len(fs[f].block)
  <2>1. /\ fs[f].block # <<>> /\ d \in 0..Len(fs[s].block)
        /\ Reach(fs, f, d) = Reach(fs, s, d)
    BY <1>3, <1>5, ReachNext
  <2>2. s \in 1..Len(fs) /\ s < f
    BY <1>3, <2>1, LinkAbove
  <2>3. level # Len(fs[f].block)
    BY <1>3, <1>5
  <2>4. Reach(fs, f, level) = Reach(fs, s, level)
    BY <1>3, <2>3, ReachNext
  <2>5. Good(s)
    BY <1>2, <1>3, <2>1, <2>2
  <2>6. Good(f)
    BY <2>1, <2>4, <2>5
  <2> QED
    BY <1>2, <2>6
<1> QED
  BY <1>4, <1>5

-----------------------------------------------------------------------------
(* The inductive invariant. *)

IInv == TypeOK /\ Chained(frames) /\ OwnBlock /\ RefsInScope /\ WithsNested

Record(fs, b) == [fp : DOMAIN fs, proc : DOMAIN b, mark : Nat]

(* What the invariant says of types, one fact at a time. *)
LEMMA Typed ==
  ASSUME IInv
  PROVE  /\ frames \in Seq(Frame) /\ Len(frames) \in Nat /\ Len(frames) > 1
         /\ DOMAIN frames = 1..Len(frames)
         /\ fp \in 1..Len(frames) /\ withs \in Nat
         /\ calls \in Seq(Record(frames, block)) /\ Len(calls) \in Nat
         /\ DOMAIN calls = 1..Len(calls)
         /\ \A k \in 1..Len(calls) : /\ calls[k] \in Record(frames, block)
                                     /\ calls[k].fp \in 1..Len(frames)
                                     /\ calls[k].proc \in DOMAIN block
                                     /\ calls[k].mark \in Nat
         /\ \A id \in DOMAIN block : block[id] \in Seq(Nat) /\ Len(block[id]) > 1
         /\ \A r \in refs : r.proc \in DOMAIN block /\ r.link \in 1..Len(frames)
<1>1. TypeOK /\ Chained(frames)
  BY DEF IInv
<1>2. /\ frames \in Seq(Frame) /\ Len(frames) > 1
  BY <1>1 DEF Chained
<1>3. Len(frames) \in Nat /\ DOMAIN frames = 1..Len(frames)
  BY <1>2
<1>4. calls \in Seq(Record(frames, block))
  BY <1>1 DEF TypeOK, Record
<1>5. /\ Len(calls) \in Nat /\ DOMAIN calls = 1..Len(calls)
      /\ \A k \in 1..Len(calls) : calls[k] \in Record(frames, block)
  BY <1>4
<1>6. \A k \in 1..Len(calls) : /\ calls[k].fp \in DOMAIN frames
                               /\ calls[k].proc \in DOMAIN block
                               /\ calls[k].mark \in Nat
  BY <1>5 DEF Record
<1>7. /\ fp \in DOMAIN frames /\ withs \in Nat
      /\ \A id \in DOMAIN block : block[id] \in Seq(Nat) /\ Len(block[id]) > 1
      /\ refs \subseteq [proc : DOMAIN block, link : DOMAIN frames]
  BY <1>1 DEF TypeOK
<1>8. \A r \in refs : r.proc \in DOMAIN block /\ r.link \in 1..Len(frames)
  BY <1>3, <1>7
<1> QED
  BY <1>2, <1>3, <1>4, <1>5, <1>6, <1>7, <1>8

(* OwnBlock, of any state. *)
Ran(b, cs, k) == IF k = 0 THEN <<Program>> ELSE b[cs[k].proc]
Owned(b, fs, f, cs) ==
  /\ fs[f].block = Ran(b, cs, Len(cs))
  /\ \A k \in DOMAIN cs : fs[cs[k].fp].block = Ran(b, cs, k - 1)

LEMMA OwnedIs == OwnBlock <=> Owned(block, frames, fp, calls)
BY DEF OwnBlock, Owned, Running, Ran

LEMMA OwnedNext == OwnBlock' <=> Owned(block', frames', fp', calls')
BY DEF OwnBlock, Owned, Running, Ran

(* The program starts in its own block. *)
LEMMA InitInv == Init => IInv
<1> SUFFICES ASSUME Init
             PROVE  IInv
  OBVIOUS
<1> USE DEF Init, Program
<1>1. /\ Len(frames) = 2 /\ DOMAIN frames = 1..2
      /\ frames[1] = [block |-> <<>>, slink |-> 0]
      /\ frames[2] = [block |-> <<Program>>, slink |-> 1]
  OBVIOUS
<1>2. frames \in Seq(Frame)
  BY DEF Frame
<1>3. Up(<<Program>>) = <<>>
  BY DEF Up, Around
<1>4. TypeOK
  <2>1. DOMAIN block = {}
    OBVIOUS
  <2> QED
    BY <1>1, <1>2, <2>1 DEF TypeOK, Frame
<1>5. Chained(frames)
  BY <1>1, <1>2, <1>3 DEF Chained
<1>6. OwnBlock
  BY <1>1 DEF OwnBlock, Running
<1>7. RefsInScope /\ WithsNested
  BY DEF RefsInScope, WithsNested, Mark
<1> QED
  BY <1>4, <1>5, <1>6, <1>7 DEF IInv

(* What a name that can be seen means: the frame it finds is one of the     *)
(* block that the procedure is declared in.                                 *)
LEMMA VisibleFrame ==
  ASSUME IInv, NEW id, Visible(id)
  PROVE  /\ FrameAt(fp, Level(id)) \in DOMAIN frames
         /\ frames[FrameAt(fp, Level(id))].block = Up(block[id])
         /\ Level(id) \in Nat /\ Level(id) <= Len(frames[fp].block)
<1> DEFINE level == Level(id)
<1>1. /\ block[id] \in Seq(Nat) /\ Len(block[id]) > 1
      /\ level <= Len(frames[fp].block)
      /\ Around(frames[fp].block, level) = Up(block[id])
  BY DEF Visible, IInv, TypeOK
<1>2. level \in Nat
  BY <1>1 DEF Level
<1>3. /\ Chained(frames) /\ fp \in 1..Len(frames) /\ DOMAIN frames = 1..Len(frames)
      /\ Len(frames) \in Nat
  BY DEF IInv, TypeOK
<1> HIDE DEF level
<1>4. /\ Reach(frames, fp, level) \in 1..fp
      /\ frames[Reach(frames, fp, level)].block = Around(frames[fp].block, level)
  BY <1>1, <1>2, <1>3, ReachBlock
<1> QED
  BY <1>1, <1>2, <1>3, <1>4 DEF FrameAt, level

(* A frame made for a procedure, hung on one of the block it is declared    *)
(* in, keeps the invariant.                                                 *)
LEMMA EnterKeeps ==
  ASSUME IInv, NEW id \in DOMAIN block, NEW link \in DOMAIN frames,
         frames[link].block = Up(block[id]), Enter(id, link)
  PROVE  IInv'
<1> DEFINE n == Len(frames)
           x == [block |-> block[id], slink |-> link]
           c == [fp |-> fp, proc |-> id, mark |-> withs]
<1>1. /\ frames' = Append(frames, x) /\ fp' = n + 1 /\ calls' = Append(calls, c)
      /\ refs' \subseteq refs /\ block' = block /\ withs' = withs
  BY DEF Enter
<1>2. /\ frames \in Seq(Frame) /\ n \in Nat /\ n > 1 /\ DOMAIN frames = 1..n
      /\ fp \in 1..n /\ link \in 1..n /\ withs \in Nat
      /\ calls \in Seq(Record(frames, block))
      /\ block[id] \in Seq(Nat) /\ Len(block[id]) > 1
  BY Typed
<1>3. x \in Frame
  BY <1>2 DEF Frame
<1>4. /\ frames' \in Seq(Frame) /\ Len(frames') = n + 1 /\ DOMAIN frames' = 1..(n + 1)
      /\ frames'[n + 1] = x /\ \A f \in 1..n : frames'[f] = frames[f]
  BY <1>1, <1>2, <1>3
<1>5. /\ Len(calls) \in Nat /\ Len(calls') = Len(calls) + 1
      /\ DOMAIN calls' = 1..(Len(calls) + 1) /\ DOMAIN calls = 1..Len(calls)
      /\ calls'[Len(calls) + 1] = c /\ \A k \in 1..Len(calls) : calls'[k] = calls[k]
      /\ calls' \in Seq(Record(frames', block))
  <2>1. c \in Record(frames', block)
    BY <1>2, <1>4 DEF Record
  <2>2. Record(frames, block) \subseteq Record(frames', block)
    BY <1>2, <1>4 DEF Record
  <2>3. calls \in Seq(Record(frames', block))
    BY <1>2, <2>2
  <2> QED
    BY <1>1, <1>2, <2>1, <2>3
<1>6. fp' \in DOMAIN frames'
  BY <1>1, <1>2, <1>4
<1>7. TypeOK'
  <2>1. refs' \subseteq [proc : DOMAIN block', link : DOMAIN frames']
    BY <1>1, <1>2, <1>4 DEF IInv, TypeOK
  <2>2. \A j \in DOMAIN block' : block'[j] \in Seq(Nat) /\ Len(block'[j]) > 1
    BY <1>1 DEF IInv, TypeOK
  <2> QED
    BY <1>1, <1>2, <1>4, <1>5, <1>6, <2>1, <2>2 DEF TypeOK, Frame, Record
<1>8. Chained(frames')
  <2>1. ASSUME NEW f \in 2..(n + 1)
        PROVE  /\ frames'[f].block # <<>>
               /\ frames'[f].slink \in 1..(f - 1)
               /\ frames'[frames'[f].slink].block = Up(frames'[f].block)
    <3>1. CASE f = n + 1
      BY <1>2, <1>4, <3>1
    <3>2. CASE f # n + 1
      <4>1. f \in 2..n /\ f \in 1..n
        BY <1>2, <3>2
      <4>2. /\ frames[f].block # <<>> /\ frames[f].slink \in 1..(f - 1)
            /\ frames[frames[f].slink].block = Up(frames[f].block)
        BY <4>1 DEF IInv, Chained
      <4>3. frames[f].slink \in 1..n
        BY <1>2, <4>1, <4>2
      <4> QED
        BY <1>4, <4>1, <4>2, <4>3
    <3> QED
      BY <3>1, <3>2
  <2>2. frames'[1].block = <<>> /\ frames'[1].slink = 0
    <3>1. 1 \in 1..n
      BY <1>2
    <3> QED
      BY <1>4, <3>1 DEF IInv, Chained
  <2> QED
    BY <1>2, <1>4, <2>1, <2>2 DEF Chained
<1>9. OwnBlock'
  <2>1. frames'[fp'].block = block[id]
    BY <1>1, <1>4
  <2>2. Owned(block, frames, fp, calls)
    BY OwnedIs DEF IInv
  <2>3. ASSUME NEW k \in 0..Len(calls)
        PROVE  Ran(block', calls', k) = Ran(block, calls, k)
    BY <1>1, <1>5 DEF Ran
  <2>4. ASSUME NEW k \in DOMAIN calls'
        PROVE  frames'[calls'[k].fp].block = Ran(block', calls', k - 1)
    <3>1. k - 1 \in 0..Len(calls)
      BY <1>5
    <3>2. Ran(block', calls', k - 1) = Ran(block, calls, k - 1)
      BY <2>3, <3>1
    <3>3. CASE k = Len(calls) + 1
      BY <1>2, <1>4, <1>5, <2>2, <3>2, <3>3 DEF Owned
    <3>4. CASE k # Len(calls) + 1
      <4>1. k \in 1..Len(calls) /\ calls'[k] = calls[k]
        BY <1>5, <3>4
      <4>2. frames[calls[k].fp].block = Ran(block, calls, k - 1)
        BY <1>5, <2>2, <4>1 DEF Owned
      <4>3. calls[k].fp \in 1..n
        BY <4>1, Typed
      <4> QED
        BY <1>4, <3>2, <4>1, <4>2, <4>3
    <3> QED
      BY <3>3, <3>4
  <2>5. Ran(block', calls', Len(calls')) = block[id]
    BY <1>1, <1>5 DEF Ran
  <2> QED
    BY <2>1, <2>4, <2>5, OwnedNext DEF Owned
<1>10. RefsInScope'
  <2>1. ASSUME NEW r \in refs'
        PROVE  frames'[r.link].block = Up(block'[r.proc])
    <3>1. r \in refs /\ r.link \in 1..n
      BY <1>1, <1>2 DEF IInv, TypeOK
    <3> QED
      BY <1>1, <1>4, <3>1 DEF IInv, RefsInScope
  <2> QED
    BY <2>1 DEF RefsInScope
<1>11. WithsNested'
  <2>1. Mark' = withs /\ withs <= withs
    <3>1. calls' # <<>> /\ Last(calls') = c
      BY <1>5 DEF Last
    <3> QED
      BY <1>2, <3>1 DEF Mark
  <2>2. ASSUME NEW k \in DOMAIN calls', k > 1
        PROVE  calls'[k - 1].mark <= calls'[k].mark
    <3>1. CASE k = Len(calls) + 1
      <4>1. Len(calls) \in 1..Len(calls) /\ calls # <<>> /\ k - 1 = Len(calls)
        BY <1>5, <2>2, <3>1
      <4>2. calls[Len(calls)].mark <= withs
        BY <4>1 DEF IInv, WithsNested, Mark, Last
      <4> QED
        BY <1>5, <3>1, <4>1, <4>2
    <3>2. CASE k # Len(calls) + 1
      <4>1. k \in 1..Len(calls) /\ k - 1 \in 1..Len(calls)
        BY <1>5, <2>2, <3>2
      <4> QED
        BY <1>5, <2>2, <4>1 DEF IInv, WithsNested
    <3> QED
      BY <3>1, <3>2
  <2> QED
    BY <1>1, <2>1, <2>2 DEF WithsNested
<1> QED
  BY <1>7, <1>8, <1>9, <1>10, <1>11 DEF IInv

(* Before the procedures are known nothing was called.                      *)
LEMMA LoadKeeps == IInv /\ Load => IInv'
<1> SUFFICES ASSUME IInv, Load
             PROVE  IInv'
  OBVIOUS
<1>1. /\ DOMAIN block = {} /\ frames' = frames /\ fp' = fp /\ calls' = calls
      /\ refs' = refs /\ withs' = withs
      /\ \A id \in DOMAIN block' : block'[id] \in Seq(Nat) /\ Len(block'[id]) > 1
  BY DEF Load
<1>2. refs = {}
  BY <1>1, Typed
<1>3. calls = <<>> /\ Len(calls) = 0 /\ DOMAIN calls = {}
  <2>1. ASSUME Len(calls) > 0
        PROVE  FALSE
    <3>1. 1 \in 1..Len(calls)
      BY <2>1, Typed
    <3> QED
      BY <1>1, <3>1, Typed
  <2> QED
    BY <2>1, Typed
<1>4. TypeOK'
  <2>1. calls' \in Seq([fp : DOMAIN frames', proc : DOMAIN block', mark : Nat])
    BY <1>1, <1>3
  <2>2. frames' \in Seq([block : Seq(Nat), slink : Nat]) /\ fp' \in DOMAIN frames' /\ withs' \in Nat
    BY <1>1 DEF IInv, TypeOK
  <2> QED
    BY <1>1, <1>2, <2>1, <2>2 DEF TypeOK
<1>5. Chained(frames')
  BY <1>1 DEF IInv
<1>6. OwnBlock'
  BY <1>1, <1>3, OwnedIs, OwnedNext DEF IInv, Owned, Ran
<1>7. RefsInScope'
  BY <1>1, <1>2 DEF RefsInScope
<1>8. WithsNested'
  BY <1>1 DEF IInv, WithsNested, Mark
<1> QED
  BY <1>4, <1>5, <1>6, <1>7, <1>8 DEF IInv

(* A call by name, and one of a procedure that was passed. *)
LEMMA CallKeeps ==
  ASSUME IInv, NEW id, Call(id)
  PROVE  IInv'
BY VisibleFrame, EnterKeeps DEF Call, Visible

LEMMA CallRefKeeps ==
  ASSUME IInv, NEW r, CallRef(r)
  PROVE  IInv'
<1>1. r \in refs /\ Enter(r.proc, r.link)
  BY DEF CallRef
<1>2. /\ r.proc \in DOMAIN block /\ r.link \in DOMAIN frames
      /\ frames[r.link].block = Up(block[r.proc])
  BY <1>1, Typed DEF IInv, RefsInScope
<1> QED
  BY <1>1, <1>2, EnterKeeps

(* What is passed is in scope when it is named. *)
LEMMA ReferKeeps ==
  ASSUME IInv, NEW id, Refer(id)
  PROVE  IInv'
<1> DEFINE new == [proc |-> id, link |-> FrameAt(fp, Level(id))]
<1>1. /\ Visible(id) /\ refs' \subseteq refs \cup {new} /\ id \in DOMAIN block
      /\ block' = block /\ frames' = frames /\ fp' = fp /\ calls' = calls /\ withs' = withs
  BY DEF Refer, Visible
<1>2. new.proc = id /\ new.link \in DOMAIN frames /\ frames[new.link].block = Up(block[id])
  BY <1>1, VisibleFrame
<1>3. new \in [proc : DOMAIN block, link : DOMAIN frames]
  BY <1>1, <1>2
<1> HIDE DEF new
<1>4. TypeOK'
  BY <1>1, <1>3 DEF IInv, TypeOK
<1>5. RefsInScope'
  BY <1>1, <1>2 DEF IInv, RefsInScope
<1>6. Chained(frames') /\ OwnBlock' /\ WithsNested'
  BY <1>1 DEF IInv, OwnBlock, Running, WithsNested, Mark
<1> QED
  BY <1>4, <1>5, <1>6 DEF IInv

(* A return takes the last call away, and nothing else. *)
LEMMA ReturnKeeps == IInv /\ Return => IInv'
<1> SUFFICES ASSUME IInv, Return
             PROVE  IInv'
  OBVIOUS
<1> DEFINE n == Len(calls)
<1>1. /\ calls # <<>> /\ fp' = Last(calls).fp /\ calls' = Front(calls)
      /\ withs' = Mark /\ refs' \subseteq refs /\ block' = block /\ frames' = frames
  BY DEF Return
<1>2. /\ calls \in Seq(Record(frames, block)) /\ n \in Nat /\ n > 0
      /\ DOMAIN calls = 1..n /\ n \in 1..n
  BY <1>1, Typed
<1>3. /\ fp' = calls[n].fp /\ Mark = calls[n].mark
  BY <1>1, <1>2 DEF Last, Mark
<1>4. /\ calls' \in Seq(Record(frames, block)) /\ Len(calls') = n - 1
      /\ DOMAIN calls' = 1..(n - 1) /\ \A k \in 1..(n - 1) : calls'[k] = calls[k]
  BY <1>1, <1>2 DEF Front
<1>5. TypeOK'
  <2>1. fp' \in DOMAIN frames' /\ withs' \in Nat
    BY <1>1, <1>2, <1>3, Typed
  <2>2. calls' \in Seq([fp : DOMAIN frames', proc : DOMAIN block', mark : Nat])
    BY <1>1, <1>4 DEF Record
  <2>3. /\ frames' \in Seq([block : Seq(Nat), slink : Nat])
        /\ refs' \subseteq [proc : DOMAIN block', link : DOMAIN frames']
        /\ \A id \in DOMAIN block' : block'[id] \in Seq(Nat) /\ Len(block'[id]) > 1
    BY <1>1 DEF IInv, TypeOK
  <2> QED
    BY <2>1, <2>2, <2>3 DEF TypeOK
<1>6. OwnBlock'
  <2>1. Owned(block, frames, fp, calls)
    BY OwnedIs DEF IInv
  <2>2. ASSUME NEW k \in 0..(n - 1)
        PROVE  Ran(block', calls', k) = Ran(block, calls, k)
    BY <1>1, <1>4 DEF Ran
  <2>3. frames'[fp'].block = Ran(block', calls', n - 1)
    BY <1>1, <1>2, <1>3, <2>1, <2>2 DEF Owned
  <2>4. ASSUME NEW k \in DOMAIN calls'
        PROVE  frames'[calls'[k].fp].block = Ran(block', calls', k - 1)
    <3>1. k \in 1..(n - 1) /\ k \in 1..n /\ k - 1 \in 0..(n - 1)
      BY <1>2, <1>4
    <3> QED
      BY <1>1, <1>2, <1>4, <2>1, <2>2, <3>1 DEF Owned
  <2> QED
    BY <1>4, <2>3, <2>4, OwnedNext DEF Owned
<1>7. WithsNested'
  <2>1. \A k \in 1..n : k > 1 => calls[k - 1].mark <= calls[k].mark
    BY <1>2 DEF IInv, WithsNested
  <2>2. ASSUME NEW k \in DOMAIN calls', k > 1
        PROVE  calls'[k - 1].mark <= calls'[k].mark
    <3>1. k \in 1..(n - 1) /\ k - 1 \in 1..(n - 1) /\ k \in 1..n
      BY <1>2, <1>4, <2>2
    <3> QED
      BY <1>4, <2>1, <2>2, <3>1
  <2>3. Mark' <= withs'
    <3>1. CASE n = 1
      <4>1. calls' = <<>>
        BY <1>4, <3>1
      <4> QED
        BY <1>1, <1>2, <1>3, <4>1, Typed DEF Mark
    <3>2. CASE n # 1
      <4>1. calls' # <<>> /\ n - 1 \in 1..(n - 1) /\ n > 1
        BY <1>2, <1>4, <3>2
      <4>2. Mark' = calls[n - 1].mark
        BY <1>4, <4>1 DEF Mark, Last
      <4> QED
        BY <1>1, <1>2, <1>3, <2>1, <4>1, <4>2
    <3> QED
      BY <3>1, <3>2
  <2> QED
    BY <2>2, <2>3 DEF WithsNested
<1>8. Chained(frames') /\ RefsInScope'
  BY <1>1 DEF IInv, RefsInScope
<1> QED
  BY <1>5, <1>6, <1>7, <1>8 DEF IInv

(* Other instructions stay above the mark. *)
LEMMA OtherKeeps == IInv /\ Other => IInv'
<1> SUFFICES ASSUME IInv, Other
             PROVE  IInv'
  OBVIOUS
<1>1. /\ withs' \in Mark..(withs + 1) /\ refs' \subseteq refs
      /\ block' = block /\ frames' = frames /\ fp' = fp /\ calls' = calls
  BY DEF Other
<1>2. Mark \in Nat
  <2>1. CASE calls = <<>>
    BY <2>1 DEF Mark
  <2>2. CASE calls # <<>>
    <3>1. Len(calls) \in 1..Len(calls)
      BY <2>2, Typed
    <3> QED
      BY <2>2, <3>1, Typed DEF Mark, Last
  <2> QED
    BY <2>1, <2>2
<1>3. withs' \in Nat /\ Mark <= withs'
  BY <1>1, <1>2, Typed
<1>4. TypeOK'
  BY <1>1, <1>3 DEF IInv, TypeOK
<1>5. WithsNested'
  BY <1>1, <1>3 DEF IInv, WithsNested, Mark
<1>6. Chained(frames') /\ OwnBlock' /\ RefsInScope'
  BY <1>1 DEF IInv, OwnBlock, Running, RefsInScope
<1> QED
  BY <1>4, <1>5, <1>6 DEF IInv

(* Every step keeps the invariant. *)
LEMMA NextKeeps == IInv /\ [Next]_vars => IInv'
<1> SUFFICES ASSUME IInv, [Next]_vars
             PROVE  IInv'
  OBVIOUS
<1>1. CASE Load
  BY <1>1, LoadKeeps
<1>2. CASE \E id \in DOMAIN block : Call(id) \/ Refer(id)
  BY <1>2, CallKeeps, ReferKeeps
<1>3. CASE \E r \in refs : CallRef(r)
  BY <1>3, CallRefKeeps
<1>4. CASE Return
  BY <1>4, ReturnKeeps
<1>5. CASE Other
  BY <1>5, OtherKeeps
<1>6. CASE UNCHANGED vars
  <2>1. /\ block' = block /\ frames' = frames /\ fp' = fp /\ calls' = calls
        /\ refs' = refs /\ withs' = withs
    BY <1>6 DEF vars
  <2> QED
    BY <2>1 DEF IInv, TypeOK, OwnBlock, Running, RefsInScope, WithsNested, Mark
<1> QED
  BY <1>1, <1>2, <1>3, <1>4, <1>5, <1>6 DEF Next

(* The invariant of the activations of procedures: the frames that there    *)
(* are, what runs in which, what was passed and the WITHs of every call.    *)
THEOREM Activation == Spec => []IInv
<1>1. Init => IInv
  BY InitInv
<1>2. IInv /\ [Next]_vars => IInv'
  BY NextKeeps
<1> QED
  BY <1>1, <1>2, PTL DEF Spec

-----------------------------------------------------------------------------
(* The properties. *)

(* The state of the machine is well formed. *)
THEOREM TypeCorrect == Spec => []TypeOK
<1>1. IInv => TypeOK
  BY DEF IInv
<1> QED
  BY <1>1, Activation, PTL

(* Every frame hangs on a frame of the block its procedure is declared in.  *)
THEOREM ChainedToScope == Spec => []StaticChain
<1>1. IInv => StaticChain
  <2> SUFFICES ASSUME IInv, NEW f \in DOMAIN frames, f > 1
               PROVE  /\ frames[f].slink \in 1..(f - 1)
                      /\ frames[frames[f].slink].block = Up(frames[f].block)
    BY DEF StaticChain
  <2>1. f \in 2..Len(frames)
    BY Typed
  <2> QED
    BY <2>1 DEF IInv, Chained
<1> QED
  BY <1>1, Activation, PTL

(* Code runs in a frame of its own block. *)
THEOREM RunsInOwnBlock == Spec => []OwnBlock
<1>1. IInv => OwnBlock
  BY DEF IInv
<1> QED
  BY <1>1, Activation, PTL

(* A procedure passed as a parameter is in scope for as long as it can be   *)
(* called.                                                                  *)
THEOREM PassedInScope == Spec => []RefsInScope
<1>1. IInv => RefsInScope
  BY DEF IInv
<1> QED
  BY <1>1, Activation, PTL

(* The walk by levels ends at a frame of the block that lies around there.  *)
THEOREM WalksToBlock == Spec => []BlocksReached
<1>1. IInv => BlocksReached
  <2> SUFFICES ASSUME IInv, NEW f \in DOMAIN frames, NEW level \in 0..Len(frames[f].block)
               PROVE  /\ FrameAt(f, level) \in 1..f
                      /\ frames[FrameAt(f, level)].block = Around(frames[f].block, level)
    BY DEF BlocksReached
  <2>1. f \in 1..Len(frames) /\ Chained(frames)
    BY Typed DEF IInv
  <2>2. level \in Nat /\ level <= Len(frames[f].block)
    <3>1. frames[f].block \in Seq(Nat)
      BY <2>1, LinksGoBack DEF Frame
    <3> QED
      BY <3>1
  <2> QED
    BY <2>1, <2>2, ReachBlock DEF FrameAt
<1> QED
  BY <1>1, Activation, PTL

(* No procedure closes a WITH of its caller. *)
THEOREM CallersWithsKept == Spec => []WithsNested
<1>1. IInv => WithsNested
  BY DEF IInv
<1> QED
  BY <1>1, Activation, PTL

(* From a new frame the walk goes where it goes from its link.              *)
LEMMA EnterSurrounds ==
  ASSUME IInv, NEW id \in DOMAIN block, NEW link \in DOMAIN frames,
         frames[link].block = Up(block[id]), Enter(id, link), NEW level \in 0..Level(id)
  PROVE  Reach(frames', fp', level) = Reach(frames, link, level)
<1> DEFINE n == Len(frames)
           x == [block |-> block[id], slink |-> link]
<1>1. frames' = Append(frames, x) /\ fp' = n + 1
  BY DEF Enter
<1>2. /\ frames \in Seq(Frame) /\ n \in Nat /\ n > 1 /\ link \in 1..n
      /\ block[id] \in Seq(Nat) /\ Len(block[id]) > 1
  BY Typed
<1>3. frames'[n + 1] = x /\ \A f \in 1..n : frames'[f] = frames[f]
  BY <1>1, <1>2
<1>4. \A f \in 1..n : frames[f].slink \in 0..(f - 1)
  BY LinksGoBack DEF IInv
<1>5. \A f \in 1..(n + 1) : frames'[f].slink \in 0..((n + 1) - 1) /\ frames'[f].slink \in 0..(f - 1)
  <2> SUFFICES ASSUME NEW f \in 1..(n + 1)
               PROVE  frames'[f].slink \in 0..((n + 1) - 1) /\ frames'[f].slink \in 0..(f - 1)
    OBVIOUS
  <2>1. CASE f = n + 1
    BY <1>2, <1>3, <2>1
  <2>2. CASE f # n + 1
    <3>1. f \in 1..n
      BY <1>2, <2>2
    <3>2. frames'[f].slink \in 0..(f - 1)
      BY <1>3, <1>4, <3>1
    <3> QED
      BY <1>2, <3>1, <3>2
  <2> QED
    BY <2>1, <2>2
<1>6. Len(frames'[n + 1].block) > level
  BY <1>2, <1>3 DEF Level
<1>7. Reach(frames', n + 1, level) = Reach(frames', link, level)
  <2>1. n + 1 \in Nat \ {0} /\ frames'[n + 1].slink = link
    BY <1>2, <1>3
  <2> QED
    BY <1>5, <1>6, <2>1, ReachStep
<1>8. Reach(frames', link, level) = Reach(frames, link, level)
  <2>1. link \in Nat /\ \A g \in 1..link : frames[g].slink \in 0..(g - 1) /\ frames'[g] = frames[g]
    BY <1>2, <1>3, <1>4
  <2> QED
    BY <2>1, ReachExtended
<1> QED
  BY <1>1, <1>7, <1>8

(* Around a procedure that is called are the frames that were around the    *)
(* place that named it.                                                     *)
THEOREM ScopesKept == Spec => ScopeKept
<1>1. ASSUME IInv, NEW id \in DOMAIN block, Call(id)
      PROVE  Surrounded(fp, id)
  <2> DEFINE link == FrameAt(fp, Level(id))
  <2>1. Visible(id) /\ Enter(id, link)
    BY <1>1 DEF Call
  <2>2. /\ link \in DOMAIN frames /\ frames[link].block = Up(block[id])
        /\ Level(id) \in Nat /\ Level(id) <= Len(frames[fp].block)
    BY <1>1, <2>1, VisibleFrame
  <2>3. ASSUME NEW level \in 0..Level(id)
        PROVE  Reach(frames', fp', level) = Reach(frames, fp, level)
    <3>1. Reach(frames', fp', level) = Reach(frames, link, level)
      BY <1>1, <2>1, <2>2, EnterSurrounds
    <3>2. Chained(frames) /\ fp \in 1..Len(frames)
      BY <1>1, Typed DEF IInv
    <3>3. Reach(frames, Reach(frames, fp, Level(id)), level) = Reach(frames, fp, level)
      BY <2>2, <3>2, ReachThrough
    <3> QED
      BY <3>1, <3>3 DEF FrameAt
  <2> QED
    BY <2>3 DEF Surrounded, FrameAt
<1>2. ASSUME IInv, NEW r \in refs, CallRef(r)
      PROVE  Surrounded(r.link, r.proc)
  <2>1. /\ Enter(r.proc, r.link)
        /\ r.proc \in DOMAIN block /\ r.link \in DOMAIN frames
        /\ frames[r.link].block = Up(block[r.proc])
    BY <1>2, Typed DEF CallRef, IInv, RefsInScope
  <2>2. \A level \in 0..Level(r.proc) :
          Reach(frames', fp', level) = Reach(frames, r.link, level)
    BY <1>2, <2>1, EnterSurrounds
  <2> QED
    BY <2>2 DEF Surrounded, FrameAt
<1> DEFINE Shared == /\ \A id \in DOMAIN block : Call(id) => Surrounded(fp, id)
                   /\ \A r \in refs : CallRef(r) => Surrounded(r.link, r.proc)
<1>3. IInv /\ [Next]_vars => [Shared]_vars
  BY <1>1, <1>2
<1> QED
  BY <1>3, Activation, PTL DEF Spec, ScopeKept
=============================================================================
