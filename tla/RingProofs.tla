----------------------------- MODULE RingProofs -----------------------------
(***************************************************************************)
(* Proofs about module Ring, for any files, IRPs, processors and sizes of  *)
(* the two rings: each IRP is in one place, a closed file has none, the    *)
(* shared page is used only while it is there, no wake-up is lost, and     *)
(* each direction is the queue of characters of module RingFifo, each as   *)
(* long as what it depends on does not overlap the DPC.                    *)
(***************************************************************************)
EXTENDS Ring, SequenceFacts

Holding == {"copyin", "copyingin", "copyout", "copyingout"}

(* The types of TypeOK, of the queues, of the files and of the page.       *)
QueueType ==
  /\ queue \in [{"read", "write"} -> Seq(Irps)]
  /\ status \in [Irps -> {"idle", "pending"}]
  /\ cancel \subseteq Irps

FileType == file \in [Files -> {"open", "reads", "writes", "closed"}]

PageType ==
  /\ queued \in BOOLEAN /\ connected \in BOOLEAN /\ enabled \in BOOLEAN
  /\ pending \in BOOLEAN /\ masked \in BOOLEAN
  /\ in_prod \in 0 .. IdxMod - 1 /\ in_cons \in 0 .. IdxMod - 1
  /\ out_prod \in 0 .. IdxMod - 1 /\ out_cons \in 0 .. IdxMod - 1
  /\ in \in [0 .. InSize - 1 -> 0 .. IdxMod - 1]
  /\ out \in [0 .. OutSize - 1 -> 0 .. IdxMod - 1]

LeftType == left \subseteq {"read", "write", "event"}

(* The DPC holds an IRP exactly while it copies for it, of the kind that it *)
(* copies for.                                                              *)
DpcType ==
  /\ pc \in [Cpus -> {"idle", "check", "read", "copyin", "copyingin", "write",
                      "copyout", "copyingout", "unmask"}]
  /\ held \in [Cpus -> Irps \union {None}]
  /\ snap \in [Cpus -> [prod : 0 .. IdxMod - 1, cons : 0 .. IdxMod - 1]]
  /\ \A c \in Cpus : /\ held[c] # None => pc[c] \in Holding
                     /\ pc[c] \in {"copyin", "copyingin"} => held[c] \in Reads
                     /\ pc[c] \in {"copyout", "copyingout"} => held[c] \in Irps \ Reads

MovedType ==
  /\ moved \in [{"read", "write"} -> Seq(0 .. IdxMod - 1)]
  /\ \A q \in {"read", "write"} :
       moved[q] # << >> => \E i \in Irps : Kind(i) = q /\ Len(moved[q]) <= Length[i]

Queued(i) == Contains(queue["read"], i) \/ Contains(queue["write"], i)

(* Who is on a queue is there once, of its kind, pending, not cancelled and *)
(* not held; who is held is pending and held by one processor; who is       *)
(* pending is somewhere; and only the held can have a cancellation to come. *)
Accounted ==
  /\ IsInjective(queue["read"]) /\ IsInjective(queue["write"])
  /\ \A i \in Irps :
       /\ Contains(queue["read"], i) => i \in Reads
       /\ Contains(queue["write"], i) => i \notin Reads
       /\ Queued(i) => status[i] = "pending" /\ i \notin cancel
                       /\ \A c \in Cpus : held[c] # i
       /\ status[i] = "pending" => Queued(i) \/ \E c \in Cpus : held[c] = i
       /\ i \in cancel => \E c \in Cpus : held[c] = i
       /\ \A c, d \in Cpus : held[c] = i /\ held[d] = i => c = d
       /\ \A c \in Cpus : held[c] = i => status[i] = "pending"

(* While the DPC does not meet RingClose, no file is between two states as *)
(* long as the DPC runs, and what has been cancelled stays so.              *)
Closing ==
  "close" \notin races =>
    /\ (\E c \in Cpus : pc[c] # "idle") => \A f \in Files : file[f] \in {"open", "closed"}
    /\ \A i \in Irps :
         /\ file[FileOf[i]] = "writes" /\ i \in Reads => status[i] # "pending"
         /\ file[FileOf[i]] = "closed" => status[i] # "pending"

(* The page is there while the ring is enabled; whoever can queue the DPC   *)
(* or polls finds it there, unless it is disconnected or used early.        *)
PageThere ==
  /\ enabled => connected
  /\ pending => connected
  /\ ~connected => in_prod = 0 /\ in_cons = 0 /\ out_prod = 0 /\ out_cons = 0
  /\ "disconnect" \notin races => \A c \in Cpus : Polling(c) => enabled
  /\ races \intersect {"disconnect", "early"} = {} =>
       /\ queued => connected
       /\ \A c \in Cpus : pc[c] # "idle" => connected

(* One DPC at a time: a masked channel has a DPC to come that unmasks it,  *)
(* or one has not; when nothing is to come that looks at the ring again,    *)
(* what the DPC copies from is what there is, and what it has looked at is  *)
(* blocked, or left behind.                                                 *)
WakeupToCome ==
  "dpc" \notin races =>
    /\ \A c \in Cpus \ {Boot} : pc[c] = "idle"
    /\ connected /\ masked => queued \/ pc[Boot] # "idle" \/ "event" \in left
    /\ connected /\ enabled /\ ~queued /\ ~pending =>
         /\ pc[Boot] = "copyingin" => snap[Boot] = [prod |-> in_prod, cons |-> in_cons]
         /\ pc[Boot] = "copyingout" => snap[Boot] = [prod |-> out_prod, cons |-> out_cons]
         /\ (/\ pc[Boot] \in {"idle", "write", "copyout", "copyingout", "unmask"}
             /\ queue["read"] # << >> /\ "read" \notin left)
              => InAvailable(in_prod, in_cons) = 0
         /\ (/\ pc[Boot] \in {"idle", "unmask"}
             /\ queue["write"] # << >> /\ "write" \notin left)
              => OutAvailable(out_prod, out_cons) = 0

(* Without a second processor or a disconnection, what the DPC copies from  *)
(* is what the ring still has, and neither ring holds more than it can.     *)
Indices ==
  Undisturbed =>
    /\ Less(in_prod, in_cons) <= InSize
    /\ Less(out_prod, out_cons) <= OutSize
    /\ \A c \in Cpus :
         /\ pc[c] = "copyingin" => /\ snap[c].cons = in_cons
                                   /\ Less(snap[c].prod, in_cons) <= Less(in_prod, in_cons)
         /\ pc[c] = "copyingout" => /\ snap[c].prod = out_prod
                                    /\ Less(out_prod, out_cons) <= Less(out_prod, snap[c].cons)
                                    /\ Less(out_prod, snap[c].cons) <= OutSize

IInv == /\ QueueType /\ FileType /\ PageType /\ LeftType /\ DpcType /\ MovedType
        /\ Accounted /\ Closing /\ PageThere /\ WakeupToCome /\ Indices
-----------------------------------------------------------------------------
(* What a remainder is. *)
LEMMA ModDef ==
  ASSUME NEW d \in Nat \ {0}, NEW x \in Nat
  PROVE  x % d \in 0 .. d - 1 /\ x \div d \in Nat /\ x = d * (x \div d) + (x % d)
  OBVIOUS

(* A remainder is known by the quotient it goes with.                      *)
LEMMA ModUnique ==
  ASSUME NEW d \in Nat \ {0}, NEW q \in Int, NEW r \in 0 .. d - 1, d * q + r \in Nat
  PROVE  (d * q + r) % d = r
  OBVIOUS

(* A remainder of what is less than twice the divisor.                     *)
LEMMA ModOnce ==
  ASSUME NEW d \in Nat \ {0}, NEW x \in 0 .. 2 * d - 1
  PROVE  x % d = IF x < d THEN x ELSE x - d
  OBVIOUS

(* A multiple of the divisor leaves the remainder as it is.                *)
LEMMA ModShift ==
  ASSUME NEW d \in Nat \ {0}, NEW m \in Nat, m % d = 0, NEW x \in Nat
  PROVE  (x + m) % d = x % d
<1> DEFINE q == x \div d
           r == x % d
           k == m \div d
           s == q + k
<1>1. q \in Nat /\ r \in 0 .. d-1 /\ k \in Nat /\ x = d * q + r /\ m = d * k
      /\ x % d = r
  BY ModDef
<1>2. x + m = d * s + r
  BY <1>1
<1>3. s \in Int /\ d * s + r \in Nat
  BY <1>1
<1> HIDE DEF q, r, k, s
<1>4. (d * s + r) % d = r
  BY <1>1, <1>3, ModUnique
<1> QED
  BY <1>1, <1>2, <1>4

(* Numbers less than the divisor apart have different remainders.          *)
LEMMA ModDistinct ==
  ASSUME NEW d \in Nat \ {0}, NEW x \in Nat, NEW y \in Nat, x < y, y < x + d
  PROVE  x % d # y % d
<1> DEFINE q == x \div d
           p == y \div d
           r == x % d
           t == y % d
<1>1. /\ q \in Nat /\ p \in Nat /\ r \in 0 .. d - 1 /\ t \in 0 .. d - 1
      /\ x = d * q + r /\ y = d * p + t
  BY ModDef
<1> HIDE DEF q, p, r, t
<1>2. ASSUME r = t PROVE FALSE
  <2>1. CASE p <= q
    <3>1. d * p <= d * q
      BY <1>1, <2>1
    <3> QED
      BY <1>1, <1>2, <3>1
  <2>2. CASE p >= q + 1
    <3>1. d * p >= d * (q + 1)
      BY <1>1, <2>2
    <3>2. d * (q + 1) = d * q + d
      BY <1>1
    <3> QED
      BY <1>1, <1>2, <3>1, <3>2
  <2> QED
    BY <1>1, <2>1, <2>2
<1> QED
  BY <1>2 DEF r, t

(* A remainder can be taken first by a multiple of the divisor.            *)
LEMMA ModMod ==
  ASSUME NEW d \in Nat \ {0}, NEW m \in Nat \ {0}, m % d = 0, NEW x \in Nat
  PROVE  (x % m) % d = x % d
<1> DEFINE q == x \div m
           r == x % m
           k == m \div d
           j == m * q
           s == k * q
<1>1. q \in Nat /\ r \in 0 .. m - 1 /\ k \in Nat /\ x = j + r /\ m = d * k
  BY ModDef
<1>2. j \in Nat /\ s \in Nat /\ j = d * s
  BY <1>1
<1> HIDE DEF q, r, k, j, s
<1>3. j % d = 0
  <2>1. 0 \in 0 .. d - 1 /\ s \in Int /\ d * s + 0 \in Nat
    BY <1>2
  <2>2. (d * s + 0) % d = 0
    BY <2>1, ModUnique
  <2> QED
    BY <1>2, <2>2
<1>4. (r + j) % d = r % d
  <2>1. r \in Nat
    BY <1>1
  <2> QED
    BY <1>2, <1>3, <2>1, ModShift
<1>5. x = r + j
  BY <1>1, <1>2
<1> QED
  BY <1>4, <1>5 DEF r

(* What is added without passing the divisor is added to the remainder.    *)
LEMMA ModAdd ==
  ASSUME NEW d \in Nat \ {0}, NEW x \in Nat, NEW y \in Nat, (x % d) + y < d
  PROVE  (x + y) % d = (x % d) + y
<1> DEFINE q == x \div d
           r == x % d
           s == r + y
<1>1. q \in Nat /\ r \in 0 .. d - 1 /\ x = d * q + r
  BY ModDef
<1>0. s \in 0 .. d - 1
  BY <1>1
<1>2. x + y = d * q + s /\ d * q + s \in Nat
  BY <1>0, <1>1
<1> HIDE DEF q, r, s
<1>3. (d * q + s) % d = s
  BY <1>0, <1>1, <1>2, ModUnique
<1> QED
  BY <1>2, <1>3 DEF r, s

(* When a sequence is one that another continues. *)
LEMMA ConcatEqual ==
  ASSUME NEW S, NEW s \in Seq(S), NEW t \in Seq(S), NEW u \in Seq(S),
         Len(u) = Len(s) + Len(t),
         \A k \in 1 .. Len(s) : u[k] = s[k],
         \A k \in 1 .. Len(t) : u[Len(s) + k] = t[k]
  PROVE  u = s \o t
<1>1. /\ s \o t \in Seq(S)
      /\ Len(s \o t) = Len(s) + Len(t)
      /\ \A k \in 1 .. Len(s) + Len(t) :
           (s \o t)[k] = IF k <= Len(s) THEN s[k] ELSE t[k - Len(s)]
  BY ConcatProperties
<1>2. Len(s) \in Nat /\ Len(t) \in Nat
  BY LenProperties
<1>3. ASSUME NEW k \in 1 .. Len(u) PROVE u[k] = (s \o t)[k]
  <2>1. CASE k <= Len(s)
    BY <1>1, <1>2, <2>1
  <2>2. CASE k > Len(s)
    <3>1. k - Len(s) \in 1 .. Len(t) /\ Len(s) + (k - Len(s)) = k
      BY <1>2, <2>2
    <3> QED
      BY <1>1, <1>2, <2>2, <3>1
  <2> QED
    BY <1>2, <2>1, <2>2
<1> QED
  BY <1>1, <1>3, SeqEqual

(* The copy loop visits the slots from the index on, round the ring, as     *)
(* many as there are or as are wanted.                                      *)
LEMMA SlotsVisited ==
  ASSUME NEW from \in Nat, NEW available \in Nat, NEW length \in Nat,
         NEW size \in {InSize, OutSize}
  PROVE  LET s == Slots(from, available, length, size)
             n == Least(available, length)
         IN  /\ s \in Seq(0 .. size - 1) /\ Len(s) = n
             /\ \A k \in 1 .. n : s[k] = (from + k - 1) % size
<1> DEFINE total == Least(available, length)
           index(done) == ((from + done) % IdxMod) % size
           m(done) == Least(total - done, size - index(done))
           Turn(g, done) == IF done = total THEN << >>
                            ELSE [k \in 1 .. m(done) |-> index(done) + k - 1]
                                   \o g[done + m(done)]
           Rest(done) == [k \in 1 .. total - done |-> (from + done + k - 1) % size]
           Visits == [done \in 0 .. total |-> Rest(done)]
           Loop == CHOOSE g : g = [done \in 0 .. total |-> Turn(g, done)]
<1>1. /\ IdxMod \in Nat \ {0} /\ total \in Nat
      /\ size \in Nat \ {0} /\ IdxMod % size = 0
  BY RingAssumption DEF Least
<1>2. Slots(from, available, length, size) = Loop[0]
  BY DEF Slots
<1> HIDE DEF total
<1>3. ASSUME NEW done \in 0 .. total, done # total
      PROVE  /\ m(done) \in 1 .. total - done /\ done + m(done) \in 0 .. total
             /\ index(done) = (from + done) % size
             /\ \A k \in 1 .. m(done) :
                  index(done) + k - 1 = (from + done + k - 1) % size
  <2>1. from + done \in Nat /\ index(done) = (from + done) % size
    <3>1. from + done \in Nat
      BY <1>1
    <3>2. ((from + done) % IdxMod) % size = (from + done) % size
      BY <1>1, <3>1, ModMod
    <3> QED
      BY <3>1, <3>2
  <2>2. index(done) \in 0 .. size - 1
    BY <1>1, <2>1, ModDef
  <2>3. m(done) \in 1 .. total - done /\ m(done) <= size - index(done)
    BY <1>1, <1>3, <2>2 DEF Least
  <2>4. ASSUME NEW k \in 1 .. m(done)
        PROVE  index(done) + k - 1 = (from + done + k - 1) % size
    <3>1. k - 1 \in Nat /\ ((from + done) % size) + (k - 1) < size
      BY <1>1, <2>1, <2>2, <2>3
    <3>2. ((from + done) + (k - 1)) % size = ((from + done) % size) + (k - 1)
      <4>1. size \in Nat \ {0} /\ from + done \in Nat
        BY <1>1
      <4> QED
        BY <3>1, <4>1, ModAdd, ZenonT(30)
    <3>3. (from + done) + (k - 1) = from + done + k - 1
      BY <2>1
    <3>4. index(done) + k - 1 = ((from + done) % size) + (k - 1)
      BY <2>1, <2>2
    <3> QED
      BY <3>2, <3>3, <3>4
  <2> QED
    BY <1>1, <2>1, <2>3, <2>4
<1>4. \A done \in 0 .. total : Rest(done) \in Seq(Nat) /\ Len(Rest(done)) = total - done
  <2> SUFFICES ASSUME NEW done \in 0 .. total
               PROVE  Rest(done) \in Seq(Nat) /\ Len(Rest(done)) = total - done
    OBVIOUS
  <2>1. total - done \in Nat
    BY <1>1
  <2>2. \A k \in 1 .. total - done : (from + done + k - 1) % size \in Nat
    BY <1>1, ModDef
  <2> QED
    BY <2>1, <2>2, LenProperties
<1> HIDE DEF m, index
<1>5. \A done \in 0 .. total : Rest(done) = Turn(Visits, done)
  <2> SUFFICES ASSUME NEW done \in 0 .. total PROVE Rest(done) = Turn(Visits, done)
    OBVIOUS
  <2>1. CASE done = total
    <3>1. Rest(done) \in Seq(Nat) /\ Len(Rest(done)) = 0
      BY <1>1, <1>4, <2>1
    <3> QED
      BY <2>1, <3>1, EmptySeq
  <2>2. CASE done # total
    <3> DEFINE s == [k \in 1 .. m(done) |-> index(done) + k - 1]
               t == Rest(done + m(done))
    <3>1. /\ m(done) \in 1 .. total - done /\ done + m(done) \in 0 .. total
          /\ m(done) \in Nat
          /\ \A k \in 1 .. m(done) :
               index(done) + k - 1 = (from + done + k - 1) % size
      BY <1>1, <1>3, <2>2
    <3>2. Turn(Visits, done) = s \o t
      BY <2>2, <3>1
    <3>3. \A k \in 1 .. m(done) : index(done) + k - 1 \in Nat
      <4>1. \A k \in 1 .. m(done) : from + done + k - 1 \in Nat
        BY <1>1, <3>1
      <4>2. \A k \in 1 .. m(done) : (from + done + k - 1) % size \in Nat
        BY <1>1, <4>1, ModDef
      <4> QED
        BY <3>1, <4>2
    <3>4. s \in Seq(Nat) /\ Len(s) = m(done)
      BY <3>1, <3>3
    <3>5. t \in Seq(Nat) /\ Len(t) = total - (done + m(done))
      BY <1>4, <3>1
    <3>6. /\ Rest(done) \in Seq(Nat) /\ Len(Rest(done)) = Len(s) + Len(t)
      <4> HIDE DEF s, t, Rest
      <4>1. Len(s) + Len(t) = total - done
        BY <1>1, <3>1, <3>4, <3>5, SMTT(30)
      <4> QED
        BY <1>4, <4>1
    <3>7. \A k \in 1 .. Len(s) : Rest(done)[k] = s[k]
      BY <1>1, <3>1, <3>4
    <3>8. ASSUME NEW k \in 1 .. Len(t) PROVE Rest(done)[Len(s) + k] = t[k]
      <4>1. /\ k \in 1 .. total - (done + m(done))
            /\ Len(s) + k \in 1 .. total - done
            /\ from + done + (m(done) + k) - 1 = from + (done + m(done)) + k - 1
        <5> HIDE DEF s, t, Rest
        <5>1. Len(s) = m(done) /\ Len(t) = total - (done + m(done))
          BY <3>4, <3>5
        <5>2. k \in 1 .. total - (done + m(done)) /\ k \in Nat
          BY <1>1, <3>1, <5>1
        <5>3. m(done) + k \in 1 .. total - done
          BY <1>1, <3>1, <5>2
        <5>4. from + done + (m(done) + k) - 1 = from + (done + m(done)) + k - 1
          <6>1. done \in Nat /\ m(done) \in Nat /\ k \in Nat
            BY <1>1, <3>1, <5>2
          <6> QED
            BY <6>1
        <5> QED
          BY <5>1, <5>2, <5>3, <5>4
      <4> QED
        BY <3>4, <4>1
    <3>9. Rest(done) = s \o t
      <4> HIDE DEF s, t, Rest
      <4> QED
        BY <3>4, <3>5, <3>6, <3>7, <3>8, ConcatEqual
    <3> QED
      BY <3>2, <3>9
  <2> QED
    BY <2>1, <2>2
<1>6. Visits = [done \in 0 .. total |-> Turn(Visits, done)]
  BY <1>5
<1> HIDE DEF Rest, Visits
<1>7. Loop = [done \in 0 .. total |-> Turn(Loop, done)]
  <2>1. \E g : g = [done \in 0 .. total |-> Turn(g, done)]
    BY <1>6
  <2> QED
    BY <2>1
<1> HIDE DEF Loop
<1>8. ASSUME NEW done \in 0 .. total PROVE Loop[done] = Visits[done]
  <2> DEFINE Bad == {n \in Nat : n <= total /\ Loop[total - n] # Visits[total - n]}
  <2>1. ASSUME NEW n \in Bad PROVE FALSE
    <3>1. PICK x \in Bad : \A y \in Bad : ~(<<y, x>> \in OpToRel(<, Nat))
      BY <2>1, NatLessThanWellFounded, WFMin
    <3>2. \A y \in Bad : ~(y < x)
      BY <3>1 DEF OpToRel
    <3> DEFINE d == total - x
    <3>3. d \in 0 .. total /\ x \in Nat
      BY <1>1
    <3>4. Loop[d] = Turn(Loop, d) /\ Visits[d] = Turn(Visits, d)
      BY <1>6, <1>7, <3>3
    <3>5. CASE d = total
      BY <3>4, <3>5
    <3>6. CASE d # total
      <4>1. m(d) \in 1 .. total - d /\ d + m(d) \in 0 .. total
        BY <1>3, <3>3, <3>6
      <4>2. x - m(d) \in Nat /\ x - m(d) < x /\ total - (x - m(d)) = d + m(d)
            /\ x - m(d) <= total
        BY <1>1, <3>3, <4>1
      <4>3. x - m(d) \notin Bad
        BY <3>2, <4>2
      <4>4. Loop[d + m(d)] = Visits[d + m(d)]
        BY <4>2, <4>3
      <4> QED
        BY <3>4, <4>4
    <3> QED
      BY <3>5, <3>6
  <2>2. total - done \in Nat /\ total - done <= total /\ total - (total - done) = done
    BY <1>1
  <2> QED
    BY <2>1, <2>2
<1>9. Visits[0] = [k \in 1 .. total |-> (from + k - 1) % size]
  <2>1. 0 \in 0 .. total
    BY <1>1
  <2>2. Visits[0] = Rest(0)
    BY <2>1 DEF Visits
  <2>3. total - 0 = total /\ \A k \in 1 .. total : from + 0 + k - 1 = from + k - 1
    BY <1>1
  <2> QED
    BY <2>2, <2>3 DEF Rest
<1>10. Slots(from, available, length, size)
         = [k \in 1 .. total |-> (from + k - 1) % size]
  BY <1>1, <1>2, <1>8, <1>9
<1>11. \A k \in 1 .. total : (from + k - 1) % size \in 0 .. size - 1
  <2>1. \A k \in 1 .. total : from + k - 1 \in Nat
    BY <1>1
  <2> QED
    BY <1>1, <2>1, ModDef
<1> QED
  BY <1>1, <1>10, <1>11 DEF total
-----------------------------------------------------------------------------
(* Nothing is in the ring at first. *)
LEMMA IInvInit == Init => IInv
<1> SUFFICES ASSUME Init PROVE IInv
  OBVIOUS
<1>1. /\ << >> \in Seq(Irps) /\ << >> \in Seq(0 .. IdxMod - 1)
      /\ \A x : ~Contains(<< >>, x)
      /\ IsInjective(<< >>)
  BY EmptyMembers
<1>2. IdxMod \in Nat \ {0} /\ 0 \in 0 .. IdxMod - 1 /\ None \notin Irps /\ Boot \in Cpus
  BY RingAssumption
<1> USE DEF Init
<1>3. QueueType /\ FileType
  BY <1>1 DEF QueueType, FileType
<1>4. PageType /\ LeftType
  BY <1>2 DEF PageType, LeftType
<1>5. DpcType
  BY <1>2 DEF DpcType, NoSnap
<1>6. MovedType
  BY <1>1 DEF MovedType, Nothing
<1>7. Accounted
  BY <1>1, <1>2 DEF Accounted, Queued
<1>8. Closing
  BY <1>2, RingAssumption DEF Closing
<1>9. PageThere
  BY DEF PageThere, Polling
<1>10. WakeupToCome
  BY DEF WakeupToCome
<1>11. Indices
  <2>1. Less(0, 0) = 0
    BY <1>2, ModDef, ModOnce DEF Less
  <2> QED
    BY <2>1, RingAssumption DEF Indices
<1> QED
  BY <1>3, <1>4, <1>5, <1>6, <1>7, <1>8, <1>9, <1>10, <1>11 DEF IInv

-----------------------------------------------------------------------------
(* The queues, their IRPs and who holds them.                              *)
LEMMA AccountedStep == IInv /\ [Next]_vars => QueueType' /\ Accounted'
<1> SUFFICES ASSUME IInv, [Next]_vars PROVE QueueType' /\ Accounted'
  OBVIOUS
<1> USE DEF IInv, irpVars, dpcVars
<1>0. /\ QueueType /\ Accounted /\ DpcType /\ None \notin Irps
      /\ queue["read"] \in Seq(Irps) /\ queue["write"] \in Seq(Irps)
  BY RingAssumption DEF QueueType
<1>1. ASSUME NEW i \in Irps, RingPutQueue(i) PROVE QueueType' /\ Accounted'
  <2>1. /\ ~Contains(queue["read"], i) /\ ~Contains(queue["write"], i)
        /\ \A c \in Cpus : held[c] # i
    BY <1>0, <1>1 DEF RingPutQueue, Accounted, Queued
  <2>2. /\ Kind(i) \in {"read", "write"}
        /\ i \in Reads <=> Kind(i) = "read"
    BY DEF Kind
  <2>3. ASSUME NEW q \in {"read", "write"}
        PROVE  /\ Append(queue[q], i) \in Seq(Irps)
               /\ \A x : Contains(Append(queue[q], i), x)
                           <=> Contains(queue[q], x) \/ x = i
               /\ IsInjective(queue[q]) /\ ~Contains(queue[q], i)
                    => IsInjective(Append(queue[q], i))
    BY <1>0, AppendMembers
  <2>4. QueueType'
    BY <1>0, <1>1, <2>2, <2>3 DEF RingPutQueue, QueueType
  <2>5. Accounted'
    BY <1>0, <1>1, <2>1, <2>2, <2>3 DEF RingPutQueue, QueueType, Accounted, Queued
  <2> QED
    BY <2>4, <2>5
<1>2. ASSUME NEW q \in {"read", "write"}, NEW k \in 1 .. Len(queue[q]),
             CancelNth(q, k), UNCHANGED <<cancel, held>>
      PROVE  QueueType' /\ Accounted'
  <2>1. /\ RemoveAt(queue[q], k) \in Seq(Irps)
        /\ queue[q][k] \in Irps /\ Contains(queue[q], queue[q][k])
        /\ \A x : /\ Contains(RemoveAt(queue[q], k), x) => Contains(queue[q], x)
                  /\ Contains(queue[q], x) /\ x # queue[q][k]
                       => Contains(RemoveAt(queue[q], k), x)
        /\ IsInjective(queue[q]) => /\ IsInjective(RemoveAt(queue[q], k))
                                    /\ ~Contains(RemoveAt(queue[q], k), queue[q][k])
    BY <1>0, RemoveAtMembers
  <2>2. QueueType'
    BY <1>0, <1>2, <2>1 DEF CancelNth, QueueType
  <2>3. Accounted'
    BY <1>0, <1>2, <2>1 DEF CancelNth, QueueType, Accounted, Queued
  <2> QED
    BY <2>2, <2>3
<1>3. ASSUME NEW c \in Cpus, CancelHeld(c) PROVE QueueType' /\ Accounted'
  BY <1>0, <1>3 DEF CancelHeld, QueueType, DpcType, Accounted, Queued
<1>4. ASSUME NEW c \in Cpus, NEW q \in {"read", "write"}, NEW following,
             PollRemove(c, q, following)
      PROVE  QueueType' /\ Accounted'
  <2>1. CASE queue[q] = << >>
    BY <1>0, <1>4, <2>1 DEF PollRemove, QueueType, Accounted, Queued
  <2>2. CASE queue[q] # << >>
    <3>1. /\ Tail(queue[q]) \in Seq(Irps)
          /\ Head(queue[q]) \in Irps /\ Contains(queue[q], Head(queue[q]))
          /\ \A x : /\ Contains(Tail(queue[q]), x) => Contains(queue[q], x)
                    /\ Contains(queue[q], x) /\ x # Head(queue[q])
                         => Contains(Tail(queue[q]), x)
          /\ IsInjective(queue[q]) => /\ IsInjective(Tail(queue[q]))
                                      /\ ~Contains(Tail(queue[q]), Head(queue[q]))
      BY <1>0, <2>2, TailMembers
    <3>2. /\ held[c] = None /\ UNCHANGED <<status, cancel>>
          /\ held' = [held EXCEPT ![c] = Head(queue[q])]
          /\ queue' = [queue EXCEPT ![q] = Tail(@)]
      BY <1>4, <2>2 DEF PollRemove
    <3>3. QueueType'
      BY <1>0, <3>1, <3>2 DEF QueueType
    <3>4. Accounted'
      BY <1>0, <3>1, <3>2 DEF QueueType, DpcType, Accounted, Queued
    <3> QED
      BY <3>3, <3>4
  <2> QED
    BY <2>1, <2>2
<1>5. ASSUME NEW c \in Cpus, NEW q \in {"read", "write"}, NEW s, NEW following,
             Settle(c, q, s, following), held[c] \in Irps, Kind(held[c]) = q
      PROVE  QueueType' /\ Accounted'
  <2>1. CASE s = << >> /\ held[c] \notin cancel
    <3>1. /\ <<held[c]>> \o queue[q] \in Seq(Irps)
          /\ \A x : Contains(<<held[c]>> \o queue[q], x)
                      <=> Contains(queue[q], x) \/ x = held[c]
          /\ IsInjective(queue[q]) /\ ~Contains(queue[q], held[c])
               => IsInjective(<<held[c]>> \o queue[q])
      BY <1>0, <1>5, PrependMembers
    <3>2. /\ queue' = [queue EXCEPT ![q] = <<held[c]>> \o @]
          /\ held' = [held EXCEPT ![c] = None]
          /\ status' = status /\ cancel' = cancel \ {held[c]}
      BY <1>5, <2>1 DEF Settle
    <3>3. QueueType'
      BY <1>0, <3>1, <3>2 DEF QueueType
    <3>4. held[c] \in Reads <=> q = "read"
      BY <1>5 DEF Kind
    <3>5. Accounted'
      BY <1>0, <1>5, <2>1, <3>1, <3>2, <3>4 DEF QueueType, DpcType, Accounted, Queued
    <3> QED
      BY <3>3, <3>5
  <2>2. CASE ~(s = << >> /\ held[c] \notin cancel)
    <3>1. /\ queue' = queue
          /\ held' = [held EXCEPT ![c] = None]
          /\ status' = [status EXCEPT ![held[c]] = "idle"]
          /\ cancel' = cancel \ {held[c]}
      BY <1>5, <2>2 DEF Settle
    <3>2. QueueType'
      BY <1>0, <3>1 DEF QueueType
    <3>3. Accounted'
      BY <1>0, <1>5, <3>1 DEF QueueType, DpcType, Accounted, Queued
    <3> QED
      BY <3>2, <3>3
  <2> QED
    BY <2>1, <2>2
<1>6. CASE UNCHANGED <<queue, status, cancel, held>>
  BY <1>0, <1>6 DEF QueueType, Accounted, Queued
<1>7. ASSUME NEW f \in Files, NEW q \in {"read", "write"}, NEW stage, NEW following,
             CloseLoop(f, q, stage, following)
      PROVE  QueueType' /\ Accounted'
  BY <1>2, <1>6, <1>7 DEF CloseLoop
<1>8. ASSUME NEW c \in Cpus, CopyIn(c) PROVE QueueType' /\ Accounted'
  <2>1. held[c] \in Irps /\ Kind(held[c]) = "read"
    BY <1>0, <1>8, RingAssumption DEF CopyIn, DpcType, Kind
  <2> QED
    BY <1>5, <1>8, <2>1 DEF CopyIn
<1>9. ASSUME NEW c \in Cpus, CopyOut(c) PROVE QueueType' /\ Accounted'
  <2>1. held[c] \in Irps /\ Kind(held[c]) = "write"
    BY <1>0, <1>9, RingAssumption DEF CopyOut, DpcType, Kind
  <2> QED
    BY <1>5, <1>9, <2>1 DEF CopyOut
<1>10. DOMAIN queue = {"read", "write"}
  BY <1>0 DEF QueueType
<1> QED
  <2>1. [Next]_vars =>
          \/ \E i \in Irps : RingPutQueue(i)
          \/ \E q \in DOMAIN queue : \E k \in 1 .. Len(queue[q]) :
               CancelNth(q, k) /\ UNCHANGED <<cancel, held>>
          \/ \E c \in Cpus : \/ CancelHeld(c) \/ CopyIn(c) \/ CopyOut(c)
                             \/ PollRemove(c, "read", "write")
                             \/ PollRemove(c, "write", "unmask")
          \/ \E f \in Files : CloseReads(f) \/ CloseWrites(f)
          \/ UNCHANGED <<queue, status, cancel, held>>
    BY DEF Next, Others, IoManager, Frontend, DpcRuns, Interrupts, RingClose, RingDpc,
           CancelQueued, CloseBegin, RingOpen, DpcStart, DpcCheck, CopySnap, DpcUnmask,
           RingConnect, RingEnable, RingDisable, RingDisconnect, BackendSends,
           BackendTakes, RingEvtchnCallback, vars
  <2> QED
    BY <1>1, <1>2, <1>3, <1>4, <1>6, <1>7, <1>8, <1>9, <1>10, <2>1
       DEF CloseReads, CloseWrites

-----------------------------------------------------------------------------
(* The difference of two indices.                                          *)
LEMMA LessIs ==
  ASSUME NEW a \in 0 .. IdxMod - 1, NEW b \in 0 .. IdxMod - 1
  PROVE  /\ Less(a, b) = IF a >= b THEN a - b ELSE a + IdxMod - b
         /\ Less(a, b) \in 0 .. IdxMod - 1
<1> DEFINE x == a + IdxMod - b
<1>1. IdxMod \in Nat \ {0} /\ x \in 0 .. 2 * IdxMod - 1
  BY RingAssumption
<1>2. Less(a, b) = x % IdxMod
  BY DEF Less
<1> HIDE DEF x
<1>3. x % IdxMod = IF x < IdxMod THEN x ELSE x - IdxMod
  BY <1>1, ModOnce
<1> QED
  BY <1>1, <1>2, <1>3 DEF x

(* An index some characters further, which wraps at most once.             *)
LEMMA FurtherIs ==
  ASSUME NEW a \in 0 .. IdxMod - 1, NEW n \in 0 .. IdxMod
  PROVE  /\ (a + n) % IdxMod = IF a + n < IdxMod THEN a + n ELSE a + n - IdxMod
         /\ (a + n) % IdxMod \in 0 .. IdxMod - 1
<1> DEFINE x == a + n
<1>1. IdxMod \in Nat \ {0} /\ x \in 0 .. 2 * IdxMod - 1
  BY RingAssumption
<1> HIDE DEF x
<1>2. x % IdxMod = IF x < IdxMod THEN x ELSE x - IdxMod
  BY <1>1, ModOnce
<1> QED
  BY <1>1, <1>2 DEF x

(* What is free in the ring towards the backend, if no more is in it than it *)
(* can hold.                                                                 *)
LEMMA FreeIs ==
  ASSUME NEW prod \in 0 .. IdxMod - 1, NEW cons \in 0 .. IdxMod - 1
  PROVE  /\ OutAvailable(prod, cons) \in 0 .. IdxMod - 1
         /\ Less(prod, cons) <= OutSize
              => OutAvailable(prod, cons) = OutSize - Less(prod, cons)
<1>1. OutSize \in 0 .. IdxMod /\ IdxMod \in Nat \ {0} /\ OutSize < IdxMod
  BY RingAssumption
<1> DEFINE e == (cons + OutSize) % IdxMod
<1>2. /\ e = IF cons + OutSize < IdxMod THEN cons + OutSize ELSE cons + OutSize - IdxMod
      /\ e \in 0 .. IdxMod - 1
  BY <1>1, FurtherIs
<1> HIDE DEF e
<1>3. /\ Less(e, prod) = IF e >= prod THEN e - prod ELSE e + IdxMod - prod
      /\ Less(e, prod) \in 0 .. IdxMod - 1
      /\ Less(prod, cons) = IF prod >= cons THEN prod - cons ELSE prod + IdxMod - cons
  BY <1>2, LessIs
<1>4. OutAvailable(prod, cons) = Less(e, prod)
  BY DEF OutAvailable, e
<1> QED
  BY <1>1, <1>2, <1>3, <1>4

(* What the DPC copies, to a reader and from a writer.                     *)
LEMMA Reading ==
  ASSUME IInv, NEW c \in Cpus, pc[c] = "copyingin"
  PROVE  LET n == Least(InAvailable(snap[c].prod, snap[c].cons), Length[held[c]])
         IN  /\ n \in 0 .. IdxMod - 1 /\ n <= Length[held[c]]
             /\ n <= InAvailable(snap[c].prod, snap[c].cons)
             /\ n = 0 => \/ Length[held[c]] = 0
                         \/ InAvailable(snap[c].prod, snap[c].cons) = 0
             /\ ReadSlots(c) = [k \in 1 .. n |-> (snap[c].cons + k - 1) % InSize]
             /\ Len(ReadSlots(c)) = n /\ DOMAIN ReadSlots(c) = 1 .. n
             /\ ReadFrom(c) = [k \in 1 .. n |-> in[(snap[c].cons + k - 1) % InSize]]
             /\ ReadFrom(c) \in Seq(0 .. IdxMod - 1) /\ Len(ReadFrom(c)) = n
<1> DEFINE i == held[c]
           from == snap[c].cons
           a == InAvailable(snap[c].prod, snap[c].cons)
           n == Least(a, Length[i])
<1>1. /\ i \in Irps /\ Length[i] \in Nat
      /\ from \in 0 .. IdxMod - 1 /\ snap[c].prod \in 0 .. IdxMod - 1
  BY RingAssumption DEF IInv, DpcType
<1>2. /\ IdxMod \in Nat \ {0} /\ InSize \in Nat \ {0} /\ IdxMod % InSize = 0
      /\ in \in [0 .. InSize - 1 -> 0 .. IdxMod - 1]
  BY RingAssumption DEF IInv, PageType
<1>3. a \in 0 .. IdxMod - 1
  BY <1>1, LessIs DEF InAvailable
<1>4. ReadSlots(c) = Slots(from, a, Length[i], InSize)
  BY DEF ReadSlots
<1> HIDE DEF i, from, a
<1>5. n \in 0 .. IdxMod - 1 /\ n <= Length[i] /\ n <= a
      /\ (n = 0 => Length[i] = 0 \/ a = 0)
  BY <1>1, <1>2, <1>3 DEF Least
<1>6. from \in Nat /\ a \in Nat /\ Length[i] \in Nat
  BY <1>1, <1>2, <1>3
<1> DEFINE s == Slots(from, a, Length[i], InSize)
<1>s. /\ s \in Seq(0 .. InSize - 1) /\ Len(s) = n
      /\ \A k \in 1 .. n : s[k] = (from + k - 1) % InSize
  BY <1>6, SlotsVisited
<1> HIDE DEF n, s
<1>7. ReadSlots(c) = [k \in 1 .. n |-> (from + k - 1) % InSize]
  BY <1>4, <1>s DEF s
<1>8. n \in Nat /\ \A k \in 1 .. n : (from + k - 1) % InSize \in 0 .. InSize - 1
  <2>1. n \in Nat
    BY <1>2, <1>5
  <2>2. \A k \in 1 .. n : from + k - 1 \in Nat
    BY <1>6, <2>1
  <2> QED
    BY <1>2, <2>1, <2>2, ModDef
<1>9. Len(ReadSlots(c)) = n /\ DOMAIN ReadSlots(c) = 1 .. n
  BY <1>7, <1>8
<1>10. ReadFrom(c) = [k \in 1 .. n |-> in[(from + k - 1) % InSize]]
  BY <1>7, <1>9 DEF ReadFrom
<1>11. ReadFrom(c) \in Seq(0 .. IdxMod - 1) /\ Len(ReadFrom(c)) = n
  BY <1>2, <1>8, <1>10
<1> QED
  BY <1>5, <1>7, <1>9, <1>10, <1>11 DEF i, from, a, n

(* What the DPC writes to the backend for the IRP it holds.                *)
LEMMA Writing ==
  ASSUME IInv, NEW c \in Cpus, pc[c] = "copyingout"
  PROVE  LET n == Least(OutAvailable(snap[c].prod, snap[c].cons), Length[held[c]])
         IN  /\ n \in 0 .. IdxMod - 1 /\ n <= Length[held[c]]
             /\ n <= OutAvailable(snap[c].prod, snap[c].cons)
             /\ n = 0 => \/ Length[held[c]] = 0
                         \/ OutAvailable(snap[c].prod, snap[c].cons) = 0
             /\ WriteSlots(c) = [k \in 1 .. n |-> (snap[c].prod + k - 1) % OutSize]
             /\ Len(WriteSlots(c)) = n /\ DOMAIN WriteSlots(c) = 1 .. n
             /\ Written(c) = [k \in 1 .. n |-> (snap[c].prod + k - 1) % IdxMod]
             /\ Written(c) \in Seq(0 .. IdxMod - 1) /\ Len(Written(c)) = n
<1> DEFINE i == held[c]
           from == snap[c].prod
           a == OutAvailable(snap[c].prod, snap[c].cons)
           n == Least(a, Length[i])
<1>1. /\ i \in Irps /\ Length[i] \in Nat
      /\ from \in 0 .. IdxMod - 1 /\ snap[c].cons \in 0 .. IdxMod - 1
  BY RingAssumption DEF IInv, DpcType
<1>2. /\ IdxMod \in Nat \ {0} /\ OutSize \in Nat \ {0} /\ IdxMod % OutSize = 0
  BY RingAssumption
<1>3. a \in 0 .. IdxMod - 1
  BY <1>1, FreeIs
<1>4. WriteSlots(c) = Slots(from, a, Length[i], OutSize)
  BY DEF WriteSlots
<1> HIDE DEF i, from, a
<1>5. n \in 0 .. IdxMod - 1 /\ n <= Length[i] /\ n <= a
      /\ (n = 0 => Length[i] = 0 \/ a = 0)
  BY <1>1, <1>2, <1>3 DEF Least
<1>6. from \in Nat /\ a \in Nat /\ Length[i] \in Nat
  BY <1>1, <1>2, <1>3
<1> DEFINE s == Slots(from, a, Length[i], OutSize)
<1>s. /\ s \in Seq(0 .. OutSize - 1) /\ Len(s) = n
      /\ \A k \in 1 .. n : s[k] = (from + k - 1) % OutSize
  BY <1>6, SlotsVisited
<1> HIDE DEF n, s
<1>7. WriteSlots(c) = [k \in 1 .. n |-> (from + k - 1) % OutSize]
  BY <1>4, <1>s DEF s
<1>8. n \in Nat /\ \A k \in 1 .. n : (from + k - 1) % IdxMod \in 0 .. IdxMod - 1
  <2>1. n \in Nat
    BY <1>2, <1>5
  <2>2. \A k \in 1 .. n : from + k - 1 \in Nat
    BY <1>6, <2>1
  <2> QED
    BY <1>2, <2>1, <2>2, ModDef
<1>9. Len(WriteSlots(c)) = n /\ DOMAIN WriteSlots(c) = 1 .. n
  BY <1>7, <1>8
<1>10. Written(c) = [k \in 1 .. n |-> (from + k - 1) % IdxMod]
  BY <1>7, <1>9 DEF Written, from
<1>11. Written(c) \in Seq(0 .. IdxMod - 1) /\ Len(Written(c)) = n
  BY <1>2, <1>8, <1>10
<1> QED
  BY <1>5, <1>7, <1>9, <1>10, <1>11 DEF i, from, a, n

-----------------------------------------------------------------------------
(* The types of the files, of the DPC, of the shared page and of what has  *)
(* been moved.                                                             *)
LEMMA FileStep == IInv /\ [Next]_vars => FileType'
<1> SUFFICES ASSUME IInv, [Next]_vars PROVE FileType'
  OBVIOUS
<1> USE DEF IInv, FileType, irpVars, dpcVars
<1>1. ASSUME NEW f \in Files,
             CloseBegin(f) \/ RingOpen(f) \/ CloseReads(f) \/ CloseWrites(f)
      PROVE  FileType'
  BY <1>1 DEF CloseBegin, RingOpen, CloseReads, CloseWrites, CloseLoop
<1>2. CASE UNCHANGED file
  BY <1>2
<1> QED
  <2>1. [Next]_vars =>
          \/ \E f \in Files :
               CloseBegin(f) \/ RingOpen(f) \/ CloseReads(f) \/ CloseWrites(f)
          \/ UNCHANGED file
    BY DEF Next, Others, IoManager, Frontend, DpcRuns, Interrupts, RingClose, RingDpc,
           RingPutQueue, CancelQueued, CancelHeld, DpcStart, DpcCheck, PollRemove,
           CopySnap, DpcUnmask, CopyIn, CopyOut, Settle, RingConnect, RingEnable,
           RingDisable, RingDisconnect, BackendSends, BackendTakes,
           RingEvtchnCallback, vars
  <2> QED
    BY <1>1, <1>2, <2>1

(* The DPC goes from place to place and holds an IRP while it copies for   *)
(* it.                                                                     *)
LEMMA DpcStep == IInv /\ [Next]_vars => DpcType'
<1> SUFFICES ASSUME IInv, [Next]_vars PROVE DpcType'
  OBVIOUS
<1> USE DEF dpcVars
<1>0. DpcType /\ None \notin Irps /\ Reads \subseteq Irps
  BY RingAssumption DEF IInv
<1>1. ASSUME NEW c \in Cpus, DpcStart(c) \/ DpcCheck(c) \/ DpcUnmask(c)
      PROVE  DpcType'
  BY <1>0, <1>1 DEF DpcStart, DpcCheck, DpcUnmask, Goes, DpcType, Holding
<1>2. ASSUME NEW c \in Cpus, \/ PollRemove(c, "read", "write")
                             \/ PollRemove(c, "write", "unmask")
      PROVE  DpcType'
  <2>1. /\ queue["read"] # << >> => Head(queue["read"]) \in Reads
        /\ queue["write"] # << >> => Head(queue["write"]) \in Irps \ Reads
    <3>1. queue["read"] \in Seq(Irps) /\ queue["write"] \in Seq(Irps)
      BY DEF IInv, QueueType
    <3>2. /\ queue["read"] # << >> => /\ Head(queue["read"]) \in Irps
                                      /\ Contains(queue["read"], Head(queue["read"]))
          /\ queue["write"] # << >> => /\ Head(queue["write"]) \in Irps
                                       /\ Contains(queue["write"], Head(queue["write"]))
      BY <3>1, TailMembers
    <3> QED
      BY <3>2 DEF IInv, Accounted
  <2>2. /\ held[c] = None /\ snap' = snap
        /\ \/ /\ held' = held
              /\ \E to \in {"write", "unmask"} : pc' = [pc EXCEPT ![c] = to]
           \/ /\ held' = [held EXCEPT ![c] = Head(queue["read"])]
              /\ queue["read"] # << >> /\ pc' = [pc EXCEPT ![c] = "copyin"]
           \/ /\ held' = [held EXCEPT ![c] = Head(queue["write"])]
              /\ queue["write"] # << >> /\ pc' = [pc EXCEPT ![c] = "copyout"]
    BY <1>2 DEF PollRemove, Goes
  <2> QED
    BY <1>0, <2>1, <2>2, ZenonT(30) DEF DpcType, Holding
<1>3. ASSUME NEW c \in Cpus, NEW prod \in 0 .. IdxMod - 1, NEW cons \in 0 .. IdxMod - 1,
             \/ CopySnap(c, "copyin", "copyingin", prod, cons)
             \/ CopySnap(c, "copyout", "copyingout", prod, cons)
      PROVE  DpcType'
  <2>1. /\ held' = held
        /\ snap' = [snap EXCEPT ![c] = [prod |-> prod, cons |-> cons]]
        /\ \/ pc[c] = "copyin" /\ pc' = [pc EXCEPT ![c] = "copyingin"]
           \/ pc[c] = "copyout" /\ pc' = [pc EXCEPT ![c] = "copyingout"]
    BY <1>3 DEF CopySnap, Goes
  <2>2. snap' \in [Cpus -> [prod : 0 .. IdxMod - 1, cons : 0 .. IdxMod - 1]]
    BY <1>0, <2>1 DEF DpcType
  <2>3. /\ pc' \in [Cpus -> {"idle", "check", "read", "copyin", "copyingin", "write",
                             "copyout", "copyingout", "unmask"}]
        /\ held' \in [Cpus -> Irps \union {None}]
    BY <1>0, <2>1 DEF DpcType
  <2>4. ASSUME NEW d \in Cpus
        PROVE  /\ held'[d] # None => pc'[d] \in Holding
               /\ pc'[d] \in {"copyin", "copyingin"} => held'[d] \in Reads
               /\ pc'[d] \in {"copyout", "copyingout"} => held'[d] \in Irps \ Reads
    BY <1>0, <2>1 DEF DpcType, Holding
  <2> QED
    BY <2>2, <2>3, <2>4 DEF DpcType
<1>4. ASSUME NEW c \in Cpus, NEW s, \/ Settle(c, "read", s, "write")
                                    \/ Settle(c, "write", s, "unmask")
      PROVE  DpcType'
  <2>1. NoSnap \in [prod : 0 .. IdxMod - 1, cons : 0 .. IdxMod - 1]
    BY RingAssumption DEF NoSnap
  <2>2. /\ held' = [held EXCEPT ![c] = None] /\ snap' = [snap EXCEPT ![c] = NoSnap]
        /\ \E to \in {"read", "write", "unmask"} : pc' = [pc EXCEPT ![c] = to]
    BY <1>4 DEF Settle
  <2> QED
    BY <1>0, <2>1, <2>2 DEF DpcType, Holding
<1>5. CASE UNCHANGED dpcVars
  BY <1>0, <1>5 DEF DpcType
<1> QED
  <2>1. /\ in_prod \in 0 .. IdxMod - 1 /\ in_cons \in 0 .. IdxMod - 1
        /\ out_prod \in 0 .. IdxMod - 1 /\ out_cons \in 0 .. IdxMod - 1
    BY DEF IInv, PageType
  <2>2. [Next]_vars =>
          \/ \E c \in Cpus :
               \/ DpcStart(c) \/ DpcCheck(c) \/ DpcUnmask(c)
               \/ PollRemove(c, "read", "write") \/ PollRemove(c, "write", "unmask")
               \/ CopySnap(c, "copyin", "copyingin", in_prod, in_cons)
               \/ CopySnap(c, "copyout", "copyingout", out_prod, out_cons)
               \/ CopyIn(c) \/ CopyOut(c)
          \/ UNCHANGED dpcVars
    BY RingAssumption, ZenonT(30)
       DEF Next, Others, IoManager, Frontend, DpcRuns, Interrupts, RingClose, RingDpc,
           RingPutQueue, CancelQueued, CancelHeld, CloseBegin, RingOpen, CloseReads,
           CloseWrites, CloseLoop, RingConnect, RingEnable, RingDisable, RingDisconnect,
           BackendSends, BackendTakes, RingEvtchnCallback, vars
  <2> QED
    BY <1>1, <1>2, <1>3, <1>4, <1>5, <2>1, <2>2 DEF CopyIn, CopyOut

(* The indices and characters in the page keep their types.               *)
LEMMA PageStep == IInv /\ [Next]_vars => PageType'
<1> SUFFICES ASSUME IInv, [Next]_vars PROVE PageType'
  OBVIOUS
<1> USE DEF stateVars, inVars, outVars, eventVars, leftVars
<1>0. PageType
  BY DEF IInv
<1>a. /\ IdxMod \in Nat \ {0} /\ InSize \in Nat \ {0} /\ OutSize \in Nat \ {0}
      /\ 0 \in 0 .. IdxMod - 1 /\ 1 \in 0 .. IdxMod
  BY RingAssumption
<1>b. ASSUME NEW x \in 0 .. IdxMod - 1, NEW n \in 0 .. IdxMod
      PROVE  (x + n) % IdxMod \in 0 .. IdxMod - 1
  BY FurtherIs
<1>1. ASSUME NEW c \in Cpus, CopyIn(c) PROVE PageType'
  <2>1. Len(ReadSlots(c)) \in 0 .. IdxMod /\ snap[c].cons \in 0 .. IdxMod - 1
    <3>1. Len(ReadSlots(c)) \in 0 .. IdxMod - 1
      BY <1>1, Reading DEF CopyIn
    <3> QED
      BY <1>a, <3>1 DEF IInv, DpcType
  <2>2. (snap[c].cons + Len(ReadSlots(c))) % IdxMod \in 0 .. IdxMod - 1
    BY <1>b, <2>1
  <2> QED
    BY <1>0, <1>1, <2>2 DEF CopyIn, Settle, PageType
<1>2. ASSUME NEW c \in Cpus, CopyOut(c) PROVE PageType'
  <2>1. /\ Len(WriteSlots(c)) \in 0 .. IdxMod - 1 /\ snap[c].prod \in 0 .. IdxMod - 1
        /\ DOMAIN WriteSlots(c) = 1 .. Len(WriteSlots(c))
        /\ Written(c) \in Seq(0 .. IdxMod - 1) /\ Len(Written(c)) = Len(WriteSlots(c))
    BY <1>2, Writing DEF CopyOut, IInv, DpcType
  <2>2. (snap[c].prod + Len(WriteSlots(c))) % IdxMod \in 0 .. IdxMod - 1
    <3>1. Len(WriteSlots(c)) \in 0 .. IdxMod
      BY <1>a, <2>1
    <3> QED
      BY <1>b, <2>1, <3>1
  <2>3. \A k \in DOMAIN WriteSlots(c) : Written(c)[k] \in 0 .. IdxMod - 1
    BY <2>1, ElementOfSeq
  <2>4. out' \in [0 .. OutSize - 1 -> 0 .. IdxMod - 1]
    <3>1. out \in [0 .. OutSize - 1 -> 0 .. IdxMod - 1]
      BY <1>0 DEF PageType
    <3> DEFINE v(x) == IF \E k \in DOMAIN WriteSlots(c) : WriteSlots(c)[k] = x
                       THEN Written(c)[CHOOSE k \in DOMAIN WriteSlots(c) :
                                         WriteSlots(c)[k] = x]
                       ELSE out[x]
    <3>2. ASSUME NEW x \in 0 .. OutSize - 1 PROVE v(x) \in 0 .. IdxMod - 1
      BY <2>3, <3>1
    <3>3. out' = IF connected THEN [x \in DOMAIN out |-> v(x)] ELSE out
      BY <1>2 DEF CopyOut
    <3> HIDE DEF v
    <3> QED
      BY <3>1, <3>2, <3>3
  <2> QED
    BY <1>0, <1>2, <2>2, <2>4 DEF CopyOut, Settle, PageType
<1>3. CASE BackendSends
  <2>1. (in_prod + 1) % IdxMod \in 0 .. IdxMod - 1
    BY <1>0, <1>a, <1>b DEF PageType
  <2> QED
    BY <1>0, <1>3, <2>1 DEF BackendSends, PageType
<1>4. CASE BackendTakes
  <2>1. (out_cons + 1) % IdxMod \in 0 .. IdxMod - 1
    BY <1>0, <1>a, <1>b DEF PageType
  <2> QED
    BY <1>0, <1>4, <2>1 DEF BackendTakes, PageType
<1>5. CASE RingDisconnect
  BY <1>0, <1>5, <1>a DEF RingDisconnect, PageType
<1>6. CASE /\ UNCHANGED <<inVars, outVars>>
           /\ queued' \in BOOLEAN /\ connected' \in BOOLEAN /\ enabled' \in BOOLEAN
           /\ pending' \in BOOLEAN /\ masked' \in BOOLEAN
  BY <1>0, <1>6 DEF PageType
<1> QED
  <2>1. [Next]_vars =>
          \/ \E c \in Cpus : CopyIn(c) \/ CopyOut(c)
          \/ BackendSends \/ BackendTakes \/ RingDisconnect
          \/ /\ UNCHANGED <<inVars, outVars>>
             /\ queued' \in BOOLEAN /\ connected' \in BOOLEAN /\ enabled' \in BOOLEAN
             /\ pending' \in BOOLEAN /\ masked' \in BOOLEAN
    BY <1>0, RingAssumption, ZenonT(30)
       DEF PageType, Next, Others, IoManager, Frontend, DpcRuns, Interrupts,
           RingClose,
           RingDpc, RingPutQueue, CancelQueued, CancelHeld, CloseBegin, RingOpen,
           CloseReads, CloseWrites, CloseLoop, DpcStart, DpcCheck, PollRemove, CopySnap,
           DpcUnmask, RingConnect, RingEnable, RingDisable, RingEvtchnCallback, vars
  <2> QED
    BY <1>1, <1>2, <1>3, <1>4, <1>5, <1>6, <2>1

(* The DPC leaves behind queues and events.                               *)
LEMMA LeftStep == IInv /\ [Next]_vars => LeftType'
<1> SUFFICES ASSUME IInv, [Next]_vars PROVE LeftType'
  OBVIOUS
<1>1. [Next]_vars => \/ left' = left
                     \/ \E x \in {"read", "write", "event"} :
                          left' = left \union {x} \/ left' = left \ {x}
  BY RingAssumption, ZenonT(30)
     DEF Next, Others, IoManager, Frontend, DpcRuns, Interrupts, RingClose, RingDpc,
         RingPutQueue, CancelQueued, CancelHeld, CloseBegin, RingOpen, CloseReads,
         CloseWrites, CloseLoop, DpcStart, DpcCheck, PollRemove, CopySnap, DpcUnmask,
         CopyIn, CopyOut, Settle, RingConnect, RingEnable, RingDisable, RingDisconnect,
         BackendSends, BackendTakes, RingEvtchnCallback, leftVars, vars
<1> QED
  BY <1>1 DEF IInv, LeftType

(* A step moves at most as many characters as the IRP is for.              *)
LEMMA MovedStep == IInv /\ [Next]_vars => MovedType'
<1> SUFFICES ASSUME IInv, [Next]_vars PROVE MovedType'
  OBVIOUS
<1>0. /\ Nothing \in [{"read", "write"} -> Seq(0 .. IdxMod - 1)]
      /\ Nothing["read"] = << >> /\ Nothing["write"] = << >>
  BY EmptyMembers DEF Nothing
<1>1. ASSUME NEW c \in Cpus, CopyIn(c) PROVE MovedType'
  <2>1. /\ ReadFrom(c) \in Seq(0 .. IdxMod - 1)
        /\ Len(ReadFrom(c)) <= Length[held[c]]
        /\ held[c] \in Irps /\ Kind(held[c]) = "read"
    BY <1>1, Reading, RingAssumption DEF CopyIn, IInv, DpcType, Kind
  <2>2. moved' = [Nothing EXCEPT !["read"] = ReadFrom(c)]
    BY <1>1 DEF CopyIn, Settle
  <2> QED
    BY <1>0, <2>1, <2>2 DEF MovedType
<1>2. ASSUME NEW c \in Cpus, CopyOut(c) PROVE MovedType'
  <2>1. /\ Written(c) \in Seq(0 .. IdxMod - 1)
        /\ Len(Written(c)) <= Length[held[c]]
        /\ held[c] \in Irps /\ Kind(held[c]) = "write"
    BY <1>2, Writing, RingAssumption DEF CopyOut, IInv, DpcType, Kind
  <2>2. moved' = [Nothing EXCEPT !["write"] = Written(c)]
    BY <1>2 DEF CopyOut, Settle
  <2> QED
    BY <1>0, <2>1, <2>2 DEF MovedType
<1>3. CASE moved' = Nothing
  BY <1>0, <1>3 DEF MovedType
<1>4. CASE moved' = moved
  BY <1>4 DEF IInv, MovedType
<1> QED
  BY <1>1, <1>2, <1>3, <1>4
     DEF Next, DpcRuns, Interrupts, RingClose, RingDpc, vars

-----------------------------------------------------------------------------
(* Who may overlap whom does not change.                                   *)
LEMMA RacesKept == [Next]_vars => races' = races
  BY DEF Next, Others, IoManager, Frontend, DpcRuns, Interrupts, RingClose, RingDpc,
         RingPutQueue, CancelQueued, CancelHeld, CloseBegin, RingOpen, CloseReads,
         CloseWrites, CloseLoop, DpcStart, DpcCheck, PollRemove, CopySnap, DpcUnmask,
         CopyIn, CopyOut, Settle, RingConnect, RingEnable, RingDisable, RingDisconnect,
         BackendSends, BackendTakes, RingEvtchnCallback, leftVars, vars

(* A file is closed by nobody but RingClose, which finds none of its IRPs  *)
(* left when it goes on, as the DPC does not run.                          *)
LEMMA ClosingStep == IInv /\ [Next]_vars => Closing'
<1> SUFFICES ASSUME IInv, [Next]_vars, "close" \notin races PROVE Closing'
  BY RacesKept DEF Closing
<1> USE DEF irpVars, dpcVars, leftVars
<1>0. /\ QueueType /\ FileType /\ DpcType /\ Accounted /\ Closing
      /\ FileOf \in [Irps -> Files] /\ None \notin Irps
  BY RingAssumption DEF IInv
<1>1. ASSUME NEW i \in Irps, RingPutQueue(i) PROVE Closing'
  BY <1>0, <1>1 DEF RingPutQueue, QueueType, Closing
<1>2. ASSUME NEW f \in Files, CloseBegin(f) \/ RingOpen(f) PROVE Closing'
  BY <1>0, <1>2 DEF CloseBegin, RingOpen, FileType, Closing
<1>3. ASSUME NEW f \in Files, NEW q, NEW stage, NEW following,
             CloseLoop(f, q, stage, following),
             \/ q = "read" /\ stage = "reads" /\ following = "writes"
             \/ q = "write" /\ stage = "writes" /\ following = "closed"
      PROVE  Closing'
  <2>1. /\ file[f] = stage /\ UNCHANGED <<dpcVars, races>>
        /\ \A c \in Cpus : pc[c] = "idle" /\ held[c] = None
    BY <1>0, <1>3 DEF CloseLoop, DpcType, Holding, Closing
  <2>2. CASE /\ file' = file
             /\ \E k \in 1 .. Len(queue[q]) : CancelNth(q, k)
    BY <1>0, <2>1, <2>2 DEF CancelNth, QueueType, Closing
  <2>3. CASE /\ file' = [file EXCEPT ![f] = following]
             /\ \A k \in 1 .. Len(queue[q]) : FileOf[queue[q][k]] # f
             /\ status' = status
    <3>1. \A i \in Irps : FileOf[i] = f => ~Contains(queue[q], i)
      BY <2>3 DEF Contains
    <3>2. \A i \in Irps : status[i] = "pending" => Queued(i)
      BY <1>0, <2>1 DEF Accounted
    <3>3. \A i \in Irps : FileOf[i] = f /\ status[i] = "pending"
                            => (q = "read" => i \notin Reads) /\ (q = "write" => i \in Reads)
      BY <1>0, <1>3, <3>1, <3>2 DEF Accounted, Queued
    <3> QED
      BY <1>0, <1>3, <2>1, <2>3, <3>3 DEF FileType, Closing
  <2> QED
    BY <1>3, <2>2, <2>3 DEF CloseLoop
<1>4. ASSUME NEW c \in Cpus, DpcStart(c) PROVE Closing'
  BY <1>0, <1>4 DEF DpcStart, Closing
<1>5. ASSUME NEW c \in Cpus, pc[c] # "idle", file' = file, races' = races,
             status' = status \/ \E i : status' = [status EXCEPT ![i] = "idle"]
      PROVE  Closing'
  BY <1>0, <1>5 DEF QueueType, Closing
<1>6. CASE /\ UNCHANGED <<file, races, pc>>
           /\ \/ status' = status
              \/ \E i : status' = [status EXCEPT ![i] = "idle"]
  BY <1>0, <1>6 DEF QueueType, Closing
<1> QED
  <2>1. [Next]_vars =>
          \/ \E i \in Irps : RingPutQueue(i)
          \/ \E f \in Files : \/ CloseBegin(f) \/ RingOpen(f)
                              \/ CloseLoop(f, "read", "reads", "writes")
                              \/ CloseLoop(f, "write", "writes", "closed")
          \/ \E c \in Cpus : DpcStart(c)
          \/ \E c \in Cpus : /\ pc[c] # "idle" /\ UNCHANGED <<file, races>>
                             /\ \/ status' = status
                                \/ \E i : status' = [status EXCEPT ![i] = "idle"]
          \/ /\ UNCHANGED <<file, races, pc>>
             /\ status' = status \/ \E i : status' = [status EXCEPT ![i] = "idle"]
    BY RingAssumption, ZenonT(30)
       DEF Next, Others, IoManager, Frontend, DpcRuns, Interrupts, RingClose, RingDpc,
           CancelQueued, CancelNth, CancelHeld, CloseReads, CloseWrites, DpcCheck,
           PollRemove, CopySnap, DpcUnmask, CopyIn, CopyOut, Settle, Goes, RingConnect,
           RingEnable, RingDisable, RingDisconnect, BackendSends, BackendTakes,
           RingEvtchnCallback, vars
  <2> QED
    BY <1>1, <1>2, <1>3, <1>4, <1>5, <1>6, <2>1

(* The page is there while the ring is enabled.                            *)
LEMMA PageThereStep == IInv /\ [Next]_vars => PageThere'
<1> SUFFICES ASSUME IInv, [Next]_vars PROVE PageThere'
  OBVIOUS
<1> USE DEF irpVars, dpcVars, stateVars, inVars, outVars, eventVars, leftVars
<1>0. PageType /\ DpcType /\ PageThere
  BY DEF IInv
<1> USE DEF Polling
<1>1. ASSUME NEW i \in Irps, RingPutQueue(i) PROVE PageThere'
  BY <1>0, <1>1 DEF RingPutQueue, PageThere
<1>2. ASSUME NEW c \in Cpus, DpcStart(c) PROVE PageThere'
  BY <1>0, <1>2 DEF DpcStart, Goes, DpcType, PageThere
<1>3. ASSUME NEW c \in Cpus, DpcCheck(c) \/ DpcUnmask(c) PROVE PageThere'
  BY <1>0, <1>3 DEF DpcCheck, DpcUnmask, Goes, DpcType, PageThere
<1>4. ASSUME NEW c \in Cpus, pc[c] \notin {"idle", "check", "unmask"},
             UNCHANGED <<queued, stateVars, eventVars, races>>,
             connected \/ UNCHANGED <<in_prod, in_cons, out_prod, out_cons>>,
             \E to : to # "idle" /\ pc' = [pc EXCEPT ![c] = to]
      PROVE  PageThere'
  BY <1>0, <1>4 DEF DpcType, PageThere
<1>5. CASE Frontend
  BY <1>0, <1>5
     DEF Frontend, RingConnect, RingEnable, RingDisable, RingDisconnect, PageThere
<1>6. CASE BackendSends \/ BackendTakes \/ RingEvtchnCallback
  BY <1>0, <1>6 DEF BackendSends, BackendTakes, RingEvtchnCallback, PageThere
<1>7. CASE UNCHANGED <<queued, pc, stateVars, inVars, outVars, eventVars, races>>
  BY <1>0, <1>7 DEF PageThere
<1>8. ASSUME NEW c \in Cpus, RingDpc(c) PROVE PageThere'
  <2>1. CASE DpcCheck(c) \/ DpcUnmask(c)
    BY <1>3, <2>1
  <2>2. CASE PollRemove(c, "read", "write") \/ PollRemove(c, "write", "unmask")
    BY <1>4, <2>2 DEF PollRemove, Goes
  <2>3. CASE \/ CopySnap(c, "copyin", "copyingin", in_prod, in_cons)
             \/ CopySnap(c, "copyout", "copyingout", out_prod, out_cons)
    BY <1>4, <2>3 DEF CopySnap, Goes
  <2>4. CASE CopyIn(c)
    BY <1>4, <2>4 DEF CopyIn, Settle
  <2>5. CASE CopyOut(c)
    BY <1>4, <2>5 DEF CopyOut, Settle
  <2> QED
    BY <1>8, <2>1, <2>2, <2>3, <2>4, <2>5 DEF RingDpc
<1> QED
  <2>1. [Next]_vars =>
          \/ \E i \in Irps : RingPutQueue(i)
          \/ \E c \in Cpus : DpcStart(c) \/ RingDpc(c)
          \/ Frontend \/ BackendSends \/ BackendTakes \/ RingEvtchnCallback
          \/ UNCHANGED <<queued, pc, stateVars, inVars, outVars, eventVars, races>>
    BY RingAssumption, ZenonT(30)
       DEF Next, Others, IoManager, DpcRuns, Interrupts, RingClose, CancelQueued,
           CancelHeld, CloseBegin, RingOpen, CloseReads, CloseWrites, CloseLoop, vars
  <2> QED
    BY <1>1, <1>2, <1>5, <1>6, <1>7, <1>8, <2>1

-----------------------------------------------------------------------------
(* Whoever changes what the DPC has looked at queues it, or makes an event *)
(* pending that will; and the DPC leaves a queue only when it is blocked.  *)
LEMMA WakeupStep == IInv /\ [Next]_vars => WakeupToCome'
<1> SUFFICES ASSUME IInv, [Next]_vars, "dpc" \notin races PROVE WakeupToCome'
  BY RacesKept DEF WakeupToCome
<1> USE DEF irpVars, dpcVars, stateVars, inVars, outVars, eventVars, leftVars
<1>0. /\ QueueType /\ PageType /\ DpcType /\ WakeupToCome /\ Boot \in Cpus
      /\ enabled => connected
      /\ \A c \in Cpus : pc[c] # "idle" => c = Boot
  BY RingAssumption DEF IInv, PageThere, WakeupToCome
<1>1. ASSUME NEW i \in Irps, RingPutQueue(i) PROVE WakeupToCome'
  BY <1>0, <1>1 DEF RingPutQueue, WakeupToCome
<1>2. ASSUME NEW c \in Cpus, DpcStart(c) PROVE WakeupToCome'
  BY <1>0, <1>2 DEF DpcStart, Goes, DpcType, WakeupToCome
<1>3. CASE Frontend
  BY <1>0, <1>3
     DEF Frontend, RingConnect, RingEnable, RingDisable, RingDisconnect, WakeupToCome
<1>4. CASE BackendSends \/ BackendTakes \/ RingEvtchnCallback
  BY <1>0, <1>4 DEF BackendSends, BackendTakes, RingEvtchnCallback, WakeupToCome
<1>5. CASE /\ UNCHANGED <<queued, dpcVars, stateVars, inVars, outVars, eventVars, leftVars>>
           /\ \A q \in {"read", "write"} : queue[q] = << >> => queue'[q] = << >>
  BY <1>0, <1>5 DEF WakeupToCome
<1>6. CASE UNCHANGED <<queue, queued, dpcVars, stateVars, inVars, outVars, eventVars,
                       leftVars>>
  BY <1>0, <1>6 DEF WakeupToCome
<1>7. ASSUME NEW c \in Cpus, RingDpc(c) PROVE WakeupToCome'
  <2>0. c = Boot
    BY <1>0, <1>7
       DEF RingDpc, DpcCheck, PollRemove, CopySnap, DpcUnmask, CopyIn, CopyOut, Goes
  <2>1. CASE DpcCheck(Boot)
    BY <1>0, <2>1 DEF DpcCheck, Goes, DpcType, WakeupToCome
  <2>2. CASE PollRemove(Boot, "read", "write")
    BY <1>0, <2>2 DEF PollRemove, Goes, QueueType, DpcType, WakeupToCome
  <2>3. CASE PollRemove(Boot, "write", "unmask")
    BY <1>0, <2>3 DEF PollRemove, Goes, QueueType, DpcType, WakeupToCome
  <2>4. CASE \/ CopySnap(Boot, "copyin", "copyingin", in_prod, in_cons)
             \/ CopySnap(Boot, "copyout", "copyingout", out_prod, out_cons)
    BY <1>0, <2>4 DEF CopySnap, Goes, DpcType, WakeupToCome
  <2>5. CASE DpcUnmask(Boot)
    BY <1>0, <2>5 DEF DpcUnmask, Goes, DpcType, WakeupToCome
  <2>6. CASE CopyIn(Boot)
    <3>0. /\ left \subseteq left'
          /\ Length[held[Boot]] = 0 => left' = left \union {"read"}
      BY <2>6 DEF CopyIn, Settle
    <3>1. pc[Boot] = "copyingin" /\ connected' = connected /\ enabled' = enabled
          /\ UNCHANGED <<queued, eventVars, races, in_prod>>
          /\ pc' = [pc EXCEPT ![Boot] = IF ReadFrom(Boot) = << >> THEN "write" ELSE "read"]
      BY <2>6 DEF CopyIn, Settle
    <3>2. CASE ReadFrom(Boot) # << >>
      BY <1>0, <3>0, <3>1, <3>2 DEF DpcType, WakeupToCome
    <3>3. CASE ReadFrom(Boot) = << >>
      <4>1. /\ Len(ReadSlots(Boot)) = 0
            /\ "read" \notin left'
                 => InAvailable(snap[Boot].prod, snap[Boot].cons) = 0
        BY <1>0, <3>0, <3>1, <3>3, Reading
      <4>2. ASSUME connected, enabled, ~queued, ~pending
            PROVE  /\ in_cons' = in_cons
                   /\ "read" \notin left' => InAvailable(in_prod, in_cons) = 0
        <5>1. snap[Boot].cons = in_cons /\ snap[Boot].prod = in_prod
          BY <1>0, <3>1, <4>2 DEF WakeupToCome
        <5>2. in_cons' = (in_cons + 0) % IdxMod /\ in_cons \in 0 .. IdxMod - 1
          BY <1>0, <2>6, <4>1, <4>2, <5>1 DEF CopyIn, PageType
        <5>3. in_cons + 0 = in_cons /\ 0 \in 0 .. IdxMod /\ in_cons + 0 < IdxMod
          BY <5>2, RingAssumption
        <5>4. (in_cons + 0) % IdxMod = in_cons
          BY <5>2, <5>3, FurtherIs
        <5> QED
          BY <4>1, <5>1, <5>2, <5>4
      <4> QED
        BY <1>0, <3>1, <3>3, <4>2 DEF DpcType, WakeupToCome
    <3> QED
      BY <3>2, <3>3
  <2>7. CASE CopyOut(Boot)
    <3>0. /\ left \subseteq left'
          /\ Length[held[Boot]] = 0 => left' = left \union {"write"}
      BY <2>7 DEF CopyOut, Settle
    <3>1. pc[Boot] = "copyingout" /\ connected' = connected /\ enabled' = enabled
          /\ UNCHANGED <<queued, eventVars, races, out_cons, inVars>>
          /\ pc' = [pc EXCEPT ![Boot] = IF Written(Boot) = << >> THEN "unmask" ELSE "write"]
          /\ queue'["read"] = queue["read"]
      BY <1>0, <2>7 DEF CopyOut, Settle, QueueType
    <3>2. CASE Written(Boot) # << >>
      BY <1>0, <3>0, <3>1, <3>2 DEF DpcType, WakeupToCome
    <3>3. CASE Written(Boot) = << >>
      <4>1. /\ Len(WriteSlots(Boot)) = 0
            /\ "write" \notin left'
                 => OutAvailable(snap[Boot].prod, snap[Boot].cons) = 0
        BY <1>0, <3>0, <3>1, <3>3, Writing
      <4>2. ASSUME connected, enabled, ~queued, ~pending
            PROVE  /\ out_prod' = out_prod
                   /\ "write" \notin left' => OutAvailable(out_prod, out_cons) = 0
        <5>1. snap[Boot].cons = out_cons /\ snap[Boot].prod = out_prod
          BY <1>0, <3>1, <4>2 DEF WakeupToCome
        <5>2. out_prod' = (out_prod + 0) % IdxMod /\ out_prod \in 0 .. IdxMod - 1
          BY <1>0, <2>7, <4>1, <4>2, <5>1 DEF CopyOut, PageType
        <5>3. out_prod + 0 = out_prod /\ 0 \in 0 .. IdxMod /\ out_prod + 0 < IdxMod
          BY <5>2, RingAssumption
        <5>4. (out_prod + 0) % IdxMod = out_prod
          BY <5>2, <5>3, FurtherIs
        <5> QED
          BY <4>1, <5>1, <5>2, <5>4
      <4> QED
        BY <1>0, <3>0, <3>1, <3>3, <4>2 DEF DpcType, WakeupToCome
    <3> QED
      BY <3>2, <3>3
  <2> QED
    BY <1>7, <2>0, <2>1, <2>2, <2>3, <2>4, <2>5, <2>6, <2>7 DEF RingDpc
<1>8. ASSUME NEW q \in {"read", "write"}, NEW k \in 1 .. Len(queue[q]), CancelNth(q, k)
      PROVE  \A p \in {"read", "write"} : queue[p] = << >> => queue'[p] = << >>
  BY <1>0, <1>8 DEF CancelNth, QueueType
<1> QED
  <2>1. DOMAIN queue = {"read", "write"}
    BY <1>0 DEF QueueType
  <2>2. [Next]_vars =>
          \/ \E i \in Irps : RingPutQueue(i)
          \/ \E c \in Cpus : DpcStart(c) \/ RingDpc(c)
          \/ Frontend \/ BackendSends \/ BackendTakes \/ RingEvtchnCallback
          \/ /\ UNCHANGED <<queued, dpcVars, stateVars, inVars, outVars, eventVars,
                         leftVars>>
             /\ \E q \in DOMAIN queue : \E k \in 1 .. Len(queue[q]) : CancelNth(q, k)
          \/ UNCHANGED <<queue, queued, dpcVars, stateVars, inVars, outVars, eventVars,
                         leftVars>>
    BY <2>1, RingAssumption
       DEF Next, Others, IoManager, DpcRuns, Interrupts, RingClose, CancelQueued,
           CancelHeld, CloseBegin, RingOpen, CloseReads, CloseWrites, CloseLoop, vars
  <2> QED
    BY <1>1, <1>2, <1>3, <1>4, <1>5, <1>6, <1>7, <1>8, <2>1, <2>2

-----------------------------------------------------------------------------
(* What is in a ring, after characters are put in and taken out.           *)
LEMMA LessAfterPut ==
  ASSUME NEW a \in 0 .. IdxMod - 1, NEW b \in 0 .. IdxMod - 1, NEW n \in 0 .. IdxMod - 1,
         Less(a, b) + n < IdxMod
  PROVE  Less((a + n) % IdxMod, b) = Less(a, b) + n
<1> DEFINE e == (a + n) % IdxMod
<1>1. IdxMod \in Nat \ {0} /\ n \in 0 .. IdxMod
  BY RingAssumption
<1>2. /\ e = IF a + n < IdxMod THEN a + n ELSE a + n - IdxMod
      /\ e \in 0 .. IdxMod - 1
  BY <1>1, FurtherIs
<1> HIDE DEF e
<1>3. /\ Less(a, b) = IF a >= b THEN a - b ELSE a + IdxMod - b
      /\ Less(e, b) = IF e >= b THEN e - b ELSE e + IdxMod - b
  BY <1>2, LessIs
<1>4. Less(e, b) = Less(a, b) + n
  BY <1>1, <1>2, <1>3
<1> QED
  BY <1>4 DEF e

(* The same, of the characters taken.                                      *)
LEMMA LessAfterTake ==
  ASSUME NEW a \in 0 .. IdxMod - 1, NEW b \in 0 .. IdxMod - 1, NEW n \in 0 .. IdxMod - 1,
         n <= Less(a, b)
  PROVE  Less(a, (b + n) % IdxMod) = Less(a, b) - n
<1> DEFINE e == (b + n) % IdxMod
<1>1. IdxMod \in Nat \ {0} /\ n \in 0 .. IdxMod
  BY RingAssumption
<1>2. /\ e = IF b + n < IdxMod THEN b + n ELSE b + n - IdxMod
      /\ e \in 0 .. IdxMod - 1
  BY <1>1, FurtherIs
<1> HIDE DEF e
<1>3. /\ Less(a, b) = IF a >= b THEN a - b ELSE a + IdxMod - b
      /\ Less(a, e) = IF a >= e THEN a - e ELSE a + IdxMod - e
  BY <1>2, LessIs
<1>4. Less(a, e) = Less(a, b) - n
  BY <1>1, <1>2, <1>3
<1> QED
  BY <1>4 DEF e

(* Undisturbed, the DPC runs on one processor, on a page that is there.    *)
LEMMA Alone ==
  ASSUME IInv, Undisturbed, NEW c \in Cpus, pc[c] # "idle"
  PROVE  c = Boot /\ (Polling(c) => connected)
  BY DEF IInv, Undisturbed, WakeupToCome, PageThere

(* How many characters the DPC takes from the ring, undisturbed.           *)
LEMMA Taking ==
  ASSUME IInv, Undisturbed, NEW c \in Cpus, CopyIn(c)
  PROVE  LET n == Len(ReadSlots(c))
         IN  /\ c = Boot /\ snap[c].cons = in_cons
             /\ n \in 0 .. IdxMod - 1 /\ n <= Less(in_prod, in_cons)
             /\ in_cons' = (in_cons + n) % IdxMod /\ in_prod' = in_prod
             /\ Less(in_prod', in_cons') = Less(in_prod, in_cons) - n
<1> DEFINE n == Len(ReadSlots(c))
<1>1. /\ in_prod \in 0 .. IdxMod - 1 /\ in_cons \in 0 .. IdxMod - 1
      /\ snap[c].prod \in 0 .. IdxMod - 1
      /\ snap[c].cons = in_cons
      /\ Less(snap[c].prod, in_cons) <= Less(in_prod, in_cons)
  BY DEF IInv, PageType, DpcType, Indices, CopyIn
<1>2. c = Boot /\ connected
  BY Alone DEF CopyIn, Polling
<1>3. n \in 0 .. IdxMod - 1 /\ n <= Less(snap[c].prod, in_cons)
  BY <1>1, Reading DEF CopyIn, InAvailable
<1>4. in_cons' = (in_cons + n) % IdxMod /\ in_prod' = in_prod
  BY <1>1, <1>2 DEF CopyIn
<1> HIDE DEF n
<1>5. Less(in_prod, in_cons) \in Nat /\ Less(snap[c].prod, in_cons) \in Nat
  <2>1. /\ Less(in_prod, in_cons) \in 0 .. IdxMod - 1
        /\ Less(snap[c].prod, in_cons) \in 0 .. IdxMod - 1
    BY <1>1, LessIs
  <2> QED
    BY <2>1
<1>6. IdxMod \in Nat
  BY RingAssumption
<1>7. n <= Less(in_prod, in_cons)
  BY <1>1, <1>3, <1>5, <1>6
<1>8. Less(in_prod, (in_cons + n) % IdxMod) = Less(in_prod, in_cons) - n
  BY <1>1, <1>3, <1>7, LessAfterTake
<1> QED
  BY <1>1, <1>2, <1>3, <1>4, <1>7, <1>8 DEF n

(* How many it puts into the ring towards the backend.                     *)
LEMMA Putting ==
  ASSUME IInv, Undisturbed, NEW c \in Cpus, CopyOut(c)
  PROVE  LET n == Len(WriteSlots(c))
         IN  /\ c = Boot /\ connected /\ snap[c].prod = out_prod
             /\ n \in 0 .. IdxMod - 1 /\ Less(out_prod, out_cons) + n <= OutSize
             /\ out_prod' = (out_prod + n) % IdxMod /\ out_cons' = out_cons
             /\ Less(out_prod', out_cons') = Less(out_prod, out_cons) + n
<1> DEFINE n == Len(WriteSlots(c))
<1>1. /\ out_prod \in 0 .. IdxMod - 1 /\ out_cons \in 0 .. IdxMod - 1
      /\ snap[c].cons \in 0 .. IdxMod - 1
      /\ snap[c].prod = out_prod
      /\ Less(out_prod, out_cons) <= Less(out_prod, snap[c].cons)
      /\ Less(out_prod, snap[c].cons) <= OutSize
  BY DEF IInv, PageType, DpcType, Indices, CopyOut
<1>2. c = Boot /\ connected
  BY Alone DEF CopyOut, Polling
<1>3. /\ n \in 0 .. IdxMod - 1 /\ n <= OutAvailable(out_prod, snap[c].cons)
  BY <1>1, Writing DEF CopyOut
<1>4. out_prod' = (out_prod + n) % IdxMod /\ out_cons' = out_cons
  BY <1>1, <1>2 DEF CopyOut
<1> HIDE DEF n
<1>5. OutAvailable(out_prod, snap[c].cons) = OutSize - Less(out_prod, snap[c].cons)
  BY <1>1, FreeIs
<1>6. /\ Less(out_prod, out_cons) \in 0 .. IdxMod - 1
      /\ Less(out_prod, snap[c].cons) \in 0 .. IdxMod - 1
  BY <1>1, LessIs
<1>7. IdxMod \in Nat /\ OutSize \in Nat /\ OutSize < IdxMod
  BY RingAssumption
<1>8. Less(out_prod, out_cons) + n <= OutSize /\ Less(out_prod, out_cons) + n < IdxMod
  BY <1>1, <1>3, <1>5, <1>6, <1>7
<1>9. Less((out_prod + n) % IdxMod, out_cons) = Less(out_prod, out_cons) + n
  BY <1>1, <1>3, <1>8, LessAfterPut
<1> QED
  BY <1>1, <1>2, <1>3, <1>4, <1>8, <1>9 DEF n

(* The backend puts one character into the ring, or takes one.             *)
LEMMA Sending ==
  ASSUME IInv, BackendSends
  PROVE  /\ in_prod' = (in_prod + 1) % IdxMod /\ in_cons' = in_cons
         /\ Less(in_prod', in_cons') = Less(in_prod, in_cons) + 1
<1>1. in_prod \in 0 .. IdxMod - 1 /\ in_cons \in 0 .. IdxMod - 1
  BY DEF IInv, PageType
<1>2. Less(in_prod, in_cons) < InSize
  BY DEF BackendSends
<1>3. InSize \in Nat \ {0} /\ IdxMod \in Nat /\ InSize < IdxMod
  BY RingAssumption
<1>4. Less(in_prod, in_cons) \in 0 .. IdxMod - 1
  BY <1>1, LessIs
<1>5. 1 \in 0 .. IdxMod - 1 /\ Less(in_prod, in_cons) + 1 < IdxMod
  BY <1>2, <1>3, <1>4
<1>6. Less((in_prod + 1) % IdxMod, in_cons) = Less(in_prod, in_cons) + 1
  BY <1>1, <1>5, LessAfterPut
<1> QED
  BY <1>6 DEF BackendSends

(* The backend takes one character out of the ring, which is not empty.    *)
LEMMA BackendTaking ==
  ASSUME IInv, BackendTakes
  PROVE  /\ out_cons' = (out_cons + 1) % IdxMod /\ out_prod' = out_prod
         /\ Less(out_prod, out_cons) >= 1
         /\ Less(out_prod', out_cons') = Less(out_prod, out_cons) - 1
<1>1. out_prod \in 0 .. IdxMod - 1 /\ out_cons \in 0 .. IdxMod - 1
  BY DEF IInv, PageType
<1>2. out_prod # out_cons
  BY DEF BackendTakes
<1>3. OutSize \in Nat \ {0} /\ IdxMod \in Nat /\ OutSize < IdxMod
  BY RingAssumption
<1>4. /\ Less(out_prod, out_cons) \in 0 .. IdxMod - 1
      /\ Less(out_prod, out_cons) = IF out_prod >= out_cons THEN out_prod - out_cons
                                    ELSE out_prod + IdxMod - out_cons
  BY <1>1, LessIs
<1>5. 1 \in 0 .. IdxMod - 1 /\ 1 <= Less(out_prod, out_cons)
  BY <1>1, <1>2, <1>3, <1>4
<1>6. Less(out_prod, (out_cons + 1) % IdxMod) = Less(out_prod, out_cons) - 1
  BY <1>1, <1>5, LessAfterTake
<1> QED
  BY <1>4, <1>5, <1>6, <1>3 DEF BackendTakes

-----------------------------------------------------------------------------
(* Neither ring ever holds more than it can, and what the DPC has read of  *)
(* the indices still bounds what it may copy.                              *)
LEMMA IndicesStep == IInv /\ [Next]_vars => Indices'
<1> SUFFICES ASSUME IInv, [Next]_vars, Undisturbed PROVE Indices'
  BY RacesKept DEF Indices, Undisturbed
<1> USE DEF irpVars, dpcVars, stateVars, inVars, outVars, eventVars, leftVars
<1> DEFINE Filled == Less(in_prod, in_cons)
           Used   == Less(out_prod, out_cons)
<1>0. /\ DpcType /\ Boot \in Cpus
      /\ \A c \in Cpus : pc[c] # "idle" => c = Boot
      /\ Filled <= InSize /\ Used <= OutSize
      /\ \A c \in Cpus :
           /\ pc[c] = "copyingin" => /\ snap[c].cons = in_cons
                                     /\ Less(snap[c].prod, in_cons) <= Filled
           /\ pc[c] = "copyingout" => /\ snap[c].prod = out_prod
                                      /\ Used <= Less(out_prod, snap[c].cons)
                                      /\ Less(out_prod, snap[c].cons) <= OutSize
  BY Alone, RingAssumption DEF IInv, Indices
<1>n. /\ IdxMod \in Nat /\ OutSize \in Nat /\ InSize \in Nat
      /\ Filled \in 0 .. IdxMod - 1 /\ Used \in 0 .. IdxMod - 1
      /\ \A c \in Cpus : /\ Less(snap[c].prod, in_cons) \in 0 .. IdxMod - 1
                         /\ Less(out_prod, snap[c].cons) \in 0 .. IdxMod - 1
  <2>1. /\ in_prod \in 0 .. IdxMod - 1 /\ in_cons \in 0 .. IdxMod - 1
        /\ out_prod \in 0 .. IdxMod - 1 /\ out_cons \in 0 .. IdxMod - 1
        /\ \A c \in Cpus : /\ snap[c].prod \in 0 .. IdxMod - 1
                           /\ snap[c].cons \in 0 .. IdxMod - 1
    BY DEF IInv, PageType, DpcType
  <2> QED
    BY <2>1, LessIs, RingAssumption
<1>1. ASSUME NEW c \in Cpus, CopyIn(c) PROVE Indices'
  <2> DEFINE n == Len(ReadSlots(c))
  <2>1. /\ c = Boot /\ n \in 0 .. IdxMod - 1
        /\ Less(in_prod', in_cons') = Filled - n
    BY <1>1, Taking
  <2> HIDE DEF n
  <2>2. Less(in_prod', in_cons') <= InSize
    BY <1>0, <1>n, <2>1
  <2>3. UNCHANGED outVars /\ \E to \in {"read", "write"} : pc' = [pc EXCEPT ![c] = to]
    BY <1>1 DEF CopyIn, Settle
  <2> QED
    BY <1>0, <2>1, <2>2, <2>3 DEF DpcType, Indices
<1>2. ASSUME NEW c \in Cpus, CopyOut(c) PROVE Indices'
  <2>1. c = Boot /\ Less(out_prod', out_cons') <= OutSize
    BY <1>2, Putting
  <2>2. UNCHANGED inVars /\ \E to \in {"write", "unmask"} : pc' = [pc EXCEPT ![c] = to]
    BY <1>2 DEF CopyOut, Settle
  <2> QED
    BY <1>0, <2>1, <2>2 DEF DpcType, Indices
<1>3. CASE BackendSends
  <2>1. /\ Less(in_prod', in_cons') = Filled + 1 /\ Filled < InSize
        /\ in_cons' = in_cons /\ UNCHANGED <<dpcVars, outVars>>
    BY <1>3, Sending DEF BackendSends
  <2>2. Less(in_prod', in_cons') <= InSize /\ Filled <= Less(in_prod', in_cons')
    BY <1>n, <2>1
  <2>3. ASSUME NEW c \in Cpus, pc[c] = "copyingin"
        PROVE  Less(snap[c].prod, in_cons) <= Less(in_prod', in_cons')
    BY <1>0, <1>n, <2>1, <2>3
  <2> QED
    BY <1>0, <2>1, <2>2, <2>3 DEF Indices
<1>4. CASE BackendTakes
  <2>1. /\ Less(out_prod', out_cons') = Used - 1
        /\ out_prod' = out_prod /\ UNCHANGED <<dpcVars, inVars>>
    BY <1>4, BackendTaking DEF BackendTakes
  <2>2. Less(out_prod', out_cons') <= OutSize
    BY <1>0, <1>n, <2>1
  <2>3. ASSUME NEW c \in Cpus, pc[c] = "copyingout"
        PROVE  Less(out_prod', out_cons') <= Less(out_prod, snap[c].cons)
    BY <1>0, <1>n, <2>1, <2>3
  <2> QED
    BY <1>0, <2>1, <2>2, <2>3 DEF Indices
<1>5. CASE RingDisconnect
  <2>1. \A c \in Cpus : pc[c] = "idle"
    BY <1>5 DEF RingDisconnect, Undisturbed
  <2>2. Less(0, 0) = 0
    BY RingAssumption, LessIs
  <2> QED
    BY <1>5, <1>n, <2>1, <2>2 DEF RingDisconnect, Indices
<1>6. ASSUME NEW c \in Cpus, UNCHANGED <<inVars, outVars>>,
             \/ CopySnap(c, "copyin", "copyingin", in_prod, in_cons)
             \/ CopySnap(c, "copyout", "copyingout", out_prod, out_cons)
      PROVE  Indices'
  <2>1. Filled <= Filled /\ Used <= Used
    BY <1>n
  <2>2. CASE CopySnap(c, "copyin", "copyingin", in_prod, in_cons)
    BY <1>0, <1>6, <2>1, <2>2 DEF CopySnap, Goes, DpcType, Indices
  <2>3. CASE CopySnap(c, "copyout", "copyingout", out_prod, out_cons)
    BY <1>0, <1>6, <2>1, <2>3 DEF CopySnap, Goes, DpcType, Indices
  <2> QED
    BY <1>6, <2>2, <2>3
<1>7. CASE /\ UNCHANGED <<snap, inVars, outVars>>
           /\ \/ pc' = pc
              \/ \E c \in Cpus : \E to : /\ to \notin {"copyingin", "copyingout"}
                                         /\ pc' = [pc EXCEPT ![c] = to]
  BY <1>0, <1>7 DEF DpcType, Indices
<1> QED
  <2>1. ASSUME NEW c \in Cpus, \/ DpcStart(c) \/ DpcCheck(c) \/ DpcUnmask(c)
                               \/ PollRemove(c, "read", "write")
                               \/ PollRemove(c, "write", "unmask")
        PROVE  Indices'
    <3>1. \E to \in {"check", "read", "unmask", "idle", "write", "copyin", "copyout"} :
            pc' = [pc EXCEPT ![c] = to]
      BY <2>1 DEF DpcStart, DpcCheck, DpcUnmask, PollRemove, Goes
    <3>2. UNCHANGED <<snap, inVars, outVars>>
      BY <2>1 DEF DpcStart, DpcCheck, DpcUnmask, PollRemove
    <3> QED
      BY <1>7, <3>1, <3>2
  <2>2. [Next]_vars =>
          \/ \E c \in Cpus :
               \/ CopyIn(c) \/ CopyOut(c)
               \/ DpcStart(c) \/ DpcCheck(c) \/ DpcUnmask(c)
               \/ PollRemove(c, "read", "write") \/ PollRemove(c, "write", "unmask")
               \/ /\ UNCHANGED <<inVars, outVars>>
                  /\ \/ CopySnap(c, "copyin", "copyingin", in_prod, in_cons)
                     \/ CopySnap(c, "copyout", "copyingout", out_prod, out_cons)
          \/ BackendSends \/ BackendTakes \/ RingDisconnect
          \/ UNCHANGED <<pc, snap, inVars, outVars>>
    BY RingAssumption, ZenonT(30)
       DEF Next, Others, IoManager, Frontend, DpcRuns, Interrupts, RingClose, RingDpc,
           RingPutQueue, CancelQueued, CancelHeld, CloseBegin, RingOpen, CloseReads,
           CloseWrites, CloseLoop, CopySnap, RingConnect, RingEnable, RingDisable,
           RingEvtchnCallback, vars
  <2> QED
    BY <1>1, <1>2, <1>3, <1>4, <1>5, <1>6, <1>7, <2>1, <2>2

-----------------------------------------------------------------------------
(* Every step keeps the invariant.                                         *)
LEMMA IInvStep == IInv /\ [Next]_vars => IInv'
  BY AccountedStep, FileStep, DpcStep, PageStep, LeftStep, MovedStep, ClosingStep, PageThereStep,
     WakeupStep, IndicesStep DEF IInv

(* The ring never leaves the inductive invariant.                          *)
THEOREM Invariance == Spec => []IInv
<1> QED
  BY IInvInit, IInvStep, PTL DEF Spec

(* Every variable keeps its type.                                          *)
THEOREM TypeCorrect == Spec => []TypeOK
<1>1. IInv => TypeOK
  BY RingAssumption, ZenonT(30)
     DEF IInv, QueueType, FileType, PageType, LeftType, DpcType, MovedType, TypeOK
<1> QED
  BY <1>1, Invariance, PTL

(* Each pending IRP is in one place, on the queue of its kind or with the  *)
(* DPC on one processor, and no other is anywhere, whatever overlaps.      *)
THEOREM IrpsAccounted == Spec => []IrpAccounted
<1>1. IInv => IrpAccounted
  <2> SUFFICES ASSUME IInv PROVE IrpAccounted
    OBVIOUS
  <2>0. /\ Accounted /\ QueueType /\ DpcType /\ DOMAIN queue = {"read", "write"}
        /\ queue["read"] \in Seq(Irps) /\ queue["write"] \in Seq(Irps)
    BY DEF IInv, QueueType
  <2>1. ASSUME NEW q \in DOMAIN queue, NEW k \in 1 .. Len(queue[q])
        PROVE  Kind(queue[q][k]) = q /\ queue[q][k] \notin cancel
    <3>1. Contains(queue[q], queue[q][k]) /\ queue[q][k] \in Irps
      BY <2>0, ElementOfSeq DEF Contains
    <3> QED
      BY <2>0, <3>1 DEF Accounted, Queued, Kind
  <2>2. ASSUME NEW i \in Irps
        PROVE  Cardinality(Places(i)) = IF status[i] = "pending" THEN 1 ELSE 0
    <3> DEFINE With == {"dpc"} \X {c \in Cpus : held[c] = i}
    <3>1. Places(i) = OnQueue("read", i) \union OnQueue("write", i) \union With
      BY DEF Places
    <3>2. ASSUME NEW q \in {"read", "write"}, ~Contains(queue[q], i) PROVE OnQueue(q, i) = {}
      BY <3>2 DEF Contains, OnQueue
    <3>3. ASSUME NEW q \in {"read", "write"}, Contains(queue[q], i)
          PROVE  \E p : OnQueue(q, i) = {p}
      <4>1. PICK k \in 1 .. Len(queue[q]) : queue[q][k] = i
        BY <3>3 DEF Contains
      <4>2. IsInjective(queue[q]) /\ DOMAIN queue[q] = 1 .. Len(queue[q])
        BY <2>0, LenProperties DEF Accounted
      <4>3. {j \in 1 .. Len(queue[q]) : queue[q][j] = i} = {k}
        BY <4>1, <4>2 DEF IsInjective
      <4>4. OnQueue(q, i) = {<<q, k>>}
        BY <4>3 DEF OnQueue
      <4> QED
        BY <4>4
    <3>4. ASSUME NEW c \in Cpus, held[c] = i PROVE With = {<<"dpc", c>>}
      <4>1. {d \in Cpus : held[d] = i} = {c}
        BY <2>0, <3>4 DEF Accounted
      <4> QED
        BY <4>1
    <3>5. (\A c \in Cpus : held[c] # i) => With = {}
      OBVIOUS
    <3> HIDE DEF With
    <3>6. Cardinality({}) = 0 /\ \A p : Cardinality({p}) = 1
      BY FS_EmptySet, FS_Singleton
    <3>7. ASSUME status[i] # "pending" PROVE Places(i) = {}
      BY <2>0, <3>1, <3>2, <3>5, <3>7 DEF Accounted, Queued
    <3>8. ASSUME status[i] = "pending" PROVE \E p : Places(i) = {p}
      <4>1. CASE Contains(queue["read"], i)
        <5>1. ~Contains(queue["write"], i) /\ \A c \in Cpus : held[c] # i
          BY <2>0, <4>1 DEF Accounted, Queued
        <5>2. OnQueue("write", i) = {} /\ With = {} /\ \E p : OnQueue("read", i) = {p}
          BY <3>2, <3>3, <3>5, <4>1, <5>1
        <5> QED
          BY <3>1, <5>2
      <4>2. CASE Contains(queue["write"], i)
        <5>1. ~Contains(queue["read"], i) /\ \A c \in Cpus : held[c] # i
          BY <2>0, <4>2 DEF Accounted, Queued
        <5>2. OnQueue("read", i) = {} /\ With = {} /\ \E p : OnQueue("write", i) = {p}
          BY <3>2, <3>3, <3>5, <4>2, <5>1
        <5> QED
          BY <3>1, <5>2
      <4>3. CASE ~Queued(i)
        <5>1. OnQueue("read", i) = {} /\ OnQueue("write", i) = {}
          BY <3>2, <4>3 DEF Queued
        <5>2. \E c \in Cpus : held[c] = i
          BY <2>0, <3>8, <4>3 DEF Accounted
        <5> QED
          BY <3>1, <3>4, <5>1, <5>2
      <4> QED
        BY <4>1, <4>2, <4>3 DEF Queued
    <3> QED
      BY <3>6, <3>7, <3>8
  <2> QED
    BY <2>1, <2>2 DEF IrpAccounted
<1> QED
  BY <1>1, Invariance, PTL

(* RingClose leaves the file no pending IRP, unless the DPC ran meanwhile. *)
THEOREM ClosesCancel == Spec => []CloseCancels
<1>1. IInv => CloseCancels
  BY DEF IInv, Closing, CloseCancels
<1> QED
  BY <1>1, Invariance, PTL

(* The DPC uses the page and the channel only while they exist, unless the *)
(* ring is disconnected around it or an early IRP queues it.               *)
THEOREM PageUsedWhileThere == Spec => []NoUseAfterDisconnect
<1>1. IInv => NoUseAfterDisconnect
  BY DEF IInv, PageThere, NoUseAfterDisconnect
<1> QED
  BY <1>1, Invariance, PTL

(* With one DPC at a time no wake-up is lost: at rest, an enabled ring has *)
(* nothing for a read that waits and no room for a write that does, but    *)
(* for an unmask that did not complete and an IRP for no characters.       *)
THEOREM WakeupsNotLost == Spec => []NoLostWakeup
<1>1. IInv => (("dpc" \notin races /\ AtRest /\ connected /\ enabled
                /\ "event" \notin left) =>
                 /\ (queue["read"] # << >> /\ "read" \notin left)
                      => InAvailable(in_prod, in_cons) = 0
                 /\ (queue["write"] # << >> /\ "write" \notin left)
                      => OutAvailable(out_prod, out_cons) = 0)
  BY RingAssumption DEF IInv, WakeupToCome, AtRest
<1>2. IInv /\ TypeOK => NoLostWakeup
  BY <1>1 DEF NoLostWakeup
<1> QED
  BY <1>2, Invariance, TypeCorrect, PTL

-----------------------------------------------------------------------------
(* Both rings are bounded queues of characters.                            *)
Size == {InSize, OutSize}

(* What is in a ring, character by character.                              *)
LEMMA ContentIs ==
  ASSUME NEW size \in Size, NEW ring \in [0 .. size - 1 -> 0 .. IdxMod - 1],
         NEW from \in 0 .. IdxMod - 1, NEW n \in 0 .. IdxMod - 1
  PROVE  /\ Content(ring, from, n, size) \in Seq(0 .. IdxMod - 1)
         /\ Len(Content(ring, from, n, size)) = n
         /\ \A k \in 1 .. n : Content(ring, from, n, size)[k] = ring[(from + k - 1) % size]
<1>1. size \in Nat \ {0} /\ IdxMod \in Nat \ {0} /\ n \in Nat /\ from \in Nat
  BY RingAssumption DEF Size
<1>2. \A k \in 1 .. n : (from + k - 1) % size \in 0 .. size - 1
  <2>1. \A k \in 1 .. n : from + k - 1 \in Nat
    BY <1>1
  <2> QED
    BY <1>1, <2>1, ModDef
<1>3. \A k \in 1 .. n : ring[(from + k - 1) % size] \in 0 .. IdxMod - 1
  BY <1>2
<1> QED
  BY <1>1, <1>3 DEF Content

(* The slot of an index some characters further does not depend on where   *)
(* the indices wrap, since the size of a ring divides what they count to.  *)
LEMMA SlotFurther ==
  ASSUME NEW size \in Size, NEW a \in 0 .. IdxMod - 1, NEW n \in 0 .. IdxMod - 1,
         NEW j \in Nat
  PROVE  (((a + n) % IdxMod) + j) % size = (a + n + j) % size
<1>1. /\ size \in Nat \ {0} /\ IdxMod \in Nat \ {0} /\ IdxMod % size = 0
      /\ n \in 0 .. IdxMod
  BY RingAssumption DEF Size
<1> DEFINE e == (a + n) % IdxMod
           x == e + j
<1>2. /\ e = IF a + n < IdxMod THEN a + n ELSE a + n - IdxMod
      /\ e \in 0 .. IdxMod - 1
  BY <1>1, FurtherIs
<1> HIDE DEF e
<1>3. x \in Nat
  BY <1>1, <1>2
<1> HIDE DEF x
<1>4. (x + IdxMod) % size = x % size
  BY <1>1, <1>3, ModShift
<1>5. a + n + j = x \/ a + n + j = x + IdxMod
  BY <1>1, <1>2 DEF x
<1>6. x % size = (a + n + j) % size
  BY <1>4, <1>5
<1> QED
  BY <1>6 DEF x, e

(* The producer's index is the consumer's and what is in the ring.         *)
LEMMA ProducerSlot ==
  ASSUME NEW size \in Size, NEW prod \in 0 .. IdxMod - 1, NEW cons \in 0 .. IdxMod - 1,
         NEW j \in Nat
  PROVE  (prod + j) % size = (cons + Less(prod, cons) + j) % size
<1>1. /\ size \in Nat \ {0} /\ IdxMod \in Nat \ {0} /\ IdxMod % size = 0
  BY RingAssumption DEF Size
<1>2. Less(prod, cons) = IF prod >= cons THEN prod - cons ELSE prod + IdxMod - cons
  BY LessIs
<1> DEFINE x == prod + j
<1>3. x \in Nat
  BY <1>1
<1> HIDE DEF x
<1>4. (x + IdxMod) % size = x % size
  BY <1>1, <1>3, ModShift
<1>5. cons + Less(prod, cons) + j = x \/ cons + Less(prod, cons) + j = x + IdxMod
  BY <1>1, <1>2 DEF x
<1> QED
  BY <1>4, <1>5 DEF x

(* Two indices less than the ring apart are in different slots.            *)
LEMMA SlotsDiffer ==
  ASSUME NEW size \in Size, NEW a \in 0 .. IdxMod - 1, NEW j \in Nat, NEW k \in Nat,
         j < k, k < j + size
  PROVE  (a + j) % size # (a + k) % size
<1>1. size \in Nat \ {0} /\ a \in Nat
  BY RingAssumption DEF Size
<1> DEFINE x == a + j
           y == a + k
<1>2. x \in Nat /\ y \in Nat /\ x < y /\ y < x + size
  BY <1>1
<1> HIDE DEF x, y
<1>3. x % size # y % size
  BY <1>1, <1>2, ModDistinct
<1> QED
  BY <1>3 DEF x, y

InQueue  == Content(in, in_cons, Less(in_prod, in_cons), InSize)
OutQueue == Content(out, out_cons, Less(out_prod, out_cons), OutSize)

(* What is in each ring, as the abstract queue has it.                     *)
LEMMA Queues ==
  ASSUME IInv
  PROVE  /\ InQueue \in Seq(0 .. IdxMod - 1) /\ OutQueue \in Seq(0 .. IdxMod - 1)
         /\ Len(InQueue) = Less(in_prod, in_cons)
         /\ Len(OutQueue) = Less(out_prod, out_cons)
         /\ \A k \in 1 .. Less(in_prod, in_cons) :
              InQueue[k] = in[(in_cons + k - 1) % InSize]
         /\ \A k \in 1 .. Less(out_prod, out_cons) :
              OutQueue[k] = out[(out_cons + k - 1) % OutSize]
<1>1. /\ in_prod \in 0 .. IdxMod - 1 /\ in_cons \in 0 .. IdxMod - 1
      /\ out_prod \in 0 .. IdxMod - 1 /\ out_cons \in 0 .. IdxMod - 1
      /\ in \in [0 .. InSize - 1 -> 0 .. IdxMod - 1]
      /\ out \in [0 .. OutSize - 1 -> 0 .. IdxMod - 1]
      /\ InSize \in Size /\ OutSize \in Size
  BY DEF IInv, PageType, Size
<1>2. /\ Less(in_prod, in_cons) \in 0 .. IdxMod - 1
      /\ Less(out_prod, out_cons) \in 0 .. IdxMod - 1
  BY <1>1, LessIs
<1>3. /\ InQueue \in Seq(0 .. IdxMod - 1) /\ Len(InQueue) = Less(in_prod, in_cons)
      /\ \A k \in 1 .. Less(in_prod, in_cons) :
           InQueue[k] = in[(in_cons + k - 1) % InSize]
  BY <1>1, <1>2, ContentIs, ZenonT(30) DEF InQueue
<1>4. /\ OutQueue \in Seq(0 .. IdxMod - 1) /\ Len(OutQueue) = Less(out_prod, out_cons)
      /\ \A k \in 1 .. Less(out_prod, out_cons) :
           OutQueue[k] = out[(out_cons + k - 1) % OutSize]
  BY <1>1, <1>2, ContentIs, ZenonT(30) DEF OutQueue
<1> QED
  BY <1>3, <1>4

(* The same, after a step.                                                 *)
LEMMA QueuesNext ==
  ASSUME IInv'
  PROVE  /\ InQueue' \in Seq(0 .. IdxMod - 1) /\ OutQueue' \in Seq(0 .. IdxMod - 1)
         /\ Len(InQueue') = Less(in_prod', in_cons')
         /\ Len(OutQueue') = Less(out_prod', out_cons')
         /\ \A k \in 1 .. Less(in_prod', in_cons') :
              InQueue'[k] = in'[(in_cons' + k - 1) % InSize]
         /\ \A k \in 1 .. Less(out_prod', out_cons') :
              OutQueue'[k] = out'[(out_cons' + k - 1) % OutSize]
<1>1. /\ in_prod' \in 0 .. IdxMod - 1 /\ in_cons' \in 0 .. IdxMod - 1
      /\ out_prod' \in 0 .. IdxMod - 1 /\ out_cons' \in 0 .. IdxMod - 1
      /\ in' \in [0 .. InSize - 1 -> 0 .. IdxMod - 1]
      /\ out' \in [0 .. OutSize - 1 -> 0 .. IdxMod - 1]
      /\ InSize \in Size /\ OutSize \in Size
  BY DEF IInv, PageType, Size
<1>2. /\ Less(in_prod', in_cons') \in 0 .. IdxMod - 1
      /\ Less(out_prod', out_cons') \in 0 .. IdxMod - 1
  BY <1>1, LessIs
<1>3. /\ InQueue' = Content(in', in_cons', Less(in_prod', in_cons'), InSize)
      /\ OutQueue' = Content(out', out_cons', Less(out_prod', out_cons'), OutSize)
  BY DEF InQueue, OutQueue
<1>4. /\ InQueue' \in Seq(0 .. IdxMod - 1) /\ Len(InQueue') = Less(in_prod', in_cons')
      /\ \A k \in 1 .. Less(in_prod', in_cons') :
           InQueue'[k] = in'[(in_cons' + k - 1) % InSize]
  <2>1. /\ Content(in', in_cons', Less(in_prod', in_cons'), InSize)
             \in Seq(0 .. IdxMod - 1)
        /\ Len(Content(in', in_cons', Less(in_prod', in_cons'), InSize))
             = Less(in_prod', in_cons')
        /\ \A k \in 1 .. Less(in_prod', in_cons') :
             Content(in', in_cons', Less(in_prod', in_cons'), InSize)[k]
               = in'[(in_cons' + k - 1) % InSize]
    BY <1>1, <1>2, ContentIs, ZenonT(30)
  <2> QED
    BY <1>3, <2>1, Zenon
<1>5. /\ OutQueue' \in Seq(0 .. IdxMod - 1) /\ Len(OutQueue') = Less(out_prod', out_cons')
      /\ \A k \in 1 .. Less(out_prod', out_cons') :
           OutQueue'[k] = out'[(out_cons' + k - 1) % OutSize]
  <2>1. /\ Content(out', out_cons', Less(out_prod', out_cons'), OutSize)
             \in Seq(0 .. IdxMod - 1)
        /\ Len(Content(out', out_cons', Less(out_prod', out_cons'), OutSize))
             = Less(out_prod', out_cons')
        /\ \A k \in 1 .. Less(out_prod', out_cons') :
             Content(out', out_cons', Less(out_prod', out_cons'), OutSize)[k]
               = out'[(out_cons' + k - 1) % OutSize]
    BY <1>1, <1>2, ContentIs, ZenonT(30)
  <2> QED
    BY <1>3, <2>1, Zenon
<1> QED
  BY <1>4, <1>5

(* The DPC takes characters from the front of the ring.                    *)
LEMMA ReadFromFront ==
  ASSUME IInv, IInv', Undisturbed, NEW c \in Cpus, CopyIn(c)
  PROVE  InQueue = ReadFrom(c) \o InQueue'
<1> DEFINE n == Len(ReadSlots(c))
           L == Less(in_prod, in_cons)
<1>1. /\ n \in 0 .. IdxMod - 1 /\ n <= L /\ snap[c].cons = in_cons
      /\ in_cons' = (in_cons + n) % IdxMod
      /\ Less(in_prod', in_cons') = L - n
  BY Taking
<1>2. /\ ReadFrom(c) \in Seq(0 .. IdxMod - 1) /\ Len(ReadFrom(c)) = n
      /\ \A k \in 1 .. n : ReadFrom(c)[k] = in[(in_cons + k - 1) % InSize]
  BY <1>1, Reading DEF CopyIn
<1>3. /\ InQueue \in Seq(0 .. IdxMod - 1) /\ Len(InQueue) = L
      /\ \A k \in 1 .. L : InQueue[k] = in[(in_cons + k - 1) % InSize]
  BY Queues
<1>4. /\ InQueue' \in Seq(0 .. IdxMod - 1) /\ Len(InQueue') = L - n
      /\ \A k \in 1 .. L - n : InQueue'[k] = in'[(in_cons' + k - 1) % InSize]
  BY <1>1, QueuesNext
<1>5. in' = in /\ in_cons \in 0 .. IdxMod - 1 /\ InSize \in Size
      /\ IdxMod \in Nat /\ L \in 0 .. IdxMod - 1
  BY LessIs, RingAssumption DEF IInv, PageType, Size, CopyIn
<1> HIDE DEF n, L
<1>6. Len(InQueue) = Len(ReadFrom(c)) + Len(InQueue')
  BY <1>1, <1>2, <1>3, <1>4, <1>5
<1>7. ASSUME NEW k \in 1 .. n PROVE InQueue[k] = ReadFrom(c)[k]
  <2>1. k \in 1 .. L
    BY <1>1, <1>5
  <2>2. InQueue[k] = in[(in_cons + k - 1) % InSize]
    BY <1>3, <2>1
  <2> QED
    BY <1>2, <2>2
<1>8. ASSUME NEW k \in 1 .. L - n PROVE InQueue[n + k] = InQueue'[k]
  <2> DEFINE j == k - 1
  <2>1. j \in Nat /\ n + k \in 1 .. L
    BY <1>1, <1>5
  <2>2. (((in_cons + n) % IdxMod) + j) % InSize = (in_cons + n + j) % InSize
    BY <1>1, <1>5, <2>1, SlotFurther
  <2>3. /\ ((in_cons + n) % IdxMod) + k - 1 = ((in_cons + n) % IdxMod) + j
        /\ in_cons + (n + k) - 1 = in_cons + n + j
    <3>1. in_cons' \in Nat /\ in_cons \in Nat /\ n \in Nat
      BY <1>1, <1>5 DEF IInv, PageType
    <3> QED
      BY <1>1, <1>5, <2>1, <3>1
  <2>4. InQueue[n + k] = in[(in_cons + (n + k) - 1) % InSize]
    BY <1>3, <2>1
  <2>5. InQueue'[k] = in[(((in_cons + n) % IdxMod) + k - 1) % InSize]
    BY <1>1, <1>4, <1>5
  <2> HIDE DEF j
  <2> QED
    BY <2>2, <2>3, <2>4, <2>5
<1> DEFINE s == ReadFrom(c)
           t == InQueue'
           u == InQueue
<1>9. /\ s \in Seq(0 .. IdxMod - 1) /\ t \in Seq(0 .. IdxMod - 1) /\ u \in Seq(0 .. IdxMod - 1)
      /\ Len(u) = Len(s) + Len(t)
      /\ \A k \in 1 .. Len(s) : u[k] = s[k]
      /\ \A k \in 1 .. Len(t) : u[Len(s) + k] = t[k]
  BY <1>2, <1>3, <1>4, <1>6, <1>7, <1>8
<1> HIDE DEF s, t, u
<1>10. u = s \o t
  BY <1>9, ConcatEqual
<1> QED
  BY <1>10 DEF s, t, u

(* The backend appends to the ring of characters to read.                  *)
LEMMA SentToBack ==
  ASSUME IInv, IInv', BackendSends
  PROVE  /\ Len(InQueue) <= Len(InQueue')
         /\ SubSeq(InQueue', 1, Len(InQueue)) = InQueue
<1> DEFINE L == Less(in_prod, in_cons)
           t == InQueue'
<1>1. /\ in_cons' = in_cons /\ Less(in_prod', in_cons') = L + 1 /\ L < InSize
      /\ in' = [in EXCEPT ![in_prod % InSize] = in_prod]
  BY Sending DEF BackendSends
<1>2. /\ InQueue \in Seq(0 .. IdxMod - 1) /\ Len(InQueue) = L
      /\ \A k \in 1 .. L : InQueue[k] = in[(in_cons + k - 1) % InSize]
  BY Queues
<1>3. /\ t \in Seq(0 .. IdxMod - 1) /\ Len(t) = L + 1
      /\ \A k \in 1 .. L + 1 : t[k] = in'[(in_cons + k - 1) % InSize]
  BY <1>1, QueuesNext
<1>4. /\ in_cons \in 0 .. IdxMod - 1 /\ in_prod \in 0 .. IdxMod - 1
      /\ InSize \in Size /\ InSize \in Nat \ {0} /\ IdxMod \in Nat
      /\ L \in 0 .. IdxMod - 1
      /\ in \in [0 .. InSize - 1 -> 0 .. IdxMod - 1]
  BY LessIs, RingAssumption DEF IInv, PageType, Size
<1>5. in_prod % InSize = (in_cons + L) % InSize
  <2>1. (in_prod + 0) % InSize = (in_cons + L + 0) % InSize
    BY <1>4, ProducerSlot
  <2>2. in_prod + 0 = in_prod /\ in_cons + L + 0 = in_cons + L
    BY <1>4
  <2> QED
    BY <2>1, <2>2
<1> HIDE DEF L, t
<1>6. ASSUME NEW k \in 1 .. L PROVE t[k] = InQueue[k]
  <2> DEFINE j == k - 1
  <2>1. j \in Nat /\ L \in Nat /\ j < L /\ L < j + InSize /\ k \in 1 .. L + 1
        /\ in_cons + k - 1 = in_cons + j
    BY <1>1, <1>4
  <2> HIDE DEF j
  <2>2. (in_cons + j) % InSize # (in_cons + L) % InSize
    BY <1>4, <2>1, SlotsDiffer
  <2>3. (in_cons + j) % InSize \in 0 .. InSize - 1
    <3>1. in_cons + j \in Nat
      BY <1>4, <2>1
    <3> QED
      BY <1>4, <3>1, ModDef
  <2>4. in'[(in_cons + j) % InSize] = in[(in_cons + j) % InSize]
    BY <1>1, <1>4, <1>5, <2>2, <2>3
  <2> QED
    BY <1>2, <1>3, <2>1, <2>4
<1>7. /\ SubSeq(t, 1, L) \in Seq(0 .. IdxMod - 1)
      /\ Len(SubSeq(t, 1, L)) = L
      /\ \A k \in 1 .. L : SubSeq(t, 1, L)[k] = t[k]
  <2>1. \A k \in 1 .. L : t[k] \in 0 .. IdxMod - 1
    BY <1>3, <1>4, ElementOfSeq, SMTT(30)
  <2>2. 1 \in Int /\ L \in Int /\ L \in Nat
    BY <1>4
  <2>3. /\ SubSeq(t, 1, L) \in Seq(0 .. IdxMod - 1)
        /\ Len(SubSeq(t, 1, L)) = IF 1 <= L THEN L - 1 + 1 ELSE 0
        /\ \A k \in 1 .. L - 1 + 1 : SubSeq(t, 1, L)[k] = t[1 + k - 1]
    BY <2>1, <2>2, SubSeqProperties
  <2> QED
    BY <2>2, <2>3
<1> DEFINE s == SubSeq(t, 1, L)
<1>8. /\ s \in Seq(0 .. IdxMod - 1) /\ Len(s) = Len(InQueue)
      /\ \A k \in 1 .. Len(s) : s[k] = InQueue[k]
  BY <1>2, <1>6, <1>7
<1> HIDE DEF s
<1>9. s = InQueue
  BY <1>2, <1>8, SeqEqual
<1>10. Len(InQueue) <= Len(t) /\ SubSeq(t, 1, Len(InQueue)) = InQueue
  BY <1>2, <1>3, <1>4, <1>9 DEF s
<1> QED
  BY <1>10 DEF t

(* The DPC appends to the ring towards the backend.                        *)
LEMMA WrittenToBack ==
  ASSUME IInv, IInv', Undisturbed, NEW c \in Cpus, CopyOut(c)
  PROVE  OutQueue' = OutQueue \o Written(c)
<1> DEFINE n == Len(WriteSlots(c))
           L == Less(out_prod, out_cons)
<1>1. /\ n \in 0 .. IdxMod - 1 /\ L + n <= OutSize
      /\ snap[c].prod = out_prod /\ connected
      /\ out_cons' = out_cons
      /\ Less(out_prod', out_cons') = L + n
  BY Putting
<1>2. /\ Written(c) \in Seq(0 .. IdxMod - 1) /\ Len(Written(c)) = n
      /\ WriteSlots(c) = [k \in 1 .. n |-> (out_prod + k - 1) % OutSize]
      /\ DOMAIN WriteSlots(c) = 1 .. n
  BY <1>1, Writing DEF CopyOut
<1>3. /\ OutQueue \in Seq(0 .. IdxMod - 1) /\ Len(OutQueue) = L
      /\ \A k \in 1 .. L : OutQueue[k] = out[(out_cons + k - 1) % OutSize]
  BY Queues
<1>4. /\ OutQueue' \in Seq(0 .. IdxMod - 1) /\ Len(OutQueue') = L + n
      /\ \A k \in 1 .. L + n : OutQueue'[k] = out'[(out_cons + k - 1) % OutSize]
  BY <1>1, QueuesNext
<1>5. /\ out_cons \in 0 .. IdxMod - 1 /\ out_prod \in 0 .. IdxMod - 1
      /\ OutSize \in Size /\ OutSize \in Nat \ {0} /\ IdxMod \in Nat
      /\ L \in 0 .. IdxMod - 1
      /\ out \in [0 .. OutSize - 1 -> 0 .. IdxMod - 1]
  BY LessIs, RingAssumption DEF IInv, PageType, Size
<1>6. \A x \in 0 .. OutSize - 1 :
        out'[x] = IF \E k \in 1 .. n : WriteSlots(c)[k] = x
                  THEN Written(c)[CHOOSE k \in 1 .. n : WriteSlots(c)[k] = x]
                  ELSE out[x]
  BY <1>1, <1>2, <1>5 DEF CopyOut
<1>7. ASSUME NEW k \in 1 .. n
      PROVE  WriteSlots(c)[k] = (out_cons + (L + k - 1)) % OutSize
  <2> DEFINE j == k - 1
  <2>1. j \in Nat /\ out_prod + k - 1 = out_prod + j /\ out_cons + (L + k - 1) = out_cons + L + j
    BY <1>1, <1>5
  <2> HIDE DEF j
  <2>2. (out_prod + j) % OutSize = (out_cons + L + j) % OutSize
    BY <1>5, <2>1, ProducerSlot
  <2>3. WriteSlots(c)[k] = (out_prod + k - 1) % OutSize
    BY <1>2
  <2> QED
    BY <2>1, <2>2, <2>3
<1> HIDE DEF n, L
<1>n. n \in Nat /\ L \in Nat
  BY <1>1, <1>5
<1>8. ASSUME NEW j \in Nat PROVE (out_cons + j) % OutSize \in 0 .. OutSize - 1
  <2>1. out_cons + j \in Nat
    BY <1>5
  <2> QED
    BY <1>5, <2>1, ModDef
<1>9. ASSUME NEW k \in 1 .. L PROVE OutQueue'[k] = OutQueue[k]
  <2> DEFINE j == k - 1
  <2>1. j \in Nat /\ j < L /\ k \in 1 .. L + n /\ out_cons + k - 1 = out_cons + j
    BY <1>n, <1>5
  <2> HIDE DEF j
  <2>2. ASSUME NEW i \in 1 .. n PROVE WriteSlots(c)[i] # (out_cons + j) % OutSize
    <3> DEFINE m == L + i - 1
    <3>1. m \in Nat /\ j < m /\ m < j + OutSize
      BY <1>n, <1>1, <1>5, <2>1
    <3>2. WriteSlots(c)[i] = (out_cons + m) % OutSize
      BY <1>7
    <3> HIDE DEF m
    <3> QED
      BY <1>5, <2>1, <3>1, <3>2, SlotsDiffer
  <2>3. out'[(out_cons + j) % OutSize] = out[(out_cons + j) % OutSize]
    BY <1>6, <1>8, <2>1, <2>2
  <2> QED
    BY <1>3, <1>4, <2>1, <2>3
<1>10. ASSUME NEW k \in 1 .. n PROVE OutQueue'[L + k] = Written(c)[k]
  <2> DEFINE m == L + k - 1
             x == (out_cons + m) % OutSize
  <2>1. m \in Nat /\ L + k \in 1 .. L + n /\ out_cons + (L + k) - 1 = out_cons + m
    BY <1>n, <1>5
  <2>2. x \in 0 .. OutSize - 1
    <3> HIDE DEF m
    <3> QED
      BY <1>8, <2>1
  <2>3. WriteSlots(c)[k] = x
    BY <1>7
  <2>4. ASSUME NEW i \in 1 .. n, WriteSlots(c)[i] = x PROVE i = k
    <3> DEFINE p == L + i - 1
    <3>1. p \in Nat /\ (i < k => p < m /\ m < p + OutSize)
          /\ (k < i => m < p /\ p < m + OutSize)
      BY <1>n, <1>1, <1>5
    <3>2. WriteSlots(c)[i] = (out_cons + p) % OutSize
      BY <1>7
    <3> HIDE DEF p, m
    <3>3. (out_cons + p) % OutSize = (out_cons + m) % OutSize
      BY <2>4, <3>2
    <3>4. ~(i < k)
      BY <1>5, <2>1, <3>1, <3>3, SlotsDiffer
    <3>5. ~(k < i)
      BY <1>5, <2>1, <3>1, <3>3, SlotsDiffer
    <3> QED
      BY <3>4, <3>5, <1>n
  <2> HIDE DEF x
  <2>5. (CHOOSE i \in 1 .. n : WriteSlots(c)[i] = x) = k
    BY <2>3, <2>4
  <2>6. out'[x] = Written(c)[k]
    BY <1>6, <2>2, <2>3, <2>5
  <2>7. OutQueue'[L + k] = out'[(out_cons + (L + k) - 1) % OutSize]
    BY <1>4, <2>1
  <2> QED
    BY <2>1, <2>6, <2>7 DEF x
<1> DEFINE s == OutQueue
           t == Written(c)
           u == OutQueue'
<1>11. /\ s \in Seq(0 .. IdxMod - 1) /\ t \in Seq(0 .. IdxMod - 1) /\ u \in Seq(0 .. IdxMod - 1)
       /\ Len(u) = Len(s) + Len(t)
       /\ \A k \in 1 .. Len(s) : u[k] = s[k]
       /\ \A k \in 1 .. Len(t) : u[Len(s) + k] = t[k]
  BY <1>2, <1>3, <1>4, <1>9, <1>10
<1> HIDE DEF s, t, u
<1>12. u = s \o t
  BY <1>11, ConcatEqual
<1> QED
  BY <1>12 DEF s, t, u

(* The backend takes the character at the front.                           *)
LEMMA TakenFromFront ==
  ASSUME IInv, IInv', BackendTakes
  PROVE  1 \in 0 .. Len(OutQueue) /\ OutQueue' = SubSeq(OutQueue, 2, Len(OutQueue))
<1> DEFINE L == Less(out_prod, out_cons)
           s == OutQueue
           t == OutQueue'
<1>1. /\ out_cons' = (out_cons + 1) % IdxMod /\ L >= 1
      /\ Less(out_prod', out_cons') = L - 1 /\ out' = out
  BY BackendTaking DEF BackendTakes
<1>2. /\ s \in Seq(0 .. IdxMod - 1) /\ Len(s) = L
      /\ \A k \in 1 .. L : s[k] = out[(out_cons + k - 1) % OutSize]
  BY Queues
<1>3. /\ t \in Seq(0 .. IdxMod - 1) /\ Len(t) = L - 1
      /\ \A k \in 1 .. L - 1 : t[k] = out[(out_cons' + k - 1) % OutSize]
  BY <1>1, QueuesNext
<1>4. /\ out_cons \in 0 .. IdxMod - 1 /\ OutSize \in Size /\ OutSize \in Nat \ {0}
      /\ out_prod \in 0 .. IdxMod - 1 /\ IdxMod \in Nat /\ OutSize < IdxMod
  BY RingAssumption DEF IInv, PageType, Size
<1>a. L \in 0 .. IdxMod - 1
  BY <1>4, LessIs
<1>5. L \in 0 .. IdxMod - 1 /\ 1 \in 0 .. IdxMod - 1
  BY <1>4, <1>a
<1> HIDE DEF L, s, t
<1>6. ASSUME NEW k \in 1 .. L - 1 PROVE t[k] = s[k + 1]
  <2> DEFINE j == k - 1
  <2>1. j \in Nat /\ k + 1 \in 1 .. L /\ out_cons + (k + 1) - 1 = out_cons + 1 + j
    BY <1>1, <1>4, <1>5
  <2>2. out_cons' + k - 1 = ((out_cons + 1) % IdxMod) + j
    <3>1. out_cons' \in Nat
      BY <1>4 DEF IInv, PageType
    <3> QED
      BY <1>1, <3>1
  <2> HIDE DEF j
  <2>3. (((out_cons + 1) % IdxMod) + j) % OutSize = (out_cons + 1 + j) % OutSize
    BY <1>4, <1>5, <2>1, SlotFurther
  <2>4. s[k + 1] = out[(out_cons + (k + 1) - 1) % OutSize]
    BY <1>2, <2>1
  <2>5. t[k] = out[(out_cons' + k - 1) % OutSize]
    BY <1>3
  <2> QED
    BY <2>1, <2>2, <2>3, <2>4, <2>5
<1> DEFINE u == SubSeq(s, 2, L)
<1>7. /\ u \in Seq(0 .. IdxMod - 1) /\ Len(u) = L - 1
      /\ \A k \in 1 .. L - 1 : u[k] = s[k + 1]
  <2>1. \A k \in 2 .. L : s[k] \in 0 .. IdxMod - 1
    <3>1. \A k \in 1 .. L : s[k] \in 0 .. IdxMod - 1
      BY <1>2, ElementOfSeq
    <3> QED
      BY <3>1, <1>5
  <2>2. 2 \in Int /\ L \in Int
    BY <1>5
  <2>3. /\ u \in Seq(0 .. IdxMod - 1)
        /\ Len(u) = IF 2 <= L THEN L - 2 + 1 ELSE 0
        /\ \A k \in 1 .. L - 2 + 1 : u[k] = s[2 + k - 1]
    BY <2>1, <2>2, SubSeqProperties
  <2> HIDE DEF u
  <2>4. L - 2 + 1 = L - 1 /\ (\A k \in 1 .. L - 1 : 2 + k - 1 = k + 1)
    BY <1>5
  <2>5. Len(u) = L - 1
    BY <2>3, <1>1, <1>5
  <2> QED
    BY <2>3, <2>4, <2>5
<1> HIDE DEF u
<1>8. Len(t) = Len(u) /\ \A k \in 1 .. Len(t) : t[k] = u[k]
  BY <1>3, <1>6, <1>7
<1>9. t = u
  BY <1>3, <1>7, <1>8, SeqEqual
<1>10. 1 \in 0 .. Len(s) /\ u = SubSeq(s, 2, Len(s))
  BY <1>1, <1>2, <1>5 DEF u
<1> QED
  BY <1>9, <1>10 DEF s, t

(* Without two DPCs at once or a disconnection around one, each direction  *)
(* of the ring is a bounded queue of characters: none is lost, doubled or  *)
(* reordered between the backend and the IRPs.                             *)
THEOREM RingImplementsFifos == Spec => ImplementsFifos
<1>1. ASSUME IInv, IInv', [Next]_vars
      PROVE  [Undisturbed => InFifo!InNext /\ OutFifo!OutNext]_vars
  <2> SUFFICES ASSUME Next, Undisturbed PROVE InFifo!InNext /\ OutFifo!OutNext
    BY <1>1
  <2> USE DEF irpVars, dpcVars, stateVars, inVars, outVars, eventVars, leftVars
  <2>1. /\ InQueue \in Seq(0 .. IdxMod - 1) /\ OutQueue \in Seq(0 .. IdxMod - 1)
        /\ Len(InQueue) = Less(in_prod, in_cons)
        /\ Len(OutQueue) = Less(out_prod, out_cons)
    BY <1>1, Queues
  <2>2. /\ Len(InQueue') <= InSize /\ Len(OutQueue') <= OutSize
    <3>1. Undisturbed'
      BY <1>1, RacesKept DEF Undisturbed
    <3>2. Less(in_prod', in_cons') <= InSize /\ Less(out_prod', out_cons') <= OutSize
      BY <1>1, <3>1 DEF IInv, Indices
    <3> QED
      BY <1>1, <3>2, QueuesNext
  <2>3. /\ InFifo!InNext <=>
              \/ InQueue = moved'["read"] \o InQueue'
              \/ /\ moved'["read"] = << >> /\ Len(InQueue') <= InSize
                 /\ Len(InQueue) <= Len(InQueue')
                 /\ SubSeq(InQueue', 1, Len(InQueue)) = InQueue
              \/ moved'["read"] = << >> /\ InQueue' = << >>
        /\ OutFifo!OutNext <=>
              \/ OutQueue' = OutQueue \o moved'["write"] /\ Len(OutQueue') <= OutSize
              \/ /\ moved'["write"] = << >>
                 /\ \E n \in 0 .. Len(OutQueue) :
                      OutQueue' = SubSeq(OutQueue, n + 1, Len(OutQueue))
              \/ moved'["write"] = << >> /\ OutQueue' = << >>
    BY DEF InFifo!InNext, InFifo!Prefix, InFifo!Reset, OutFifo!OutNext, OutFifo!Reset,
           InQueue, OutQueue
  <2>4. ASSUME moved'["read"] = << >>, UNCHANGED inVars PROVE InFifo!InNext
    <3>1. InQueue' = InQueue
      BY <2>4 DEF InQueue
    <3>2. << >> \o InQueue = InQueue
      BY <2>1, ConcatEmptySeq
    <3> QED
      BY <2>3, <2>4, <3>1, <3>2
  <2>5. ASSUME moved'["write"] = << >>, UNCHANGED outVars PROVE OutFifo!OutNext
    <3>1. OutQueue' = OutQueue
      BY <2>5 DEF OutQueue
    <3>2. OutQueue \o << >> = OutQueue
      BY <2>1, ConcatEmptySeq
    <3> QED
      BY <2>2, <2>3, <2>5, <3>1, <3>2
  <2>6. ASSUME NEW c \in Cpus, CopyIn(c) PROVE InFifo!InNext /\ OutFifo!OutNext
    <3>1. moved'["read"] = ReadFrom(c) /\ moved'["write"] = << >> /\ UNCHANGED outVars
      BY <2>6 DEF CopyIn, Settle, Nothing
    <3>2. InQueue = ReadFrom(c) \o InQueue'
      BY <1>1, <2>6, ReadFromFront
    <3> QED
      BY <2>3, <2>5, <3>1, <3>2
  <2>7. ASSUME NEW c \in Cpus, CopyOut(c) PROVE InFifo!InNext /\ OutFifo!OutNext
    <3>1. moved'["write"] = Written(c) /\ moved'["read"] = << >> /\ UNCHANGED inVars
      BY <2>7 DEF CopyOut, Settle, Nothing
    <3>2. OutQueue' = OutQueue \o Written(c)
      BY <1>1, <2>7, WrittenToBack
    <3> QED
      BY <2>2, <2>3, <2>4, <3>1, <3>2
  <2>8. CASE BackendSends /\ moved' = Nothing
    <3>1. moved'["read"] = << >> /\ moved'["write"] = << >> /\ UNCHANGED outVars
      BY <2>8 DEF BackendSends, Nothing
    <3>2. Len(InQueue) <= Len(InQueue') /\ SubSeq(InQueue', 1, Len(InQueue)) = InQueue
      BY <1>1, <2>8, SentToBack
    <3> QED
      BY <2>2, <2>3, <2>5, <3>1, <3>2
  <2>9. CASE BackendTakes /\ moved' = Nothing
    <3>1. moved'["read"] = << >> /\ moved'["write"] = << >> /\ UNCHANGED inVars
      BY <2>9 DEF BackendTakes, Nothing
    <3>2. /\ 1 \in 0 .. Len(OutQueue)
          /\ OutQueue' = SubSeq(OutQueue, 1 + 1, Len(OutQueue))
      BY <1>1, <2>9, TakenFromFront
    <3> QED
      BY <2>3, <2>4, <3>1, <3>2
  <2>10. CASE RingDisconnect /\ moved' = Nothing
    <3>1. moved'["read"] = << >> /\ moved'["write"] = << >>
      BY <2>10 DEF Nothing
    <3>2. /\ in_prod' = 0 /\ in_cons' = 0 /\ out_prod' = 0 /\ out_cons' = 0
          /\ Less(0, 0) = 0
      BY <2>10, LessIs, RingAssumption DEF RingDisconnect
    <3>3. Len(InQueue') = 0 /\ Len(OutQueue') = 0
      BY <1>1, <3>2, QueuesNext
    <3>4. InQueue' = << >> /\ OutQueue' = << >>
      BY <1>1, <3>3, QueuesNext, EmptySeq
    <3> QED
      BY <2>3, <3>1, <3>4
  <2>11. CASE moved' = Nothing /\ UNCHANGED <<inVars, outVars>>
    BY <2>4, <2>5, <2>11 DEF Nothing
  <2> QED
    <3>1. \/ \E c \in Cpus : CopyIn(c) \/ CopyOut(c)
          \/ /\ moved' = Nothing
             /\ \/ BackendSends \/ BackendTakes \/ RingDisconnect
                \/ UNCHANGED <<inVars, outVars>>
      BY RingAssumption
         DEF Next, Others, IoManager, Frontend, DpcRuns, Interrupts, RingClose,
             RingDpc,
             RingPutQueue, CancelQueued, CancelHeld, CloseBegin, RingOpen, CloseReads,
             CloseWrites, CloseLoop, DpcStart, DpcCheck, PollRemove, CopySnap, DpcUnmask,
             RingConnect, RingEnable, RingDisable, RingEvtchnCallback
    <3> QED
      BY <2>6, <2>7, <2>8, <2>9, <2>10, <2>11, <3>1
<1> QED
  BY <1>1, Invariance, PTL DEF Spec, ImplementsFifos
=============================================================================
