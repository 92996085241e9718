----------------------------- MODULE LayoutProofs ----------------------------
(***************************************************************************)
(* Theorems about module Layout, for every word size, every constant of    *)
(* boot.rs that satisfies LayoutAssumption and every platform's layout.    *)
(*                                                                         *)
(* validate reads one region after the other, so that all it has read is a *)
(* sequence, AllRead, that grows at its end.  There are three inductive    *)
(* invariants.  ValidInv says at which stage which lists have been read,   *)
(* and that `ranges` and `total` are what their names say of AllRead.      *)
(* DecodeInv adds the accesses, on a layout whose regions share no byte.   *)
(* OwnInv says that the built-in layout is still the one Hvf::layout has   *)
(* checked, whose lists lie one behind the other, and that no later step   *)
(* refuses it.                                                             *)
(***************************************************************************)
EXTENDS Layout, SequenceTheorems, FiniteSetTheorems, TLAPS

RegionType == [space : Spaces, address : Nat, size : Nat, irq : Nat]
LayoutType ==
  [ram : Seq(RegionType), uart : Seq(RegionType), virtio : Seq(RegionType),
   hotplug : Seq(RegionType)]
PlanType ==
  [ram : Seq(RegionType \cup {Any}), uart : Seq(RegionType),
   virtio : Seq(RegionType \cup {Any}), hotplug : Seq(RegionType \cup {Any})]

\* The platform has returned a layout.
Planned == pc # "layout" /\ error # "layout"

\* What was read of one list is what the platform put there.
Parts == {"ram", "uart", "virtio", "hotplug"}
Reads(part) ==
  /\ Len(layout[part]) <= Len(plan[part])
  /\ \A i \in DOMAIN layout[part] : plan[part][i] \in {Any, layout[part][i]}

\* What the platform returns: RAM and hotplug ranges have no space of their own.
PlanOK ==
  /\ Planned =>
       /\ plan \in PlanType /\ Len(plan.uart) = 1 /\ Len(plan.hotplug) <= 1
       /\ \A i \in 1..Len(plan.ram) : plan.ram[i] = Any \/ plan.ram[i].space = "Mmio"
       /\ \A i \in 1..Len(plan.hotplug) : plan.hotplug[i] = Any \/ plan.hotplug[i].space = "Mmio"
       /\ \A part \in Parts : Reads(part)
  /\ ~Planned => plan = None
  /\ layout \in LayoutType

\* Which lists have been read at which stage.
RamDone == Len(layout.ram) = Len(plan.ram) /\ total = config.mib * MIB
CountsOK ==
  /\ config.vcpus > 0 /\ plan.ram # <<>> /\ Len(plan.virtio) = needs.devices
  /\ plan.uart[1].size >= UartMin
Stage ==
  /\ pc \in {"layout", "counts"} => layout = NoLayout /\ ranges = {} /\ total = 0
  /\ pc \in {"ram", "uart", "virtio"} \cup Accepted => CountsOK
  /\ pc \in {"ram", "uart"} => layout.uart = <<>> /\ layout.virtio = <<>>
  /\ pc \in {"ram", "uart", "virtio"} => layout.hotplug = <<>>
  /\ pc \in {"uart", "virtio"} \cup Accepted => RamDone
  /\ pc \in {"virtio"} \cup Accepted => layout.uart = <<plan.uart[1]>>
  /\ pc \in Accepted =>
       /\ Len(layout.virtio) = Len(plan.virtio) /\ Len(layout.hotplug) = Len(plan.hotplug)
       /\ (plan.hotplug = <<>>) = (needs.hotplug = None)

\* A region in its space, and as validate keeps it.
Inside(r) == r.size > 0 /\ End(r) <= Top /\ (r.space = "Port" => End(r) <= PortTop)
Kept(r) == [space |-> r.space, address |-> r.address, end |-> End(r)]

\* Regions in their spaces that have no byte in common.
Sound(q) ==
  /\ \A i \in 1..Len(q) : Inside(q[i])
  /\ \A i, j \in 1..Len(q) : i # j => Cells(q[i]) \cap Cells(q[j]) = {}

\* What validate has accepted so far, and what it keeps of it.
KeptOf(q, set) ==
  /\ \A i \in 1..Len(q) : Kept(q[i]) \in set
  /\ \A s \in set : \E i \in 1..Len(q) : s = Kept(q[i])
RangesKept == Sound(AllRead) /\ KeptOf(AllRead, ranges)

\* The RAM read so far: its bytes, and how many they are.
CellsOf(q) == UNION {Cells(q[i]) : i \in DOMAIN q}
RamCounted ==
  /\ \A i \in 1..Len(layout.ram) : layout.ram[i].space = "Mmio"
  /\ IsFiniteSet(CellsOf(layout.ram)) /\ Cardinality(CellsOf(layout.ram)) = total

\* The windows and the hotplug range read so far are what their owners need.
Fitting ==
  /\ \A i \in 1..Len(layout.virtio) :
       layout.virtio[i].space = "Mmio" /\ layout.virtio[i].size >= VirtioMin
  /\ \A i \in 1..Len(layout.hotplug) :
       /\ layout.hotplug[i].size = needs.hotplug.capacity
       /\ layout.hotplug[i].address % needs.hotplug.alignment = 0

Good == pc # "failed" => RangesKept /\ RamCounted /\ Fitting

\* Why validate has refused, if it has.
Refused ==
  /\ error \in {"counts", "region", "capacity", "hotplug"} => ~Acceptable
  /\ error # "attach"

\* The built-in platform's layout is what Hvf::layout has checked.
HvfPlan ==
  [ram |-> <<HvfRam>>, hotplug |-> HvfHotplug,
   uart |-> <<Region("Mmio", UART, UART_SIZE, UART_IRQ)>>,
   virtio |-> VirtioRegions(needs.devices)]
Own == host # None /\ Planned => HvfFits /\ plan = HvfPlan

\* What prepare has loaded.
Loaded ==
  boot # None =>
    /\ boot.redist \in Nat /\ boot.dtbLen \in Nat
    /\ PrepareFits(boot.redist, boot.spis, boot.dtbLen)
    /\ boot.entry = KernelEntry(host.kernel) /\ boot.initrd = Initrd(config.mib, host.kernel)
    /\ boot.dtb = Dtb(config.mib)

(***************************************************************************)
(* Constants and inputs.                                                   *)
(***************************************************************************)
\* The constants are naturals, the last word included.
LEMMA Constants ==
  /\ Top \in Nat /\ PortTop \in Nat /\ UartMin \in Nat /\ VirtioMin \in Nat /\ MIB \in Nat
  /\ RAM \in Nat /\ UART \in Nat /\ UART_SIZE \in Nat /\ VIRTIO_BASE \in Nat
  /\ VIRTIO_STRIDE \in Nat /\ GIC_DIST \in Nat /\ GIC_REDIST \in Nat /\ DistSize \in Nat
  /\ UART_IRQ \in Nat /\ VIRTIO_IRQ_BASE \in Nat /\ IrqEnd \in Nat /\ DtbSpace \in Nat
  /\ MinMib \in Nat /\ Page \in Nat /\ Word \in Nat /\ InitrdAlign \in Nat
  <1>1. {WordBits, PortTop, UartMin, VirtioMin, MIB, MinMib, RAM, UART, UART_SIZE,
         VIRTIO_BASE, VIRTIO_STRIDE, GIC_DIST, GIC_REDIST, DistSize, UART_IRQ,
         VIRTIO_IRQ_BASE, IrqEnd, KernelAlign, InitrdAlign, DtbSpace, Page, Word,
         ConfigBase, ConfigEnd} \subseteq Nat
    BY LayoutAssumption
  <1>2. 2 ^ WordBits \in Int
    BY <1>1
  <1>3. RAM \in Nat /\ RAM <= 2 ^ WordBits - 1
    BY <1>1, LayoutAssumption DEF Top
  <1>4. Top \in Nat
    BY <1>2, <1>3 DEF Top
  <1> QED BY <1>1, <1>4

\* What a run starts from is typed, and stays what it was.
LEMMA Inputs ==
  ASSUME LayoutTypeOK
  PROVE  /\ config \in Configs /\ needs \in Needs /\ host \in Hosts
         /\ config.vcpus \in Nat /\ config.mib \in Nat /\ config.strict \in BOOLEAN
         /\ needs.devices \in Nat
         /\ needs.hotplug # None =>
              /\ needs.hotplug.capacity \in Nat /\ needs.hotplug.capacity > 0
              /\ needs.hotplug.alignment \in Nat /\ needs.hotplug.alignment > 0
  <1>1. [config |-> config, needs |-> needs, host |-> host]
          \in [config : Configs, needs : Needs, host : Hosts]
    BY InputAssumption DEF LayoutTypeOK
  <1>2. config \in Configs /\ needs \in Needs /\ host \in Hosts
    BY <1>1
  <1>3. /\ config.vcpus \in Nat /\ config.mib \in Nat /\ needs.devices \in Nat
        /\ needs.hotplug # None =>
              needs.hotplug \in [capacity : Nat \ {0}, alignment : Nat \ {0}]
    BY <1>2 DEF Configs, Needs
  <1>4. config.strict \in BOOLEAN
    BY <1>2, Zenon DEF Configs
  <1> QED BY <1>2, <1>3, <1>4

\* The absence of an error is none of the errors.
LEMMA NoneApart == None \notin Errors
  BY InputAssumption

\* A region of a custom platform is a region.
LEMMA RegionsTyped == Regions \subseteq RegionType
  <1> SUFFICES ASSUME NEW r \in Regions PROVE r \in RegionType
    OBVIOUS
  <1>1. r \in [space : Spaces, address : 0..Top, size : 0..Top, irq : Nat]
    BY InputAssumption
  <1> QED BY <1>1 DEF RegionType

\* The bytes of two regions meet exactly when validate's comparison says so.
LEMMA CellsMeet ==
  ASSUME NEW r \in RegionType, NEW s \in RegionType, r.size > 0, s.size > 0
  PROVE  Cells(r) \cap Cells(s) = {} <=> ~Overlaps(r, Kept(s))
  <1>1. /\ r.address \in Nat /\ r.size \in Nat /\ s.address \in Nat /\ s.size \in Nat
    BY DEF RegionType
  <1>2. Overlaps(r, Kept(s)) <=>
          s.space = r.space /\ r.address < s.address + s.size /\ s.address < r.address + r.size
    BY DEF Overlaps, Kept, End
  <1>3. CASE Overlaps(r, Kept(s))
    <2>1. CASE r.address <= s.address
      <3>1. <<s.space, s.address>> \in Cells(r) \cap Cells(s)
        BY <1>1, <1>2, <1>3, <2>1 DEF Cells
      <3> QED BY <1>3, <3>1
    <2>2. CASE s.address < r.address
      <3>1. <<r.space, r.address>> \in Cells(r) \cap Cells(s)
        BY <1>1, <1>2, <1>3, <2>2 DEF Cells
      <3> QED BY <1>3, <3>1
    <2> QED BY <1>1, <2>1, <2>2
  <1>4. CASE ~Overlaps(r, Kept(s))
    <2> SUFFICES ASSUME NEW c \in Cells(r), c \in Cells(s) PROVE FALSE
      BY <1>4
    <2>1. c[1] = r.space /\ c[2] \in r.address..(r.address + r.size - 1)
      BY DEF Cells
    <2>2. c[1] = s.space /\ c[2] \in s.address..(s.address + s.size - 1)
      BY DEF Cells
    <2> QED BY <1>1, <1>2, <1>4, <2>1, <2>2
  <1> QED BY <1>3, <1>4

\* How many bytes a region has.
LEMMA CellsCount ==
  ASSUME NEW r \in RegionType, r.size > 0
  PROVE  IsFiniteSet(Cells(r)) /\ Cardinality(Cells(r)) = r.size
  <1>1. r.address \in Nat /\ r.size \in Nat
    BY DEF RegionType
  <1> DEFINE I == r.address..(r.address + r.size - 1)
  <1>2. IsFiniteSet(I) /\ Cardinality(I) = r.size
    <2>1. r.address \in Int /\ r.address + r.size - 1 \in Int
      BY <1>1
    <2>2. /\ IsFiniteSet(I)
          /\ Cardinality(I) = IF r.address > r.address + r.size - 1 THEN 0
                              ELSE (r.address + r.size - 1) - r.address + 1
      BY <2>1, FS_Interval
    <2> QED BY <1>1, <2>2
  <1>3. IsFiniteSet({r.space}) /\ Cardinality({r.space}) = 1
    BY FS_Singleton
  <1>4. IsFiniteSet({r.space} \X I) /\ Cardinality({r.space} \X I) = 1 * r.size
    <2> HIDE DEF I
    <2> QED BY <1>2, <1>3, FS_Product
  <1> QED BY <1>1, <1>4 DEF Cells

(***************************************************************************)
(* Sequences.                                                              *)
(***************************************************************************)
\* What Append does to lengths and elements.
LEMMA Appended ==
  ASSUME NEW S, NEW q \in Seq(S), NEW e \in S
  PROVE  /\ Append(q, e) \in Seq(S) /\ Len(Append(q, e)) = Len(q) + 1
         /\ \A i \in 1..Len(q) : Append(q, e)[i] = q[i]
         /\ Append(q, e)[Len(q) + 1] = e
  OBVIOUS

\* Appending to the second of two sequences.
LEMMA AppendSecond ==
  ASSUME NEW S, NEW a \in Seq(S), NEW b \in Seq(S), NEW e \in S
  PROVE  a \o Append(b, e) = Append(a \o b, e)
  <1>1. Append(b, e) \in Seq(S) /\ a \o b \in Seq(S)
    BY ConcatProperties
  <1> DEFINE l == a \o Append(b, e)
             r == Append(a \o b, e)
  <1>2. /\ l \in Seq(S) /\ r \in Seq(S)
        /\ Len(l) = Len(a) + Len(b) + 1 /\ Len(r) = Len(a) + Len(b) + 1
    BY <1>1, ConcatProperties
  <1>3. ASSUME NEW i \in 1..Len(l) PROVE l[i] = r[i]
    OBVIOUS
  <1> QED BY <1>2, <1>3, SeqEqual

\* Empty lists at the end do not count.
LEMMA EmptyEnds ==
  ASSUME NEW S, NEW a \in Seq(S), NEW b \in Seq(S)
  PROVE  a \o <<>> = a /\ a \o b \in Seq(S)
  BY ConcatEmptySeq, ConcatProperties

\* Where the elements of the first of two sequences are in their concatenation.
LEMMA PlaceInFirst ==
  ASSUME NEW S, NEW a \in Seq(S), NEW b \in Seq(S), NEW j \in 1..Len(a)
  PROVE  j \in 1..Len(a \o b) /\ (a \o b)[j] = a[j]
  OBVIOUS

\* The same for the second sequence.
LEMMA PlaceInSecond ==
  ASSUME NEW S, NEW a \in Seq(S), NEW b \in Seq(S), NEW j \in 1..Len(b)
  PROVE  Len(a) + j \in 1..Len(a \o b) /\ (a \o b)[Len(a) + j] = b[j]
  OBVIOUS

\* The lists of the layout are typed, and so is all that was read.
LEMMA ReadTyped ==
  ASSUME layout \in LayoutType
  PROVE  /\ layout.ram \in Seq(RegionType) /\ layout.uart \in Seq(RegionType)
         /\ layout.virtio \in Seq(RegionType) /\ layout.hotplug \in Seq(RegionType)
         /\ AllRead \in Seq(RegionType)
  <1>1. /\ layout.ram \in Seq(RegionType) /\ layout.uart \in Seq(RegionType)
        /\ layout.virtio \in Seq(RegionType) /\ layout.hotplug \in Seq(RegionType)
    BY DEF LayoutType
  <1>2. \A a, b \in Seq(RegionType) : a \o b \in Seq(RegionType)
    BY ConcatProperties
  <1> QED BY <1>1, <1>2 DEF AllRead

(***************************************************************************)
(* One region is read.                                                     *)
(***************************************************************************)
\* The lists after the one that a region is read into are empty.
LastList(part) ==
  /\ part \in {"ram"} => layout.uart = <<>>
  /\ part \in {"ram", "uart"} => layout.virtio = <<>>
  /\ part \in {"ram", "uart", "virtio"} => layout.hotplug = <<>>

\* What Add does to the layout.
LEMMA AddLayout ==
  ASSUME layout \in LayoutType, NEW part \in Parts, NEW r \in RegionType,
         layout' = [layout EXCEPT ![part] = Append(@, r)]
  PROVE  /\ layout' \in LayoutType
         /\ layout'[part] = Append(layout[part], r)
         /\ \A p \in Parts \ {part} : layout'[p] = layout[p]
  <1>1. layout[part] \in Seq(RegionType)
    <2>1. CASE part \in {"ram", "uart"}
      BY <2>1 DEF LayoutType
    <2>2. CASE part \in {"virtio", "hotplug"}
      BY <2>2 DEF LayoutType
    <2> QED BY <2>1, <2>2 DEF Parts
  <1>2. PICK q \in Seq(RegionType) : q = Append(layout[part], r)
    BY <1>1, Appended
  <1>3. layout' = [layout EXCEPT ![part] = q]
    BY <1>2
  <1>4. layout' \in LayoutType
    BY <1>3 DEF LayoutType, Parts
  <1>5. layout'[part] = q /\ \A p \in Parts \ {part} : layout'[p] = layout[p]
    BY <1>3 DEF LayoutType, Parts
  <1> QED BY <1>2, <1>4, <1>5

\* A region that is read into the last list goes to the end of all that was read.
LEMMA ReadGrows ==
  ASSUME layout \in LayoutType, NEW part \in Parts, NEW r \in RegionType, LastList(part),
         layout' = [layout EXCEPT ![part] = Append(@, r)]
  PROVE  AllRead' = Append(AllRead, r)
  <1> DEFINE S == Seq(RegionType)
  <1>1. /\ layout.ram \in S /\ layout.uart \in S /\ layout.virtio \in S /\ layout.hotplug \in S
    BY ReadTyped
  <1>2. \A a \in S : a \o <<>> = a
    BY EmptyEnds
  <1>3. \A a, b \in S : a \o b \in S
    BY EmptyEnds
  <1>9. \A a, b \in S : a \o Append(b, r) = Append(a \o b, r)
    BY AppendSecond
  <1>4. /\ layout'[part] = Append(layout[part], r)
        /\ \A p \in Parts \ {part} : layout'[p] = layout[p]
    BY AddLayout
  <1> HIDE DEF S
  <1>5. CASE part = "ram"
    <2>1. layout.uart = <<>> /\ layout.virtio = <<>> /\ layout.hotplug = <<>>
      BY <1>5 DEF LastList
    <2>2. /\ layout'.ram = Append(layout.ram, r)
          /\ layout'.uart = <<>> /\ layout'.virtio = <<>> /\ layout'.hotplug = <<>>
      BY <1>4, <1>5, <2>1 DEF Parts
    <2>3. Append(layout.ram, r) \in S
      BY <1>1 DEF S
    <2>4. AllRead = layout.ram
      BY <1>1, <1>2, <2>1 DEF AllRead
    <2>5. AllRead' = Append(layout.ram, r)
      BY <1>2, <2>2, <2>3 DEF AllRead
    <2> QED BY <2>4, <2>5
  <1>6. CASE part = "uart"
    <2>1. layout.virtio = <<>> /\ layout.hotplug = <<>>
      BY <1>6 DEF LastList
    <2>2. /\ layout'.uart = Append(layout.uart, r)
          /\ layout'.ram = layout.ram /\ layout'.virtio = <<>> /\ layout'.hotplug = <<>>
      BY <1>4, <1>6, <2>1 DEF Parts
    <2>3. Append(layout.ram \o layout.uart, r) \in S
      BY <1>1, <1>3 DEF S
    <2>4. AllRead = layout.ram \o layout.uart
      BY <1>1, <1>2, <1>3, <2>1 DEF AllRead
    <2>5. AllRead' = Append(layout.ram \o layout.uart, r)
      <3>1. layout'.ram \o layout'.uart = Append(layout.ram \o layout.uart, r)
        <4>1. layout.ram \o Append(layout.uart, r) = Append(layout.ram \o layout.uart, r)
          BY <1>1, <1>9, Zenon
        <4> QED BY <2>2, <4>1
      <3> QED BY <1>2, <2>2, <2>3, <3>1 DEF AllRead
    <2> QED BY <2>4, <2>5
  <1>7. CASE part = "virtio"
    <2>1. layout.hotplug = <<>>
      BY <1>7 DEF LastList
    <2>2. /\ layout'.virtio = Append(layout.virtio, r)
          /\ layout'.ram = layout.ram /\ layout'.uart = layout.uart /\ layout'.hotplug = <<>>
      BY <1>4, <1>7, <2>1 DEF Parts
    <2>3. /\ layout.ram \o layout.uart \in S
          /\ layout.ram \o layout.uart \o layout.virtio \in S
      BY <1>1, <1>3
    <2>4. AllRead = layout.ram \o layout.uart \o layout.virtio
      BY <1>2, <2>1, <2>3 DEF AllRead
    <2>5. AllRead' = Append(layout.ram \o layout.uart \o layout.virtio, r)
      <3>1. layout'.ram \o layout'.uart \o layout'.virtio
              = Append(layout.ram \o layout.uart \o layout.virtio, r)
        <4>1. layout.ram \o layout.uart \o Append(layout.virtio, r)
                = Append(layout.ram \o layout.uart \o layout.virtio, r)
          BY <1>1, <1>9, <2>3, Zenon
        <4> QED BY <2>2, <4>1
      <3>2. Append(layout.ram \o layout.uart \o layout.virtio, r) \in S
        BY <2>3 DEF S
      <3> QED BY <1>2, <2>2, <3>1, <3>2 DEF AllRead
    <2> QED BY <2>4, <2>5
  <1>8. CASE part = "hotplug"
    <2>1. /\ layout'.hotplug = Append(layout.hotplug, r)
          /\ layout'.ram = layout.ram /\ layout'.uart = layout.uart
          /\ layout'.virtio = layout.virtio
      BY <1>4, <1>8 DEF Parts
    <2>2. layout.ram \o layout.uart \o layout.virtio \in S
      BY <1>1, <1>3
    <2>3. layout.ram \o layout.uart \o layout.virtio \o Append(layout.hotplug, r)
            = Append(layout.ram \o layout.uart \o layout.virtio \o layout.hotplug, r)
      BY <1>1, <1>9, <2>2, Zenon
    <2> QED BY <2>1, <2>3 DEF AllRead
  <1> QED BY <1>5, <1>6, <1>7, <1>8 DEF Parts

\* add's checks are those of Inside and of the bytes of what was read.
LEMMA AddableIs ==
  ASSUME layout \in LayoutType, RangesKept, NEW r \in RegionType
  PROVE  Addable(r) <=>
           Inside(r) /\ \A i \in 1..Len(AllRead) : Cells(r) \cap Cells(AllRead[i]) = {}
  <1>1. r.size \in Nat /\ AllRead \in Seq(RegionType)
    BY ReadTyped DEF RegionType
  <1>2. Addable(r) <=> Inside(r) /\ \A s \in ranges : ~Overlaps(r, s)
    BY <1>1 DEF Addable, Inside, Fits
  <1>3. ASSUME Inside(r), NEW i \in 1..Len(AllRead)
        PROVE  Cells(r) \cap Cells(AllRead[i]) = {} <=> ~Overlaps(r, Kept(AllRead[i]))
    <2>1. AllRead[i] \in RegionType /\ AllRead[i].size > 0 /\ r.size > 0
      BY <1>1, <1>3, ElementOfSeq DEF RangesKept, Sound, Inside
    <2> QED BY <2>1, CellsMeet
  <1>4. (\A s \in ranges : ~Overlaps(r, s)) <=>
          \A i \in 1..Len(AllRead) : ~Overlaps(r, Kept(AllRead[i]))
    BY DEF RangesKept, KeptOf
  <1> QED BY <1>2, <1>3, <1>4

\* Acceptable's conditions on the bytes are those of Sound.
LEMMA SoundIs ==
  ASSUME NEW q \in Seq(RegionType)
  PROVE  Sound(q) <=>
           /\ Apart(q)
           /\ \A i \in DOMAIN q :
                LET r == q[i]
                IN r.size > 0 /\ End(r) <= (IF r.space = "Port" /\ PortTop < Top THEN PortTop ELSE Top)
  <1>1. DOMAIN q = 1..Len(q) /\ PortTop \in Nat /\ Top \in Nat
    BY Constants
  <1>2. ASSUME NEW i \in 1..Len(q)
        PROVE  Inside(q[i]) <=>
                 /\ q[i].size > 0
                 /\ End(q[i]) <= (IF q[i].space = "Port" /\ PortTop < Top THEN PortTop ELSE Top)
    <2>1. q[i] \in RegionType
      BY ElementOfSeq
    <2>2. End(q[i]) \in Nat
      BY <2>1 DEF RegionType, End
    <2> QED BY <1>1, <2>2 DEF Inside
  <1> QED BY <1>1, <1>2 DEF Sound, Apart

\* A region in its space, apart from sound ones, makes sound ones.
LEMMA SoundGrows ==
  ASSUME NEW q \in Seq(RegionType), NEW r \in RegionType, Sound(q)
  PROVE  Sound(Append(q, r)) <=>
           Inside(r) /\ \A i \in 1..Len(q) : Cells(r) \cap Cells(q[i]) = {}
  <1> DEFINE p == Append(q, r)
             n == Len(q) + 1
  <1>1. /\ Len(q) \in Nat /\ Len(p) = n /\ p[n] = r /\ \A i \in 1..Len(q) : p[i] = q[i]
    BY Appended
  <1>2. 1..n = 1..Len(q) \cup {n} /\ n \notin 1..Len(q)
    BY <1>1
  <1> HIDE DEF p, n
  <1>3. ASSUME Sound(p)
        PROVE  Inside(r) /\ \A i \in 1..Len(q) : Cells(r) \cap Cells(q[i]) = {}
    <2>1. n \in 1..Len(p) /\ \A i \in 1..Len(q) : i \in 1..Len(p) /\ i # n
      BY <1>1, <1>2
    <2>2. Inside(p[n]) /\ \A i \in 1..Len(q) : Cells(p[n]) \cap Cells(p[i]) = {}
      BY <1>3, <2>1 DEF Sound
    <2> QED BY <1>1, <2>2
  <1>4. ASSUME Inside(r), \A i \in 1..Len(q) : Cells(r) \cap Cells(q[i]) = {}
        PROVE  Sound(p)
    <2>1. \A i \in 1..Len(p) : Inside(p[i])
      BY <1>1, <1>2, <1>4 DEF Sound
    <2>2. ASSUME NEW i \in 1..Len(p), NEW j \in 1..Len(p), i # j
          PROVE  Cells(p[i]) \cap Cells(p[j]) = {}
      <3>1. CASE i \in 1..Len(q) /\ j \in 1..Len(q)
        <4>1. Cells(q[i]) \cap Cells(q[j]) = {}
          BY <2>2, <3>1 DEF Sound
        <4> QED BY <1>1, <3>1, <4>1
      <3>2. CASE i = n /\ j \in 1..Len(q)
        BY <1>1, <1>4, <3>2
      <3>3. CASE j = n /\ i \in 1..Len(q)
        <4>1. p[j] = r /\ p[i] = q[i] /\ Cells(r) \cap Cells(q[i]) = {}
          BY <1>1, <1>4, <3>3
        <4> QED BY <4>1
      <3> QED BY <1>1, <1>2, <2>2, <3>1, <3>2, <3>3
    <2> QED BY <2>1, <2>2 DEF Sound
  <1> QED BY <1>3, <1>4 DEF p

\* The ranges kept grow with what was read.
LEMMA KeptGrows ==
  ASSUME NEW q \in Seq(RegionType), NEW r \in RegionType, NEW set, KeptOf(q, set)
  PROVE  KeptOf(Append(q, r), set \cup {Kept(r)})
  <1> DEFINE p == Append(q, r)
             n == Len(q) + 1
  <1>1. /\ Len(q) \in Nat /\ Len(p) = n /\ p[n] = r /\ \A i \in 1..Len(q) : p[i] = q[i]
    BY Appended
  <1>2. 1..n = 1..Len(q) \cup {n}
    BY <1>1
  <1> HIDE DEF p, n
  <1>3. \A i \in 1..Len(p) : Kept(p[i]) \in set \cup {Kept(r)}
    BY <1>1, <1>2 DEF KeptOf
  <1>4. \A s \in set \cup {Kept(r)} : \E i \in 1..Len(p) : s = Kept(p[i])
    BY <1>1, <1>2 DEF KeptOf
  <1> QED BY <1>3, <1>4 DEF KeptOf, p

\* One more region, one more set of bytes.
LEMMA CellsGrow ==
  ASSUME NEW q \in Seq(RegionType), NEW r \in RegionType
  PROVE  CellsOf(Append(q, r)) = CellsOf(q) \cup Cells(r)
  <1> DEFINE p == Append(q, r)
             n == Len(q) + 1
  <1>1. /\ Len(q) \in Nat /\ Len(p) = n /\ p[n] = r /\ \A i \in 1..Len(q) : p[i] = q[i]
        /\ p \in Seq(RegionType)
    BY Appended
  <1>2. 1..n = 1..Len(q) \cup {n} /\ DOMAIN q = 1..Len(q) /\ DOMAIN p = 1..n
    BY <1>1
  <1> HIDE DEF p, n
  <1>3. ASSUME NEW c PROVE c \in CellsOf(p) <=> c \in CellsOf(q) \/ c \in Cells(r)
    <2>1. c \in CellsOf(p) <=> \E i \in 1..n : c \in Cells(p[i])
      BY <1>2 DEF CellsOf
    <2>2. c \in CellsOf(q) <=> \E i \in 1..Len(q) : c \in Cells(q[i])
      BY <1>2 DEF CellsOf
    <2> QED BY <1>1, <1>2, <2>1, <2>2
  <1> QED BY <1>3 DEF p

\* The bytes of sound regions of memory are not more than the word can count.
LEMMA CellsBounded ==
  ASSUME NEW q \in Seq(RegionType), Sound(q), \A i \in 1..Len(q) : q[i].space = "Mmio"
  PROVE  IsFiniteSet(CellsOf(q)) /\ Cardinality(CellsOf(q)) \in Nat /\ Cardinality(CellsOf(q)) <= Top
  <1> DEFINE I == 0..(Top - 1)
             W == {"Mmio"} \X I
  <1>1. Top \in Nat
    BY Constants
  <1>2. CellsOf(q) \subseteq W
    <2> SUFFICES ASSUME NEW c \in CellsOf(q) PROVE c \in W
      OBVIOUS
    <2>1. PICK i \in 1..Len(q) : c \in Cells(q[i])
      BY DEF CellsOf
    <2>2. /\ q[i] \in RegionType /\ q[i].space = "Mmio"
          /\ q[i].address + q[i].size <= Top
      BY ElementOfSeq DEF Sound, Inside, End
    <2>3. q[i].address \in Nat /\ q[i].size \in Nat
      BY <2>2 DEF RegionType
    <2>4. c \in {q[i].space} \X (q[i].address..(q[i].address + q[i].size - 1))
      BY <2>1 DEF Cells
    <2>5. q[i].address..(q[i].address + q[i].size - 1) \subseteq I
      BY <1>1, <2>2, <2>3
    <2> QED BY <2>2, <2>4, <2>5
  <1>3. IsFiniteSet(I) /\ Cardinality(I) = Top
    <2>1. /\ IsFiniteSet(I)
          /\ Cardinality(I) = IF 0 > Top - 1 THEN 0 ELSE (Top - 1) - 0 + 1
      BY <1>1, FS_Interval
    <2> QED BY <1>1, <2>1
  <1>4. IsFiniteSet({"Mmio"}) /\ Cardinality({"Mmio"}) = 1
    BY FS_Singleton
  <1>5. IsFiniteSet(W) /\ Cardinality(W) = Top
    <2>1. IsFiniteSet(W) /\ Cardinality(W) = 1 * Top
      <3> HIDE DEF I
      <3> QED BY <1>3, <1>4, FS_Product
    <2> QED BY <1>1, <2>1
  <1>6. IsFiniteSet(CellsOf(q)) /\ Cardinality(CellsOf(q)) <= Cardinality(W)
    <2> HIDE DEF W
    <2> QED BY <1>2, <1>5, FS_Subset
  <1>7. Cardinality(CellsOf(q)) \in Nat
    BY <1>6, FS_CardinalityType
  <1> QED BY <1>5, <1>6, <1>7

\* Disjoint bytes add up.
LEMMA CellsAdd ==
  ASSUME NEW q \in Seq(RegionType), NEW r \in RegionType, r.size > 0, IsFiniteSet(CellsOf(q)),
         \A i \in 1..Len(q) : Cells(r) \cap Cells(q[i]) = {}
  PROVE  /\ IsFiniteSet(CellsOf(Append(q, r)))
         /\ Cardinality(CellsOf(Append(q, r))) = Cardinality(CellsOf(q)) + r.size
  <1>1. IsFiniteSet(Cells(r)) /\ Cardinality(Cells(r)) = r.size /\ r.size \in Nat
    BY CellsCount DEF RegionType
  <1>2. CellsOf(q) \cap Cells(r) = {}
    BY DEF CellsOf
  <1>3. Cardinality(CellsOf(q) \cap Cells(r)) = 0
    BY <1>2, FS_EmptySet
  <1>4. Cardinality(CellsOf(q)) \in Nat
    BY FS_CardinalityType
  <1>5. /\ IsFiniteSet(CellsOf(q) \cup Cells(r))
        /\ Cardinality(CellsOf(q) \cup Cells(r))
             = Cardinality(CellsOf(q)) + Cardinality(Cells(r)) - Cardinality(CellsOf(q) \cap Cells(r))
    BY <1>1, FS_Union
  <1>6. CellsOf(Append(q, r)) = CellsOf(q) \cup Cells(r)
    BY CellsGrow
  <1> QED BY <1>1, <1>3, <1>4, <1>5, <1>6

\* What add does, to whatever list: a region it accepts is sound with the others,
\* and one it refuses is not, unless its caller's own check refused it.
LEMMA AddStep ==
  ASSUME layout \in LayoutType, RangesKept, NEW part \in Parts, LastList(part),
         NEW r \in RegionType, NEW checked, NEW sum, NEW next, Add(part, r, checked, sum, next)
  PROVE  /\ layout' \in LayoutType /\ layout'[part] = Append(layout[part], r)
         /\ \A p \in Parts \ {part} : layout'[p] = layout[p]
         /\ AllRead' = Append(AllRead, r)
         /\ Addable(r) <=> Sound(Append(AllRead, r))
         /\ checked /\ Addable(r) =>
              /\ Sound(AllRead') /\ KeptOf(AllRead', ranges')
              /\ ranges' = ranges \cup {Kept(r)} /\ total' = sum
              /\ pc' = next /\ error' = None
         /\ ~(checked /\ Addable(r)) =>
              ranges' = ranges /\ total' = total /\ pc' = "failed" /\ error' = "region"
  <1>1. layout' = [layout EXCEPT ![part] = Append(@, r)]
    BY DEF Add
  <1>2. /\ layout' \in LayoutType /\ layout'[part] = Append(layout[part], r)
        /\ \A p \in Parts \ {part} : layout'[p] = layout[p]
    BY <1>1, AddLayout
  <1>3. AllRead' = Append(AllRead, r)
    BY <1>1, ReadGrows
  <1>4. AllRead \in Seq(RegionType) /\ Sound(AllRead) /\ KeptOf(AllRead, ranges)
    BY ReadTyped DEF RangesKept
  <1>5. Addable(r) <=> Sound(Append(AllRead, r))
    BY <1>4, AddableIs, SoundGrows
  <1>6. ASSUME checked /\ Addable(r)
        PROVE  /\ Sound(AllRead') /\ KeptOf(AllRead', ranges')
               /\ ranges' = ranges \cup {Kept(r)} /\ total' = sum
               /\ pc' = next /\ error' = None
    <2>1. /\ ranges' = ranges \cup {Kept(r)} /\ total' = sum
          /\ pc' = next /\ error' = None
      BY <1>6 DEF Add, Verdict, Kept
    <2>2. KeptOf(Append(AllRead, r), ranges \cup {Kept(r)})
      BY <1>4, KeptGrows
    <2> QED BY <1>3, <1>5, <1>6, <2>1, <2>2
  <1>7. ASSUME ~(checked /\ Addable(r))
        PROVE  ranges' = ranges /\ total' = total /\ pc' = "failed" /\ error' = "region"
    BY <1>7 DEF Add, Verdict
  <1> QED BY <1>2, <1>3, <1>5, <1>6, <1>7

\* The lists of the layout, one by one.
LEMMA PartTyped ==
  ASSUME layout \in LayoutType, NEW part \in Parts
  PROVE  layout[part] \in Seq(RegionType) /\ DOMAIN layout = Parts
  <1>1. CASE part \in {"ram", "uart"}
    BY <1>1 DEF LayoutType, Parts
  <1>2. CASE part \in {"virtio", "hotplug"}
    BY <1>2 DEF LayoutType, Parts
  <1> QED BY <1>1, <1>2 DEF Parts

\* The type invariant, taken apart.
LEMMA TypeIs ==
  ASSUME layout \in LayoutType
  PROVE  LayoutTypeOK <=>
           /\ [config |-> config, needs |-> needs, host |-> host] \in Starts
           /\ pc \in Stages /\ total \in 0..Top
           /\ \A r \in ranges : r.address < r.end /\ r.end <= Top /\ r.space \in Spaces
           /\ plan # None => \A part \in Parts : Reads(part)
           /\ error = None <=> pc # "failed"
           /\ boot # None => host # None /\ pc \in {"ready", "ended"}
  <1>1. DOMAIN layout = Parts
    BY DEF LayoutType, Parts
  <1>2. ((error = None) = (pc # "failed")) <=> (error = None <=> pc # "failed")
    BY Zenon
  <1> QED BY <1>1, <1>2 DEF LayoutTypeOK, Reads, Spaces

\* The same of the next state.
LEMMA TypeIsNext ==
  ASSUME layout' \in LayoutType
  PROVE  LayoutTypeOK' <=>
           /\ [config |-> config', needs |-> needs', host |-> host'] \in Starts
           /\ pc' \in Stages /\ total' \in 0..Top
           /\ \A r \in ranges' : r.address < r.end /\ r.end <= Top /\ r.space \in Spaces
           /\ plan' # None => \A part \in Parts : Reads(part)'
           /\ error' = None <=> pc' # "failed"
           /\ boot' # None => host' # None /\ pc' \in {"ready", "ended"}
  <1>1. DOMAIN layout' = Parts
    BY DEF LayoutType, Parts
  <1>2. ((error' = None) = (pc' # "failed")) <=> (error' = None <=> pc' # "failed")
    BY Zenon
  <1> QED BY <1>1, <1>2 DEF LayoutTypeOK, Reads, Spaces

\* Reading the next region of a list.
LEMMA AddReads ==
  ASSUME layout \in LayoutType, layout' \in LayoutType, plan' = plan,
         NEW part \in Parts, NEW r \in RegionType,
         layout'[part] = Append(layout[part], r),
         \A p \in Parts \ {part} : layout'[p] = layout[p],
         \A p \in Parts : Reads(p),
         Len(plan[part]) \in Nat, Len(layout[part]) < Len(plan[part]),
         plan[part][Len(layout[part]) + 1] \in {Any, r}
  PROVE  \A p \in Parts : Reads(p)'
  <1> SUFFICES ASSUME NEW p \in Parts PROVE Reads(p)'
    OBVIOUS
  <1>1. CASE p # part
    BY <1>1 DEF Reads
  <1>2. CASE p = part
    <2> DEFINE q == layout[part]
               n == Len(q) + 1
    <2>1. q \in Seq(RegionType)
      BY PartTyped
    <2>2. /\ Len(q) \in Nat /\ Len(Append(q, r)) = n /\ Append(q, r)[n] = r
          /\ \A i \in 1..Len(q) : Append(q, r)[i] = q[i]
          /\ DOMAIN Append(q, r) = 1..n /\ DOMAIN q = 1..Len(q)
      BY <2>1, Appended
    <2>3. 1..n = 1..Len(q) \cup {n} /\ n <= Len(plan[part])
      BY <2>2
    <2>4. \A i \in 1..Len(q) : plan[part][i] \in {Any, q[i]}
      BY <2>2 DEF Reads
    <2>5. layout'[p] = Append(q, r) /\ plan'[p] = plan[part]
      BY <1>2
    <2> HIDE DEF q, n
    <2>6. Len(Append(q, r)) <= Len(plan[part])
      BY <2>2, <2>3
    <2>7. \A i \in 1..n : plan[part][i] \in {Any, Append(q, r)[i]}
      BY <2>2, <2>3, <2>4 DEF q, n
    <2> QED BY <2>2, <2>5, <2>6, <2>7 DEF Reads
  <1> QED BY <1>1, <1>2

\* Every step of validate that reads a region keeps the types.
LEMMA AddTyped ==
  ASSUME LayoutTypeOK, PlanOK, RangesKept, Planned, pc \notin {"ready", "ended"},
         NEW part \in Parts, LastList(part), NEW r \in RegionType, NEW checked, NEW sum,
         NEW next \in Stages \ {"failed", "layout"}, Add(part, r, checked, sum, next),
         checked /\ Addable(r) => sum \in 0..Top,
         Len(layout[part]) < Len(plan[part]),
         plan[part][Len(layout[part]) + 1] \in {Any, r}
  PROVE  LayoutTypeOK' /\ PlanOK' /\ Planned'
  <1>1. layout \in LayoutType /\ plan \in PlanType
    BY DEF PlanOK
  <1>2. /\ layout' \in LayoutType /\ layout'[part] = Append(layout[part], r)
        /\ \A p \in Parts \ {part} : layout'[p] = layout[p]
    BY <1>1, AddStep
  <1>3. /\ plan' = plan /\ boot' = boot
        /\ config' = config /\ needs' = needs /\ host' = host
    BY DEF Add, Verdict
  <1>4. /\ checked /\ Addable(r) =>
             ranges' = ranges \cup {Kept(r)} /\ total' = sum /\ pc' = next /\ error' = None
        /\ ~(checked /\ Addable(r)) =>
              ranges' = ranges /\ total' = total /\ pc' = "failed" /\ error' = "region"
    BY <1>1, AddStep
  <1>5. Len(plan[part]) \in Nat
    <2>1. CASE part \in {"ram", "uart"}
      BY <1>1, <2>1 DEF PlanType
    <2>2. CASE part \in {"virtio", "hotplug"}
      BY <1>1, <2>2 DEF PlanType
    <2> QED BY <2>1, <2>2 DEF Parts
  <1>6. \A p \in Parts : Reads(p)'
    <2>1. \A p \in Parts : Reads(p)
      BY DEF PlanOK
    <2> QED BY <1>1, <1>2, <1>3, <1>5, <2>1, AddReads
  <1>7. \A s \in ranges' : s.address < s.end /\ s.end <= Top /\ s.space \in Spaces
    <2>1. \A s \in ranges : s.address < s.end /\ s.end <= Top /\ s.space \in Spaces
      BY <1>1, TypeIs
    <2>2. ASSUME Addable(r)
          PROVE  Kept(r).address < Kept(r).end /\ Kept(r).end <= Top /\ Kept(r).space \in Spaces
      <3>1. r.address \in Nat /\ r.size \in Nat /\ r.space \in Spaces
        BY DEF RegionType
      <3>2. r.size # 0 /\ r.address + r.size <= Top
        BY <2>2 DEF Addable, Fits, End
      <3> QED BY <3>1, <3>2 DEF Kept, End
    <2> QED BY <1>4, <2>1, <2>2
  <1>8. None # "region" /\ None # "layout"
    BY NoneApart DEF Errors
  <1>9. pc' \in Stages /\ total' \in 0..Top /\ (error' = None <=> pc' # "failed")
    BY <1>1, <1>4, <1>8, TypeIs DEF Stages
  <1>10. boot' = None
    BY <1>1, <1>3, TypeIs
  <1>11. [config |-> config', needs |-> needs', host |-> host'] \in Starts
    BY <1>1, <1>3, TypeIs
  <1>12. LayoutTypeOK'
    BY <1>2, <1>3, <1>6, <1>7, <1>9, <1>10, <1>11, TypeIsNext
  <1>13. Planned'
    BY <1>4, <1>8 DEF Planned
  <1>14. PlanOK'
    BY <1>2, <1>3, <1>6, <1>13 DEF PlanOK
  <1> QED BY <1>12, <1>13, <1>14

(***************************************************************************)
(* validate and what follows it, on any platform.                          *)
(***************************************************************************)
ValidInv == LayoutTypeOK /\ PlanOK /\ Stage /\ Good /\ Refused

\* The region validate reads is a region, and the one the platform put there.
LEMMA ReadingIs ==
  ASSUME NEW e \in RegionType \cup {Any}, NEW x \in Reading(e)
  PROVE  x \in RegionType /\ e \in {Any, x}
  BY RegionsTyped DEF Reading

\* The same for a list whose regions have no space of their own.
LEMMA ReadingMemory ==
  ASSUME NEW e \in RegionType \cup {Any}, e = Any \/ e.space = "Mmio", NEW x \in Reading(e),
         NEW r, r = [x EXCEPT !.space = "Mmio"]
  PROVE  /\ r \in RegionType /\ e \in {Any, r}
         /\ r.space = "Mmio" /\ r.address = x.address /\ r.size = x.size
  <1>1. x \in RegionType /\ e \in {Any, x}
    BY ReadingIs
  <1>2. r \in RegionType /\ r.space = "Mmio" /\ r.address = x.address /\ r.size = x.size
    BY <1>1 DEF RegionType, Spaces
  <1>3. x.space = "Mmio" => r = x
    BY <1>1 DEF RegionType
  <1> QED BY <1>1, <1>2, <1>3

\* A layout that may be the machine's is sound in what was read.
LEMMA AcceptableNext ==
  ASSUME AllRead' \in Seq(RegionType), Acceptable'
  PROVE  Sound(AllRead')
  <1> DEFINE q == AllRead'
  <1>1. /\ Apart(q)
        /\ \A i \in DOMAIN q :
             LET r == q[i]
             IN r.size > 0 /\ End(r) <= (IF r.space = "Port" /\ PortTop < Top THEN PortTop ELSE Top)
    BY DEF Acceptable, Apart, Cells, End, Top
  <1>2. q \in Seq(RegionType)
    OBVIOUS
  <1> HIDE DEF q
  <1> QED BY <1>1, <1>2, SoundIs DEF q

\* A region that add refuses is a defect of the layout.
LEMMA AddRefuses ==
  ASSUME layout \in LayoutType, RangesKept, NEW part \in Parts, LastList(part),
         NEW r \in RegionType, NEW checked, NEW sum, NEW next, Add(part, r, checked, sum, next),
         ~Addable(r)
  PROVE  ~Acceptable'
  <1>1. AllRead' = Append(AllRead, r) /\ ~Sound(Append(AllRead, r))
    BY AddStep
  <1>2. Append(AllRead, r) \in Seq(RegionType)
    BY ReadTyped, Appended
  <1> QED BY <1>1, <1>2, AcceptableNext

\* RAM that add accepts never overflows the sum, which is the number of its bytes.
LEMMA RamAdds ==
  ASSUME layout \in LayoutType, RangesKept, RamCounted, LastList("ram"), total \in Nat,
         NEW r \in RegionType, r.space = "Mmio", Addable(r)
  PROVE  /\ total + r.size <= Top
         /\ IsFiniteSet(CellsOf(Append(layout.ram, r)))
         /\ Cardinality(CellsOf(Append(layout.ram, r))) = total + r.size
         /\ \A i \in 1..Len(Append(layout.ram, r)) : Append(layout.ram, r)[i].space = "Mmio"
  <1> DEFINE q == layout.ram
  <1>1. q \in Seq(RegionType) /\ AllRead \in Seq(RegionType)
    BY ReadTyped
  <1>2. AllRead = q
    <2>1. layout.uart = <<>> /\ layout.virtio = <<>> /\ layout.hotplug = <<>>
      BY DEF LastList
    <2>2. \A a \in Seq(RegionType) : a \o <<>> = a
      BY EmptyEnds
    <2> QED BY <1>1, <2>1, <2>2 DEF AllRead
  <1>3. /\ Sound(q) /\ IsFiniteSet(CellsOf(q)) /\ Cardinality(CellsOf(q)) = total
        /\ \A i \in 1..Len(q) : q[i].space = "Mmio"
    BY <1>2 DEF RangesKept, RamCounted
  <1>4. r.size > 0 /\ (\A i \in 1..Len(q) : Cells(r) \cap Cells(q[i]) = {}) /\ Inside(r)
    BY <1>2, AddableIs DEF Inside
  <1> HIDE DEF q
  <1>5. /\ IsFiniteSet(CellsOf(Append(q, r)))
        /\ Cardinality(CellsOf(Append(q, r))) = total + r.size
    BY <1>1, <1>3, <1>4, CellsAdd
  <1>6. Sound(Append(q, r))
    BY <1>1, <1>3, <1>4, SoundGrows
  <1>7. /\ Append(q, r) \in Seq(RegionType) /\ Len(q) \in Nat /\ Len(Append(q, r)) = Len(q) + 1
        /\ Append(q, r)[Len(q) + 1] = r /\ \A i \in 1..Len(q) : Append(q, r)[i] = q[i]
    BY <1>1, Appended
  <1>8. \A i \in 1..Len(Append(q, r)) : Append(q, r)[i].space = "Mmio"
    <2>1. 1..(Len(q) + 1) = 1..Len(q) \cup {Len(q) + 1}
      BY <1>7
    <2> QED BY <1>3, <1>7, <2>1
  <1>9. Cardinality(CellsOf(Append(q, r))) <= Top
    BY <1>6, <1>7, <1>8, CellsBounded
  <1> QED BY <1>5, <1>8, <1>9 DEF q

\* One more RAM region.
LEMMA AddRamStep ==
  ASSUME ValidInv, AddRam
  PROVE  ValidInv'
  <1> DEFINE k == Len(layout.ram) + 1
  <1>1. pc = "ram" /\ Len(layout.ram) < Len(plan.ram)
    BY DEF AddRam
  <1>2. /\ LayoutTypeOK /\ PlanOK /\ RangesKept /\ RamCounted /\ Fitting /\ CountsOK
        /\ layout.uart = <<>> /\ layout.virtio = <<>> /\ layout.hotplug = <<>>
    BY <1>1 DEF ValidInv, Good, Stage
  <1>3. layout \in LayoutType /\ total \in 0..Top /\ total \in Nat /\ error = None
    <2>1. layout \in LayoutType
      BY <1>2 DEF PlanOK
    <2> QED BY <1>1, <1>2, <2>1, TypeIs, Constants
  <1>4. Planned /\ plan \in PlanType
    BY <1>1, <1>2, <1>3, NoneApart DEF PlanOK, Planned, Errors
  <1>5. /\ layout.ram \in Seq(RegionType) /\ Len(layout.ram) \in Nat
        /\ plan.ram \in Seq(RegionType \cup {Any}) /\ Len(plan.ram) \in Nat
    BY <1>3, <1>4, ReadTyped DEF PlanType
  <1>6. k \in 1..Len(plan.ram)
    BY <1>1, <1>5
  <1>7. plan.ram[k] \in RegionType \cup {Any} /\ (plan.ram[k] = Any \/ plan.ram[k].space = "Mmio")
    BY <1>2, <1>4, <1>5, <1>6, ElementOfSeq DEF PlanOK
  <1>8. PICK x \in Reading(plan.ram[k]) :
          Add("ram", [x EXCEPT !.space = "Mmio"], Fits(total + x.size), total + x.size, "ram")
    BY DEF AddRam
  <1>9. PICK r : r = [x EXCEPT !.space = "Mmio"]
    OBVIOUS
  <1>10. /\ r \in RegionType /\ plan.ram[k] \in {Any, r}
         /\ r.space = "Mmio" /\ r.size = x.size
    BY <1>7, <1>8, <1>9, ReadingMemory
  <1>11. Add("ram", r, Fits(total + r.size), total + r.size, "ram")
    BY <1>8, <1>9, <1>10
  <1>12. LastList("ram") /\ "ram" \in Parts
    BY <1>2 DEF LastList, Parts
  <1>13. Addable(r) => Fits(total + r.size) /\ total + r.size \in 0..Top
    BY <1>2, <1>3, <1>10, <1>12, RamAdds, Constants DEF Fits, RegionType
  <1>14. LayoutTypeOK' /\ PlanOK' /\ Planned'
    <2>1. "ram" \in Stages \ {"failed", "layout"} /\ pc \notin {"ready", "ended"}
      BY <1>1 DEF Stages
    <2>2. Len(layout["ram"]) < Len(plan["ram"]) /\ plan["ram"][Len(layout["ram"]) + 1] \in {Any, r}
      BY <1>1, <1>10
    <2> HIDE DEF k
    <2> QED BY <1>2, <1>4, <1>10, <1>11, <1>12, <1>13, <2>1, <2>2, AddTyped
  <1>15. /\ layout'.ram = Append(layout.ram, r)
         /\ layout'.uart = <<>> /\ layout'.virtio = <<>> /\ layout'.hotplug = <<>>
    <2>1. /\ layout'["ram"] = Append(layout["ram"], r)
          /\ \A p \in Parts \ {"ram"} : layout'[p] = layout[p]
      BY <1>2, <1>3, <1>10, <1>11, <1>12, AddStep
    <2> QED BY <1>2, <2>1 DEF Parts
  <1>16. plan' = plan /\ config' = config /\ needs' = needs
    BY <1>11 DEF Add, Verdict
  <1>17. CountsOK'
    BY <1>2, <1>16 DEF CountsOK
  <1>18. CASE Addable(r)
    <2>1. /\ Sound(AllRead') /\ KeptOf(AllRead', ranges') /\ total' = total + r.size
          /\ pc' = "ram" /\ error' = None
      BY <1>2, <1>3, <1>10, <1>11, <1>12, <1>13, <1>18, AddStep
    <2>2. RangesKept'
      BY <2>1 DEF RangesKept, Sound, KeptOf, Inside, Cells, End, Kept, Top
    <2>3. RamCounted'
      <3>1. /\ IsFiniteSet(CellsOf(Append(layout.ram, r)))
            /\ Cardinality(CellsOf(Append(layout.ram, r))) = total + r.size
            /\ \A i \in 1..Len(Append(layout.ram, r)) : Append(layout.ram, r)[i].space = "Mmio"
        BY <1>2, <1>3, <1>10, <1>12, <1>18, RamAdds
      <3> QED BY <1>15, <2>1, <3>1 DEF RamCounted, CellsOf, Cells
    <2>4. Fitting'
      BY <1>15 DEF Fitting
    <2>5. Stage'
      BY <1>15, <1>17, <2>1 DEF Stage, Accepted
    <2>6. Good' /\ Refused'
      BY <2>1, <2>2, <2>3, <2>4, NoneApart DEF Good, Refused, Errors
    <2> QED BY <1>14, <2>5, <2>6 DEF ValidInv
  <1>19. CASE ~Addable(r)
    <2>1. pc' = "failed" /\ error' = "region"
      BY <1>2, <1>3, <1>10, <1>11, <1>12, <1>19, AddStep
    <2>2. ~Acceptable'
      BY <1>2, <1>3, <1>10, <1>11, <1>12, <1>19, AddRefuses
    <2>3. Stage' /\ Good' /\ Refused'
      BY <2>1, <2>2 DEF Stage, Good, Refused, Accepted
    <2> QED BY <1>14, <2>3 DEF ValidInv
  <1> QED BY <1>18, <1>19

\* What holds while validate runs and after it.
LEMMA Running ==
  ASSUME ValidInv, pc \notin {"layout", "failed"}
  PROVE  /\ LayoutTypeOK /\ PlanOK /\ RangesKept /\ RamCounted /\ Fitting
         /\ layout \in LayoutType /\ total \in 0..Top /\ total \in Nat /\ error = None
         /\ Planned /\ plan \in PlanType
         /\ Len(plan.uart) = 1 /\ Len(plan.hotplug) <= 1
         /\ pc \notin {"ready", "ended"} => boot = None
  <1>1. LayoutTypeOK /\ PlanOK /\ RangesKept /\ RamCounted /\ Fitting
    BY DEF ValidInv, Good
  <1>2. layout \in LayoutType
    BY <1>1 DEF PlanOK
  <1>3. /\ total \in 0..Top /\ total \in Nat /\ error = None
        /\ pc \notin {"ready", "ended"} => boot = None
    BY <1>1, <1>2, TypeIs, Constants
  <1>4. Planned
    BY <1>3, NoneApart DEF Planned, Errors
  <1> QED BY <1>1, <1>2, <1>3, <1>4 DEF PlanOK

\* What a step that only checks leaves alone.
LEMMA CheckStep ==
  ASSUME ValidInv, pc \notin {"layout", "failed", "ready", "ended"},
         NEW ok, NEW next \in Stages \ {"failed", "layout"}, NEW e,
         ~ok => e \in Errors \ {"layout"}, Check(ok, next, e)
  PROVE  /\ LayoutTypeOK' /\ PlanOK' /\ Planned' /\ RangesKept' /\ RamCounted' /\ Fitting'
         /\ CountsOK => CountsOK'
         /\ RamDone => RamDone'
         /\ Acceptable' => Acceptable
         /\ ok => pc' = next /\ error' = None
         /\ ~ok => pc' = "failed" /\ error' = e
  <1>1. /\ LayoutTypeOK /\ PlanOK /\ RangesKept /\ RamCounted /\ Fitting
        /\ layout \in LayoutType /\ total \in 0..Top /\ Planned /\ boot = None
    BY Running
  <1>2. /\ plan' = plan /\ layout' = layout /\ ranges' = ranges /\ total' = total /\ boot' = boot
        /\ config' = config /\ needs' = needs /\ host' = host
        /\ ok => pc' = next /\ error' = None
        /\ ~ok => pc' = "failed" /\ error' = e
    BY DEF Check, Verdict
  <1>3. Planned'
    BY <1>2, NoneApart DEF Planned, Errors
  <1>4. PlanOK'
    BY <1>1, <1>2, <1>3 DEF PlanOK, Reads
  <1>5. /\ [config |-> config', needs |-> needs', host |-> host'] \in Starts
        /\ total' \in 0..Top
        /\ \A r \in ranges' : r.address < r.end /\ r.end <= Top /\ r.space \in Spaces
        /\ plan' # None => \A part \in Parts : Reads(part)'
    BY <1>1, <1>2, TypeIs DEF Reads
  <1>6. pc' \in Stages /\ (error' = None <=> pc' # "failed") /\ boot' = None
    BY <1>1, <1>2, NoneApart DEF Stages
  <1>7. LayoutTypeOK'
    BY <1>1, <1>2, <1>5, <1>6, TypeIsNext
  <1>8. RangesKept' /\ RamCounted' /\ Fitting'
    <2>1. AllRead' = AllRead
      BY <1>2 DEF AllRead
    <2>2. RangesKept'
      BY <1>1, <1>2, <2>1 DEF RangesKept
    <2>3. RamCounted'
      BY <1>1, <1>2 DEF RamCounted
    <2>4. Fitting'
      BY <1>1, <1>2 DEF Fitting
    <2> QED BY <2>2, <2>3, <2>4
  <1>9. /\ CountsOK => CountsOK'
        /\ RamDone => RamDone'
    BY <1>2 DEF CountsOK, RamDone
  <1>10. Acceptable' => Acceptable
    BY <1>2 DEF Acceptable, Shape, AllRead
  <1> QED BY <1>2, <1>3, <1>4, <1>7, <1>8, <1>9, <1>10

\* The counts.
LEMMA CheckCountsStep ==
  ASSUME ValidInv, CheckCounts
  PROVE  ValidInv'
  <1> DEFINE ok == /\ config.vcpus # 0 /\ plan.ram # <<>>
                   /\ Len(plan.virtio) = needs.devices /\ plan.uart[1].size >= UartMin
  <1>1. pc = "counts" /\ Check(ok, "ram", "counts")
    BY DEF CheckCounts
  <1>2. layout = NoLayout
    BY <1>1 DEF ValidInv, Stage
  <1>3. "ram" \in Stages \ {"failed", "layout"} /\ "counts" \in Errors \ {"layout"}
    BY DEF Stages, Errors
  <1>4. config.vcpus \in Nat
    BY Inputs DEF ValidInv
  <1>5. ok => CountsOK
    BY <1>4 DEF CountsOK
  <1>6. ~ok => ~Acceptable
    BY <1>4 DEF Acceptable, Shape
  <1> HIDE DEF ok
  <1>7. /\ LayoutTypeOK' /\ PlanOK' /\ RangesKept' /\ RamCounted' /\ Fitting'
        /\ CountsOK => CountsOK'
        /\ Acceptable' => Acceptable
        /\ ok => pc' = "ram" /\ error' = None
        /\ ~ok => pc' = "failed" /\ error' = "counts"
    BY <1>1, <1>3, CheckStep
  <1>8. layout' = layout
    BY <1>1 DEF Check
  <1>9. Stage'
    BY <1>2, <1>5, <1>7, <1>8 DEF Stage, Accepted, NoLayout
  <1>10. Good' /\ Refused'
    BY <1>6, <1>7, NoneApart DEF Good, Refused, Errors
  <1> QED BY <1>7, <1>9, <1>10 DEF ValidInv

\* The RAM's capacity.
LEMMA CheckTotalStep ==
  ASSUME ValidInv, CheckTotal
  PROVE  ValidInv'
  <1> DEFINE ok == Fits(config.mib * MIB) /\ total = config.mib * MIB
  <1>1. pc = "ram" /\ Len(layout.ram) = Len(plan.ram) /\ Check(ok, "uart", "capacity")
    BY DEF CheckTotal
  <1>2. /\ CountsOK
        /\ layout.uart = <<>> /\ layout.virtio = <<>> /\ layout.hotplug = <<>>
    BY <1>1 DEF ValidInv, Stage
  <1>3. "uart" \in Stages \ {"failed", "layout"} /\ "capacity" \in Errors \ {"layout"}
    BY DEF Stages, Errors
  <1>4. total \in Nat /\ total <= Top /\ RamCounted /\ layout \in LayoutType
    BY <1>1, Running, Constants
  <1>5. ok => RamDone
    BY <1>1 DEF RamDone
  <1>6. ~ok => ~Acceptable
    <2>1. total <= Top
      BY <1>4
    <2>2. ok <=> total = config.mib * MIB
      BY <2>1 DEF Fits
    <2>3. Acceptable => Cardinality(CellsOf(layout.ram)) = config.mib * MIB
      BY <1>1 DEF Acceptable, CellsOf
    <2>4. Cardinality(CellsOf(layout.ram)) = total
      BY <1>4 DEF RamCounted
    <2> HIDE DEF ok
    <2> QED BY <2>2, <2>3, <2>4
  <1> HIDE DEF ok
  <1>7. /\ LayoutTypeOK' /\ PlanOK' /\ RangesKept' /\ RamCounted' /\ Fitting' /\ CountsOK'
        /\ RamDone => RamDone'
        /\ Acceptable' => Acceptable
        /\ ok => pc' = "uart" /\ error' = None
        /\ ~ok => pc' = "failed" /\ error' = "capacity"
    BY <1>1, <1>2, <1>3, CheckStep
  <1>8. layout' = layout
    BY <1>1 DEF Check
  <1>9. Stage'
    BY <1>2, <1>5, <1>7, <1>8 DEF Stage, Accepted
  <1>10. Good' /\ Refused'
    BY <1>6, <1>7, NoneApart DEF Good, Refused, Errors
  <1> QED BY <1>7, <1>9, <1>10 DEF ValidInv

\* What a region leaves of the earlier results when it is not RAM.
LEMMA AddAfterRam ==
  ASSUME ValidInv, pc \in {"uart", "virtio"}, NEW part \in {"uart", "virtio", "hotplug"},
         LastList(part), NEW r \in RegionType, NEW checked,
         NEW next \in Stages \ {"failed", "layout"}, Add(part, r, checked, total, next),
         Len(layout[part]) < Len(plan[part]),
         plan[part][Len(layout[part]) + 1] \in {Any, r}
  PROVE  /\ LayoutTypeOK' /\ PlanOK' /\ CountsOK' /\ RamDone'
         /\ layout'[part] = Append(layout[part], r)
         /\ \A p \in Parts \ {part} : layout'[p] = layout[p]
         /\ plan' = plan /\ needs' = needs
         /\ checked /\ Addable(r) => RangesKept' /\ RamCounted' /\ pc' = next /\ error' = None
         /\ ~(checked /\ Addable(r)) => pc' = "failed" /\ error' = "region"
         /\ ~Addable(r) => ~Acceptable'
  <1>1. part \in Parts /\ "ram" \in Parts \ {part}
    BY DEF Parts
  <1>2. /\ LayoutTypeOK /\ PlanOK /\ RangesKept /\ RamCounted
        /\ layout \in LayoutType /\ total \in 0..Top /\ Planned
    BY Running
  <1>3. /\ layout'[part] = Append(layout[part], r)
        /\ \A p \in Parts \ {part} : layout'[p] = layout[p]
        /\ checked /\ Addable(r) =>
             /\ Sound(AllRead') /\ KeptOf(AllRead', ranges') /\ total' = total
             /\ pc' = next /\ error' = None
        /\ ~(checked /\ Addable(r)) => total' = total /\ pc' = "failed" /\ error' = "region"
    BY <1>1, <1>2, AddStep
  <1>4. LayoutTypeOK' /\ PlanOK'
    BY <1>1, <1>2, AddTyped
  <1>5. ~Addable(r) => ~Acceptable'
    BY <1>1, <1>2, AddRefuses
  <1>6. plan' = plan /\ needs' = needs /\ config' = config
    BY DEF Add, Verdict
  <1>7. layout'.ram = layout.ram /\ total' = total
    BY <1>1, <1>3
  <1>8. CountsOK' /\ RamDone'
    <2>1. CountsOK /\ RamDone
      BY DEF ValidInv, Stage
    <2> QED BY <1>6, <1>7, <2>1 DEF CountsOK, RamDone
  <1>9. RamCounted'
    BY <1>2, <1>7 DEF RamCounted
  <1>10. checked /\ Addable(r) => RangesKept'
    BY <1>3 DEF RangesKept
  <1> QED BY <1>3, <1>4, <1>5, <1>6, <1>8, <1>9, <1>10

\* The UART.
LEMMA AddUartStep ==
  ASSUME ValidInv, AddUart
  PROVE  ValidInv'
  <1> DEFINE r == plan.uart[1]
  <1>1. pc = "uart" /\ Add("uart", r, TRUE, total, "virtio")
    BY DEF AddUart
  <1>2. layout.uart = <<>> /\ layout.virtio = <<>> /\ layout.hotplug = <<>>
    BY <1>1 DEF ValidInv, Stage
  <1>3. plan \in PlanType /\ Len(plan.uart) = 1 /\ layout \in LayoutType
    BY <1>1, Running
  <1>4. r \in RegionType
    BY <1>3 DEF PlanType
  <1>5. LastList("uart") /\ "virtio" \in Stages \ {"failed", "layout"}
    BY <1>2 DEF LastList, Stages
  <1>6. /\ Len(layout["uart"]) < Len(plan["uart"])
        /\ plan["uart"][Len(layout["uart"]) + 1] \in {Any, r}
    BY <1>2, <1>3
  <1> HIDE DEF r
  <1>7. /\ LayoutTypeOK' /\ PlanOK' /\ CountsOK' /\ RamDone'
        /\ layout'["uart"] = Append(layout["uart"], r)
        /\ \A p \in Parts \ {"uart"} : layout'[p] = layout[p]
        /\ plan' = plan
        /\ Addable(r) => RangesKept' /\ RamCounted' /\ pc' = "virtio" /\ error' = None
        /\ ~Addable(r) => pc' = "failed" /\ error' = "region" /\ ~Acceptable'
    BY <1>1, <1>4, <1>5, <1>6, AddAfterRam
  <1>8. layout'.uart = <<r>> /\ layout'.virtio = <<>> /\ layout'.hotplug = <<>>
    BY <1>2, <1>7 DEF Parts
  <1>9. Fitting'
    BY <1>8 DEF Fitting
  <1>10. Stage'
    BY <1>7, <1>8 DEF Stage, Accepted, r
  <1>11. Good' /\ Refused'
    BY <1>7, <1>9, NoneApart DEF Good, Refused, Errors
  <1> QED BY <1>7, <1>10, <1>11 DEF ValidInv

\* One more device window.
LEMMA AddVirtioStep ==
  ASSUME ValidInv, AddVirtio
  PROVE  ValidInv'
  <1> DEFINE k == Len(layout.virtio) + 1
  <1>1. pc = "virtio" /\ Len(layout.virtio) < Len(plan.virtio)
    BY DEF AddVirtio
  <1>2. layout.uart = <<plan.uart[1]>> /\ layout.hotplug = <<>>
    BY <1>1 DEF ValidInv, Stage
  <1>3. plan \in PlanType /\ layout \in LayoutType /\ Fitting
    BY <1>1, Running
  <1>4. /\ layout.virtio \in Seq(RegionType) /\ Len(layout.virtio) \in Nat
        /\ plan.virtio \in Seq(RegionType \cup {Any}) /\ Len(plan.virtio) \in Nat
    BY <1>3, ReadTyped DEF PlanType
  <1>5. k \in 1..Len(plan.virtio)
    BY <1>1, <1>4
  <1>6. plan.virtio[k] \in RegionType \cup {Any}
    BY <1>4, <1>5, ElementOfSeq
  <1>7. PICK r \in Reading(plan.virtio[k]) :
          Add("virtio", r, r.space = "Mmio" /\ r.size >= VirtioMin, total, "virtio")
    BY DEF AddVirtio
  <1>8. r \in RegionType /\ plan.virtio[k] \in {Any, r}
    BY <1>6, <1>7, ReadingIs
  <1>9. LastList("virtio") /\ "virtio" \in Stages \ {"failed", "layout"}
    BY <1>2 DEF LastList, Stages
  <1>10. /\ Len(layout["virtio"]) < Len(plan["virtio"])
         /\ plan["virtio"][Len(layout["virtio"]) + 1] \in {Any, r}
    BY <1>1, <1>8
  <1> DEFINE ok == r.space = "Mmio" /\ r.size >= VirtioMin
  <1>11. Add("virtio", r, ok, total, "virtio")
    BY <1>7
  <1> HIDE DEF k, ok
  <1>12. /\ LayoutTypeOK' /\ PlanOK' /\ CountsOK' /\ RamDone'
         /\ layout'["virtio"] = Append(layout["virtio"], r)
         /\ \A p \in Parts \ {"virtio"} : layout'[p] = layout[p]
         /\ plan' = plan
         /\ ok /\ Addable(r) => RangesKept' /\ RamCounted' /\ pc' = "virtio" /\ error' = None
         /\ ~(ok /\ Addable(r)) => pc' = "failed" /\ error' = "region"
         /\ ~Addable(r) => ~Acceptable'
    BY <1>1, <1>8, <1>9, <1>10, <1>11, AddAfterRam
  <1>13. /\ layout'.virtio = Append(layout.virtio, r) /\ layout'.uart = <<plan'.uart[1]>>
         /\ layout'.hotplug = <<>>
    BY <1>2, <1>12 DEF Parts
  <1>14. /\ Len(Append(layout.virtio, r)) = Len(layout.virtio) + 1
         /\ Append(layout.virtio, r)[Len(layout.virtio) + 1] = r
         /\ \A i \in 1..Len(layout.virtio) : Append(layout.virtio, r)[i] = layout.virtio[i]
         /\ DOMAIN Append(layout.virtio, r) = 1..(Len(layout.virtio) + 1)
         /\ 1..(Len(layout.virtio) + 1) = 1..Len(layout.virtio) \cup {Len(layout.virtio) + 1}
    BY <1>4, <1>8, Appended
  <1>15. ok => Fitting'
    BY <1>3, <1>13, <1>14 DEF Fitting, ok
  <1>16. ~ok => ~Acceptable'
    <2>1. Acceptable' => \A i \in DOMAIN layout'.virtio :
                            layout'.virtio[i].space = "Mmio" /\ layout'.virtio[i].size >= VirtioMin
      BY DEF Acceptable
    <2> QED BY <1>13, <1>14, <2>1 DEF ok
  <1>17. Stage'
    BY <1>12, <1>13 DEF Stage, Accepted
  <1>18. Good' /\ Refused'
    BY <1>12, <1>15, <1>16, NoneApart DEF Good, Refused, Errors
  <1> QED BY <1>12, <1>17, <1>18 DEF ValidInv

\* The hotplug range, or its absence.
LEMMA AddHotplugStep ==
  ASSUME ValidInv, AddHotplug
  PROVE  ValidInv'
  <1>1. pc = "virtio" /\ Len(layout.virtio) = Len(plan.virtio)
    BY DEF AddHotplug
  <1>2. layout.uart = <<plan.uart[1]>> /\ layout.hotplug = <<>> /\ CountsOK /\ RamDone
    BY <1>1 DEF ValidInv, Stage
  <1>3. /\ plan \in PlanType /\ layout \in LayoutType /\ Fitting /\ PlanOK /\ Planned
        /\ Len(plan.hotplug) <= 1
    BY <1>1, Running
  <1>4. plan.hotplug \in Seq(RegionType \cup {Any}) /\ Len(plan.hotplug) \in Nat
    BY <1>3 DEF PlanType
  <1>5. "attach" \in Stages \ {"failed", "layout"} /\ "hotplug" \in Errors \ {"layout"}
    BY DEF Stages, Errors
  <1>6. CASE plan.hotplug # <<>> /\ needs.hotplug # None
    <2>1. Len(plan.hotplug) = 1
      <3>1. Len(plan.hotplug) # 0
        BY <1>4, <1>6, EmptySeq
      <3>2. Len(plan.hotplug) <= 1 /\ Len(plan.hotplug) \in Nat
        BY <1>3, <1>4
      <3>3. \A n \in Nat : n # 0 /\ n <= 1 => n = 1
        OBVIOUS
      <3> QED BY <3>1, <3>2, <3>3, Zenon
    <2>2. /\ plan.hotplug[1] \in RegionType \cup {Any}
          /\ plan.hotplug[1] = Any \/ plan.hotplug[1].space = "Mmio"
      BY <1>3, <1>4, <2>1, ElementOfSeq DEF PlanOK
    <2>3. PICK x \in Reading(plan.hotplug[1]) :
            Add("hotplug", [x EXCEPT !.space = "Mmio"],
                /\ x.size = needs.hotplug.capacity
                /\ x.address % needs.hotplug.alignment = 0, total, "attach")
      BY <1>6 DEF AddHotplug
    <2>4. PICK r : r = [x EXCEPT !.space = "Mmio"]
      OBVIOUS
    <2>5. /\ r \in RegionType /\ plan.hotplug[1] \in {Any, r}
          /\ r.address = x.address /\ r.size = x.size
      BY <2>2, <2>3, <2>4, ReadingMemory
    <2> DEFINE ok == /\ r.size = needs.hotplug.capacity
                     /\ r.address % needs.hotplug.alignment = 0
    <2>6. Add("hotplug", r, ok, total, "attach")
      BY <2>3, <2>4, <2>5
    <2>7. LastList("hotplug")
      BY DEF LastList
    <2>8. /\ Len(layout["hotplug"]) < Len(plan["hotplug"])
          /\ plan["hotplug"][Len(layout["hotplug"]) + 1] \in {Any, r}
      BY <1>2, <2>1, <2>5
    <2> HIDE DEF ok
    <2>9. /\ LayoutTypeOK' /\ PlanOK' /\ CountsOK' /\ RamDone'
          /\ layout'["hotplug"] = Append(layout["hotplug"], r)
          /\ \A p \in Parts \ {"hotplug"} : layout'[p] = layout[p]
          /\ plan' = plan /\ needs' = needs
          /\ ok /\ Addable(r) => RangesKept' /\ RamCounted' /\ pc' = "attach" /\ error' = None
          /\ ~(ok /\ Addable(r)) => pc' = "failed" /\ error' = "region"
          /\ ~Addable(r) => ~Acceptable'
      BY <1>1, <1>5, <2>5, <2>6, <2>7, <2>8, AddAfterRam
    <2>10. /\ layout'.hotplug = <<r>> /\ layout'.uart = <<plan'.uart[1]>>
           /\ layout'.virtio = layout.virtio
      BY <1>2, <2>9 DEF Parts
    <2>11. Len(<<r>>) = 1 /\ <<r>>[1] = r /\ DOMAIN <<r>> = {1} /\ 1..1 = {1}
      OBVIOUS
    <2>12. ok => Fitting'
      BY <1>3, <2>9, <2>10, <2>11 DEF Fitting, ok
    <2>13. ~ok => ~Acceptable'
      <3>1. Acceptable' => \A i \in DOMAIN layout'.hotplug :
              /\ layout'.hotplug[i].size = needs'.hotplug.capacity
              /\ layout'.hotplug[i].address % needs'.hotplug.alignment = 0
        BY DEF Acceptable
      <3> QED BY <2>9, <2>10, <2>11, <3>1 DEF ok
    <2>14. (plan.hotplug = <<>>) = (needs.hotplug = None)
      BY <1>6, Zenon
    <2>15. Stage'
      BY <1>1, <2>1, <2>9, <2>10, <2>11, <2>14 DEF Stage, Accepted
    <2>16. Good' /\ Refused'
      BY <2>9, <2>12, <2>13, NoneApart DEF Good, Refused, Errors
    <2> QED BY <2>9, <2>15, <2>16 DEF ValidInv
  <1>7. CASE ~(plan.hotplug # <<>> /\ needs.hotplug # None)
    <2> DEFINE ok == plan.hotplug = <<>> /\ needs.hotplug = None
    <2>1. Check(ok, "attach", "hotplug")
      BY <1>7 DEF AddHotplug
    <2>2. (plan.hotplug = <<>>) = (needs.hotplug = None) <=> ok
      BY <1>7, Zenon
    <2>3. ~ok => ~Acceptable
      BY <2>2 DEF Acceptable, Shape
    <2>4. ok => Len(plan.hotplug) = 0
      OBVIOUS
    <2> HIDE DEF ok
    <2>5. /\ LayoutTypeOK' /\ PlanOK' /\ RangesKept' /\ RamCounted' /\ Fitting' /\ CountsOK' /\ RamDone'
          /\ Acceptable' => Acceptable
          /\ ok => pc' = "attach" /\ error' = None
          /\ ~ok => pc' = "failed" /\ error' = "hotplug"
      BY <1>1, <1>2, <1>5, <2>1, CheckStep
    <2>6. layout' = layout /\ plan' = plan /\ needs' = needs
      BY <2>1 DEF Check, Verdict
    <2>7. Stage'
      BY <1>1, <1>2, <2>2, <2>4, <2>5, <2>6 DEF Stage, Accepted
    <2>8. Good' /\ Refused'
      BY <2>3, <2>5, NoneApart DEF Good, Refused, Errors
    <2> QED BY <2>5, <2>7, <2>8 DEF ValidInv
  <1> QED BY <1>6, <1>7

\* A check behind validate: nothing of the layout changes any more.
LEMMA AcceptedCheck ==
  ASSUME ValidInv, pc \in {"attach", "map", "prepare"}, NEW ok, NEW next \in Accepted, NEW e,
         ~ok => e \in {"device", "map", "boot", "host"}, Check(ok, next, e)
  PROVE  ValidInv'
  <1>1. next \in Stages \ {"failed", "layout"} /\ (~ok => e \in Errors \ {"layout"})
    BY DEF Stages, Errors, Accepted
  <1>2. CountsOK /\ RamDone /\ layout.uart = <<plan.uart[1]>>
    BY DEF ValidInv, Stage, Accepted
  <1>3. /\ Len(layout.virtio) = Len(plan.virtio) /\ Len(layout.hotplug) = Len(plan.hotplug)
        /\ (plan.hotplug = <<>>) = (needs.hotplug = None)
    BY DEF ValidInv, Stage, Accepted
  <1>4. /\ LayoutTypeOK' /\ PlanOK' /\ RangesKept' /\ RamCounted' /\ Fitting' /\ CountsOK' /\ RamDone'
        /\ ok => pc' = next /\ error' = None
        /\ ~ok => pc' = "failed" /\ error' = e
    BY <1>1, <1>2, CheckStep
  <1>5. layout' = layout /\ plan' = plan /\ needs' = needs
    BY DEF Check, Verdict
  <1>6. Stage'
    BY <1>2, <1>3, <1>4, <1>5 DEF Stage, Accepted
  <1>7. Good' /\ Refused'
    BY <1>4, NoneApart DEF Good, Refused, Errors
  <1> QED BY <1>4, <1>6, <1>7 DEF ValidInv

\* attach_at finds its range where the layout says.
LEMMA AttachesAlways ==
  ASSUME ValidInv, pc = "attach"
  PROVE  AttachFits
  <1> SUFFICES ASSUME needs.hotplug # None PROVE AttachFits
    BY DEF AttachFits
  <1>1. /\ Len(layout.hotplug) = Len(plan.hotplug)
        /\ (plan.hotplug = <<>>) = (needs.hotplug = None)
    BY DEF ValidInv, Stage, Accepted
  <1>2. plan \in PlanType /\ layout \in LayoutType /\ Fitting /\ RangesKept
    BY Running
  <1>3. plan.hotplug # <<>>
    BY <1>1, Zenon
  <1>4. Len(plan.hotplug) \in Nat /\ Len(plan.hotplug) # 0
    BY <1>2, <1>3 DEF PlanType
  <1>5. /\ layout.hotplug \in Seq(RegionType) /\ AllRead \in Seq(RegionType)
        /\ layout.ram \o layout.uart \o layout.virtio \in Seq(RegionType)
    <2>1. /\ layout.ram \in Seq(RegionType) /\ layout.uart \in Seq(RegionType)
          /\ layout.virtio \in Seq(RegionType)
      BY <1>2, ReadTyped
    <2>2. \A a, b \in Seq(RegionType) : a \o b \in Seq(RegionType)
      BY EmptyEnds
    <2> QED BY <1>2, <2>1, <2>2, ReadTyped
  <1>6. 1 \in 1..Len(layout.hotplug) /\ layout.hotplug # <<>>
    BY <1>1, <1>4
  <1> DEFINE before == layout.ram \o layout.uart \o layout.virtio
             r == layout.hotplug[1]
  <1>7. /\ r.size = needs.hotplug.capacity /\ r.address % needs.hotplug.alignment = 0
    BY <1>2, <1>6 DEF Fitting
  <1>8. Inside(r)
    <2>1. AllRead = before \o layout.hotplug
      BY DEF AllRead
    <2> HIDE DEF before
    <2>2. Len(before) + 1 \in 1..Len(AllRead) /\ AllRead[Len(before) + 1] = r
      <3>1. before \in Seq(RegionType)
        BY <1>5 DEF before
      <3> QED BY <1>5, <1>6, <2>1, <3>1, PlaceInSecond
    <2> QED BY <1>2, <2>2 DEF RangesKept, Sound
  <1> QED BY <1>6, <1>7, <1>8 DEF AttachFits, Inside, End, Fits

\* Runtime::new behind validate.
LEMMA AttachStep ==
  ASSUME ValidInv, Attach \/ DeviceFails \/ MapBase \/ HostFails \/ PrepareCustom
  PROVE  ValidInv'
  <1>1. CASE Attach
    <2>1. AttachFits /\ pc = "attach"
      BY <1>1, AttachesAlways DEF Attach
    <2>2. Check(AttachFits, "map", "attach") /\ "map" \in Accepted
      BY <1>1 DEF Attach, Accepted
    <2> QED BY <2>1, <2>2, AcceptedCheck
  <1>2. CASE DeviceFails
    <2>1. pc = "attach" /\ Check(FALSE, "map", "device") /\ "map" \in Accepted
      BY <1>2 DEF DeviceFails, Accepted
    <2> QED BY <2>1, AcceptedCheck
  <1>3. CASE MapBase
    <2> DEFINE ok == host = None \/ \A i \in DOMAIN layout.ram : MapFits(layout.ram[i])
    <2>1. pc = "map" /\ Check(ok, "prepare", "map") /\ "prepare" \in Accepted
      BY <1>3 DEF MapBase, Accepted
    <2> HIDE DEF ok
    <2> QED BY <2>1, AcceptedCheck
  <1>4. CASE HostFails
    <2>1. pc = "map" /\ Check(FALSE, "prepare", "host") /\ "prepare" \in Accepted
      BY <1>4 DEF HostFails, Accepted
    <2> QED BY <2>1, AcceptedCheck
  <1>5. CASE PrepareCustom
    <2>1. pc = "prepare" /\ Check(TRUE, "ready", None) /\ "ready" \in Accepted
      BY <1>5 DEF PrepareCustom, Accepted
    <2> QED BY <2>1, AcceptedCheck
  <1> QED BY <1>1, <1>2, <1>3, <1>4, <1>5

(***************************************************************************)
(* Multiples.                                                              *)
(***************************************************************************)
\* What is divisible is a multiple, and the other way round.
LEMMA MultipleIs ==
  ASSUME NEW m \in Nat \ {0}
  PROVE  /\ \A a \in Nat : a % m = 0 => \E q \in Nat : a = q * m
         /\ \A q \in Nat : (q * m) % m = 0
  <1>1. \A a \in Nat, d \in Nat \ {0} : a % d = 0 => \E q \in Nat : a = q * d
    OBVIOUS
  <1>2. \A q \in Nat, d \in Nat \ {0} : (q * d) % d = 0
    OBVIOUS
  <1> QED BY <1>1, <1>2

\* A sum of multiples is one.
LEMMA MultiplesAdd ==
  ASSUME NEW m \in Nat \ {0}, NEW a \in Nat, NEW b \in Nat, a % m = 0, b % m = 0
  PROVE  (a + b) % m = 0
  <1>1. PICK p \in Nat : a = p * m
    BY MultipleIs
  <1>2. PICK q \in Nat : b = q * m
    BY MultipleIs
  <1>3. a + b = (p + q) * m /\ p + q \in Nat
    BY <1>1, <1>2
  <1>4. ((p + q) * m) % m = 0
    BY <1>3, MultipleIs
  <1> QED BY <1>3, <1>4

\* So is a product with a multiple.
LEMMA MultiplesScale ==
  ASSUME NEW m \in Nat \ {0}, NEW a \in Nat, NEW k \in Nat, a % m = 0
  PROVE  (k * a) % m = 0
  <1>1. PICK p \in Nat : a = p * m
    BY MultipleIs
  <1>2. k * a = (k * p) * m /\ k * p \in Nat
    BY <1>1
  <1>3. ((k * p) * m) % m = 0
    BY <1>2, MultipleIs
  <1> QED BY <1>2, <1>3

\* checked_next_multiple_of.
LEMMA NextMultipleIs ==
  ASSUME NEW n \in Nat, NEW m \in Nat \ {0}
  PROVE  /\ NextMultiple(n, m) \in Nat /\ n <= NextMultiple(n, m)
         /\ NextMultiple(n, m) % m = 0
  <1>1. n + m - 1 \in Nat
    OBVIOUS
  <1>2. (n + m - 1) \div m \in Nat
    BY <1>1
  <1>3. ((n + m - 1) \div m) * m >= n
    OBVIOUS
  <1>4. (((n + m - 1) \div m) * m) % m = 0
    BY <1>2, MultipleIs
  <1> QED BY <1>2, <1>3, <1>4 DEF NextMultiple

(***************************************************************************)
(* The layouts platforms return.                                           *)
(***************************************************************************)
\* The built-in layout has the type of a layout.
LEMMA HvfPlanTyped ==
  ASSUME config \in Configs, needs \in Needs
  PROVE  /\ HvfPlan \in PlanType
         /\ HvfPlan.ram = <<HvfRam>> /\ HvfPlan.hotplug = HvfHotplug
         /\ HvfPlan.uart = <<Region("Mmio", UART, UART_SIZE, UART_IRQ)>>
         /\ HvfPlan.virtio = VirtioRegions(needs.devices)
         /\ HvfRam \in RegionType /\ HvfRam.space = "Mmio"
         /\ HvfHotplug \in Seq(RegionType) /\ Len(HvfHotplug) <= 1
         /\ \A i \in 1..Len(HvfHotplug) : HvfHotplug[i].space = "Mmio"
         /\ VirtioRegions(needs.devices) \in Seq(RegionType)
         /\ Len(VirtioRegions(needs.devices)) = needs.devices
         /\ Region("Mmio", UART, UART_SIZE, UART_IRQ) \in RegionType
  <1>1. /\ config.mib \in Nat /\ needs.devices \in Nat
        /\ needs.hotplug # None =>
             needs.hotplug.capacity \in Nat /\ needs.hotplug.alignment \in Nat \ {0}
    BY DEF Configs, Needs
  <1>2. \A a, z, q \in Nat : Region("Mmio", a, z, q) \in RegionType
    BY DEF Region, RegionType, Spaces
  <1>3. config.mib * MIB \in Nat /\ RAM + config.mib * MIB \in Nat
    BY <1>1, Constants
  <1>4. HvfRam \in RegionType /\ HvfRam.space = "Mmio"
    <2>1. HvfRam \in RegionType
      BY <1>2, <1>3, Constants DEF HvfRam
    <2> QED BY <2>1 DEF HvfRam, Region
  <1>5. Region("Mmio", UART, UART_SIZE, UART_IRQ) \in RegionType
    BY <1>2, Constants
  <1>6. /\ HvfHotplug \in Seq(RegionType) /\ Len(HvfHotplug) <= 1
        /\ \A i \in 1..Len(HvfHotplug) : HvfHotplug[i].space = "Mmio"
    <2>1. CASE needs.hotplug = None
      <3>1. HvfHotplug = <<>>
        BY <2>1 DEF HvfHotplug
      <3>2. <<>> \in Seq(RegionType) /\ Len(<<>>) = 0
        OBVIOUS
      <3> QED BY <3>1, <3>2
    <2>2. CASE needs.hotplug # None
      <3> DEFINE a == NextMultiple(RAM + config.mib * MIB, needs.hotplug.alignment)
                 r == Region("Mmio", a, needs.hotplug.capacity, 0)
      <3>1. a \in Nat
        BY <1>1, <1>3, <2>2, NextMultipleIs
      <3>2. HvfHotplug = <<r>>
        BY <2>2 DEF HvfHotplug
      <3>3. r \in RegionType /\ r.space = "Mmio"
        <4>1. r.space = "Mmio"
          BY DEF Region
        <4> HIDE DEF a
        <4> QED BY <1>1, <1>2, <2>2, <3>1, <4>1
      <3> HIDE DEF r
      <3>4. <<r>> \in Seq(RegionType) /\ Len(<<r>>) = 1 /\ 1..1 = {1} /\ <<r>>[1] = r
        BY <3>3
      <3> QED BY <3>2, <3>3, <3>4
    <2> QED BY <2>1, <2>2
  <1>7. /\ VirtioRegions(needs.devices) \in Seq(RegionType)
        /\ Len(VirtioRegions(needs.devices)) = needs.devices
    <2>1. ASSUME NEW i \in 1..needs.devices
          PROVE  Region("Mmio", VIRTIO_BASE + (i - 1) * VIRTIO_STRIDE,
                        VIRTIO_STRIDE, VIRTIO_IRQ_BASE + (i - 1)) \in RegionType
      <3>1. i - 1 \in Nat
        BY <1>1
      <3>2. (i - 1) * VIRTIO_STRIDE \in Nat
        BY <3>1, Constants
      <3>3. /\ VIRTIO_BASE + (i - 1) * VIRTIO_STRIDE \in Nat
            /\ VIRTIO_IRQ_BASE + (i - 1) \in Nat
        BY <3>1, <3>2, Constants
      <3> QED BY <1>2, <3>3, Constants
    <2>2. VirtioRegions(needs.devices) \in [1..needs.devices -> RegionType]
      BY <2>1 DEF VirtioRegions
    <2> QED BY <1>1, <2>2
  <1>8. /\ HvfPlan.ram = <<HvfRam>> /\ HvfPlan.hotplug = HvfHotplug
        /\ HvfPlan.uart = <<Region("Mmio", UART, UART_SIZE, UART_IRQ)>>
        /\ HvfPlan.virtio = VirtioRegions(needs.devices)
    BY DEF HvfPlan
  <1>9. HvfPlan \in PlanType
    <2>1. \A q \in Seq(RegionType) : q \in Seq(RegionType \cup {Any})
      OBVIOUS
    <2>2. /\ <<HvfRam>> \in Seq(RegionType \cup {Any})
          /\ <<Region("Mmio", UART, UART_SIZE, UART_IRQ)>> \in Seq(RegionType)
          /\ HvfHotplug \in Seq(RegionType \cup {Any})
          /\ VirtioRegions(needs.devices) \in Seq(RegionType \cup {Any})
      BY <1>4, <1>5, <1>6, <1>7, <2>1
    <2> QED BY <2>2 DEF HvfPlan, PlanType
  <1> QED BY <1>4, <1>5, <1>6, <1>7, <1>8, <1>9

\* Before validate there is nothing to keep but the inputs.
LEMMA PlatformStep ==
  ASSUME ValidInv, pc = "layout",
         config' = config /\ needs' = needs /\ host' = host,
         layout' = layout /\ ranges' = ranges /\ total' = total /\ boot' = boot,
         \/ pc' = "failed" /\ error' = "layout" /\ plan' = None
         \/ /\ pc' = "counts" /\ error' = None
            /\ plan' \in PlanType /\ Len(plan'.uart) = 1 /\ Len(plan'.hotplug) <= 1
            /\ \A i \in 1..Len(plan'.ram) : plan'.ram[i] = Any \/ plan'.ram[i].space = "Mmio"
            /\ \A i \in 1..Len(plan'.hotplug) :
                 plan'.hotplug[i] = Any \/ plan'.hotplug[i].space = "Mmio"
  PROVE  ValidInv'
  <1>1. /\ LayoutTypeOK /\ PlanOK /\ RangesKept /\ RamCounted /\ Fitting
        /\ layout = NoLayout /\ ranges = {} /\ total = 0
    BY DEF ValidInv, Good, Stage
  <1>2. layout \in LayoutType
    BY <1>1 DEF PlanOK
  <1>3. ASSUME pc' = "counts", NEW part \in Parts PROVE Reads(part)'
    <2>1. layout'[part] = <<>>
      BY <1>1 DEF NoLayout, Parts
    <2>2. plan' \in PlanType
      BY <1>3
    <2>3. Len(plan'[part]) \in Nat
      <3>1. CASE part \in {"ram", "uart"}
        BY <2>2, <3>1 DEF PlanType
      <3>2. CASE part \in {"virtio", "hotplug"}
        BY <2>2, <3>2 DEF PlanType
      <3> QED BY <3>1, <3>2 DEF Parts
    <2> QED BY <2>1, <2>3 DEF Reads
  <1>4. PlanOK'
    <2>1. CASE pc' = "failed"
      <3>1. ~Planned' /\ plan' = None
        BY <2>1 DEF Planned
      <3> QED BY <1>2, <3>1 DEF PlanOK
    <2>2. CASE pc' = "counts"
      <3>1. Planned'
        BY <2>2, NoneApart DEF Planned, Errors
      <3> QED BY <1>2, <1>3, <2>2, <3>1 DEF PlanOK
    <2> QED BY <2>1, <2>2
  <1>5. /\ [config |-> config', needs |-> needs', host |-> host'] \in Starts
        /\ total' \in 0..Top
        /\ \A r \in ranges' : r.address < r.end /\ r.end <= Top /\ r.space \in Spaces
        /\ boot' = None
    BY <1>1, <1>2, TypeIs
  <1>6. pc' \in Stages /\ (error' = None <=> pc' # "failed")
    BY NoneApart DEF Stages, Errors
  <1>7. LayoutTypeOK'
    BY <1>2, <1>3, <1>5, <1>6, TypeIsNext
  <1>8. RangesKept' /\ RamCounted' /\ Fitting'
    <2>1. AllRead' = AllRead
      BY DEF AllRead
    <2>2. RangesKept'
      BY <1>1, <2>1 DEF RangesKept
    <2>3. RamCounted'
      BY <1>1 DEF RamCounted
    <2>4. Fitting'
      BY <1>1 DEF Fitting
    <2> QED BY <2>2, <2>3, <2>4
  <1>9. Stage'
    BY <1>1 DEF Stage, Accepted
  <1>10. Good' /\ Refused'
    BY <1>8, NoneApart DEF Good, Refused, Errors
  <1> QED BY <1>4, <1>7, <1>9, <1>10 DEF ValidInv

\* The built-in layout.
LEMMA HvfLayoutStep ==
  ASSUME ValidInv, HvfLayout
  PROVE  ValidInv'
  <1>1. config \in Configs /\ needs \in Needs
    BY Inputs DEF ValidInv
  <1>2. /\ pc = "layout" /\ config' = config /\ needs' = needs /\ host' = host
        /\ layout' = layout /\ ranges' = ranges /\ total' = total /\ boot' = boot
        /\ ~HvfFits => pc' = "failed" /\ error' = "layout" /\ plan' = None
        /\ HvfFits => pc' = "counts" /\ error' = None /\ plan' = HvfPlan
    BY DEF HvfLayout, Verdict, HvfPlan
  <1>3. /\ HvfPlan \in PlanType /\ Len(HvfPlan.uart) = 1 /\ Len(HvfPlan.hotplug) <= 1
        /\ \A i \in 1..Len(HvfPlan.ram) : HvfPlan.ram[i] = Any \/ HvfPlan.ram[i].space = "Mmio"
        /\ \A i \in 1..Len(HvfPlan.hotplug) :
             HvfPlan.hotplug[i] = Any \/ HvfPlan.hotplug[i].space = "Mmio"
    <2>1. /\ HvfPlan \in PlanType /\ HvfPlan.ram = <<HvfRam>> /\ HvfPlan.hotplug = HvfHotplug
          /\ HvfPlan.uart = <<Region("Mmio", UART, UART_SIZE, UART_IRQ)>>
      BY <1>1, HvfPlanTyped
    <2>2. /\ HvfRam.space = "Mmio" /\ Len(HvfHotplug) <= 1
          /\ \A i \in 1..Len(HvfHotplug) : HvfHotplug[i].space = "Mmio"
      BY <1>1, HvfPlanTyped
    <2>3. \A x : Len(<<x>>) = 1 /\ <<x>>[1] = x /\ 1..1 = {1}
      OBVIOUS
    <2> QED BY <2>1, <2>2, <2>3
  <1>4. CASE HvfFits
    <2>1. pc' = "counts" /\ error' = None /\ plan' = HvfPlan
      BY <1>2, <1>4
    <2>2. /\ plan' \in PlanType /\ Len(plan'.uart) = 1 /\ Len(plan'.hotplug) <= 1
          /\ \A i \in 1..Len(plan'.ram) : plan'.ram[i] = Any \/ plan'.ram[i].space = "Mmio"
          /\ \A i \in 1..Len(plan'.hotplug) :
               plan'.hotplug[i] = Any \/ plan'.hotplug[i].space = "Mmio"
      BY <1>3, <2>1
    <2> QED BY <1>2, <2>1, <2>2, PlatformStep
  <1>5. CASE ~HvfFits
    <2>1. pc' = "failed" /\ error' = "layout" /\ plan' = None
      BY <1>2, <1>5
    <2> QED BY <1>2, <2>1, PlatformStep
  <1> QED BY <1>4, <1>5

\* The layout of another platform.
LEMMA CustomLayoutStep ==
  ASSUME ValidInv, CustomLayout
  PROVE  ValidInv'
  <1>1. needs.devices \in Nat
    BY Inputs DEF ValidInv
  <1>2. /\ pc = "layout" /\ config' = config /\ needs' = needs /\ host' = host
        /\ layout' = layout /\ ranges' = ranges /\ total' = total /\ boot' = boot
        /\ pc' = "counts" /\ error' = None
    BY DEF CustomLayout, Verdict
  <1>3. PICK r \in RamRegions, u \in Regions, n \in 0..needs.devices, h \in {0, 1} :
          plan' = [ram |-> Unread(r), uart |-> <<u>>, virtio |-> Unread(n), hotplug |-> Unread(h)]
    BY DEF CustomLayout
  <1>4. r \in Nat /\ u \in RegionType /\ n \in Nat /\ h \in Nat
    <2>1. r \in Nat
      BY InputAssumption
    <2> QED BY <1>1, <2>1, RegionsTyped
  <1>5. ASSUME NEW k \in Nat
        PROVE  /\ Unread(k) \in Seq(RegionType \cup {Any}) /\ Len(Unread(k)) = k
               /\ \A i \in 1..k : Unread(k)[i] = Any
    BY DEF Unread
  <1>6. /\ plan'.ram = Unread(r) /\ plan'.uart = <<u>> /\ plan'.hotplug = Unread(h)
    BY <1>3
  <1>7. plan' \in PlanType
    <2>1. /\ Unread(r) \in Seq(RegionType \cup {Any}) /\ Unread(n) \in Seq(RegionType \cup {Any})
          /\ Unread(h) \in Seq(RegionType \cup {Any}) /\ <<u>> \in Seq(RegionType)
      BY <1>4, <1>5
    <2> QED BY <1>3, <2>1 DEF PlanType
  <1>8. /\ Len(plan'.uart) = 1 /\ Len(plan'.hotplug) <= 1
        /\ \A i \in 1..Len(plan'.ram) : plan'.ram[i] = Any
        /\ \A i \in 1..Len(plan'.hotplug) : plan'.hotplug[i] = Any
    <2>1. Len(Unread(r)) = r /\ Len(Unread(h)) = h
      BY <1>4, <1>5
    <2>2. (\A i \in 1..r : Unread(r)[i] = Any) /\ \A i \in 1..h : Unread(h)[i] = Any
      BY <1>4, <1>5
    <2>3. Len(<<u>>) = 1 /\ h <= 1
      OBVIOUS
    <2> QED BY <1>6, <2>1, <2>2, <2>3
  <1> QED BY <1>2, <1>7, <1>8, PlatformStep

\* What a step behind validate leaves alone.
LEMMA AfterwardsStep ==
  ASSUME ValidInv, pc \in Accepted, UNCHANGED <<config, needs, host, plan, layout, ranges, total>>,
         \/ pc' \in Accepted /\ error' = None
         \/ pc' = "failed" /\ error' \in {"boot", "host"},
         boot' # None => host # None /\ pc' \in {"ready", "ended"}
  PROVE  ValidInv'
  <1>1. /\ LayoutTypeOK /\ PlanOK /\ RangesKept /\ RamCounted /\ Fitting
        /\ layout \in LayoutType /\ total \in 0..Top /\ Planned
    BY Running DEF Accepted
  <1>2. /\ CountsOK /\ RamDone /\ layout.uart = <<plan.uart[1]>>
        /\ Len(layout.virtio) = Len(plan.virtio) /\ Len(layout.hotplug) = Len(plan.hotplug)
        /\ (plan.hotplug = <<>>) = (needs.hotplug = None)
    BY DEF ValidInv, Stage, Accepted
  <1>3. Planned'
    BY NoneApart DEF Planned, Errors, Accepted
  <1>4. PlanOK'
    BY <1>1, <1>3 DEF PlanOK, Reads
  <1>5. /\ [config |-> config', needs |-> needs', host |-> host'] \in Starts
        /\ total' \in 0..Top
        /\ \A r \in ranges' : r.address < r.end /\ r.end <= Top /\ r.space \in Spaces
        /\ plan' # None => \A part \in Parts : Reads(part)'
    BY <1>1, TypeIs DEF Reads
  <1>6. pc' \in Stages /\ (error' = None <=> pc' # "failed")
    BY NoneApart DEF Stages, Errors, Accepted
  <1>7. LayoutTypeOK'
    BY <1>1, <1>5, <1>6, TypeIsNext
  <1>8. RangesKept' /\ RamCounted' /\ Fitting'
    <2>1. AllRead' = AllRead
      BY DEF AllRead
    <2>2. RangesKept'
      BY <1>1, <2>1 DEF RangesKept
    <2>3. RamCounted'
      BY <1>1 DEF RamCounted
    <2>4. Fitting'
      BY <1>1 DEF Fitting
    <2> QED BY <2>2, <2>3, <2>4
  <1>9. CountsOK' /\ RamDone'
    BY <1>2 DEF CountsOK, RamDone
  <1>10. Stage'
    BY <1>2, <1>9 DEF Stage, Accepted
  <1>11. Good' /\ Refused'
    BY <1>8, NoneApart DEF Good, Refused, Errors
  <1> QED BY <1>4, <1>7, <1>10, <1>11 DEF ValidInv

\* prepare, and the guest's accesses.
LEMMA GuestStep ==
  ASSUME ValidInv, Prepare \/ (\E a \in Accesses : handle_io(a)) \/ IoFails \/ CompleteIo
  PROVE  ValidInv'
  <1>1. CASE Prepare
    <2>1. PICK redist \in RedistSizes, spis \in SpiRanges, dtb \in DtbSizes :
            LET ok == BootFits(config.mib, host.kernel) /\ PrepareFits(redist, spis, dtb)
            IN /\ Verdict(ok, "ready",
                          IF BootFits(config.mib, host.kernel) THEN "host" ELSE "boot")
               /\ boot' = IF ok THEN [redist |-> redist, spis |-> spis, dtbLen |-> dtb,
                                     entry |-> KernelEntry(host.kernel),
                                     initrd |-> Initrd(config.mib, host.kernel),
                                     dtb |-> Dtb(config.mib)]
                          ELSE None
               /\ UNCHANGED <<plan, layout, ranges, total>>
      BY <1>1 DEF Prepare
    <2>2. pc = "prepare" /\ host # None /\ pc \in Accepted
      BY <1>1 DEF Prepare, Accepted
    <2>3. UNCHANGED <<config, needs, host, plan, layout, ranges, total>>
      BY <2>1 DEF Verdict
    <2>4. CASE BootFits(config.mib, host.kernel) /\ PrepareFits(redist, spis, dtb)
      <3>1. pc' = "ready" /\ error' = None /\ "ready" \in Accepted
        BY <2>1, <2>4 DEF Verdict, Accepted
      <3> QED BY <2>2, <2>3, <3>1, AfterwardsStep
    <2>5. CASE ~(BootFits(config.mib, host.kernel) /\ PrepareFits(redist, spis, dtb))
      <3>1. pc' = "failed" /\ error' \in {"boot", "host"} /\ boot' = None
        BY <2>1, <2>5 DEF Verdict
      <3> QED BY <2>2, <2>3, <3>1, AfterwardsStep
    <2> QED BY <2>4, <2>5
  <1>2. ASSUME NEW a \in Accesses, handle_io(a)
        PROVE  ValidInv'
    <2>1. /\ pc = "ready" /\ pc' \in {"ready", "ended"} /\ boot' = boot /\ error' = error
          /\ UNCHANGED <<config, needs, host, plan, layout, ranges, total>>
      BY <1>2 DEF handle_io
    <2>2. error = None /\ layout \in LayoutType /\ LayoutTypeOK
      BY <2>1, Running
    <2>3. boot # None => host # None
      BY <2>2, TypeIs
    <2>4. pc \in Accepted /\ pc' \in Accepted
      BY <2>1 DEF Accepted
    <2> QED BY <2>1, <2>2, <2>3, <2>4, AfterwardsStep
  <1>3. CASE IoFails \/ CompleteIo
    <2>1. /\ pc = "ready" /\ pc' \in {"ready", "ended"} /\ boot' = boot /\ error' = error
          /\ UNCHANGED <<config, needs, host, plan, layout, ranges, total>>
      BY <1>3 DEF IoFails, CompleteIo
    <2>2. error = None /\ layout \in LayoutType /\ LayoutTypeOK
      BY <2>1, Running
    <2>3. boot # None => host # None
      BY <2>2, TypeIs
    <2>4. pc \in Accepted /\ pc' \in Accepted
      BY <2>1 DEF Accepted
    <2> QED BY <2>1, <2>2, <2>3, <2>4, AfterwardsStep
  <1> QED BY <1>1, <1>2, <1>3

\* Nothing has been read when the run starts.
LEMMA ValidInit ==
  ASSUME Init
  PROVE  ValidInv
  <1>1. /\ layout = NoLayout /\ plan = None /\ ranges = {} /\ total = 0 /\ pc = "layout"
        /\ error = None /\ boot = None
    BY DEF Init
  <1>2. layout.ram = <<>> /\ layout.uart = <<>> /\ layout.virtio = <<>> /\ layout.hotplug = <<>>
    BY <1>1 DEF NoLayout
  <1>3. layout \in LayoutType
    BY <1>1 DEF NoLayout, LayoutType
  <1>4. PlanOK
    BY <1>1, <1>3 DEF PlanOK, Planned
  <1>5. [config |-> config, needs |-> needs, host |-> host] \in Starts
    <2>1. PICK s \in Starts : config = s.config /\ needs = s.needs /\ host = s.host
      BY DEF Init
    <2>2. s \in [config : Configs, needs : Needs, host : Hosts]
      BY InputAssumption
    <2>3. s = [config |-> config, needs |-> needs, host |-> host]
      BY <2>1, <2>2
    <2> QED BY <2>3
  <1>6. LayoutTypeOK
    BY <1>1, <1>3, <1>5, TypeIs, Constants DEF Stages
  <1>7. Stage
    BY <1>1 DEF Stage, Accepted
  <1>8. AllRead = <<>>
    BY <1>2 DEF AllRead
  <1>9. RangesKept
    BY <1>1, <1>8 DEF RangesKept, Sound, KeptOf
  <1>10. RamCounted
    <2>1. CellsOf(layout.ram) = {}
      BY <1>2 DEF CellsOf
    <2>2. IsFiniteSet({}) /\ Cardinality({}) = 0
      BY FS_EmptySet
    <2>3. \A i \in 1..Len(layout.ram) : layout.ram[i].space = "Mmio"
      BY <1>2
    <2>4. IsFiniteSet(CellsOf(layout.ram)) /\ Cardinality(CellsOf(layout.ram)) = total
      BY <1>1, <2>1, <2>2, Zenon
    <2> QED BY <2>3, <2>4 DEF RamCounted
  <1>11. Fitting
    BY <1>2 DEF Fitting
  <1>12. Good /\ Refused
    BY <1>1, <1>9, <1>10, <1>11, NoneApart DEF Good, Refused, Errors
  <1> QED BY <1>4, <1>6, <1>7, <1>12 DEF ValidInv

\* Every step keeps it.
LEMMA ValidNext ==
  ASSUME ValidInv, [Next]_vars
  PROVE  ValidInv'
  <1>1. CASE UNCHANGED vars
    <2>1. /\ config' = config /\ needs' = needs /\ host' = host /\ plan' = plan
          /\ layout' = layout /\ ranges' = ranges /\ total' = total /\ pc' = pc
          /\ error' = error /\ boot' = boot /\ io' = io
      BY <1>1 DEF vars
    <2>2. LayoutTypeOK' /\ PlanOK'
      BY <2>1 DEF ValidInv, LayoutTypeOK, PlanOK, Planned, Reads
    <2>3. Stage' /\ Refused'
      BY <2>1 DEF ValidInv, Stage, Refused, CountsOK, RamDone, Acceptable, Shape, AllRead
    <2>4. Good'
      BY <2>1 DEF ValidInv, Good, RangesKept, RamCounted, Fitting, AllRead
    <2> QED BY <2>2, <2>3, <2>4 DEF ValidInv
  <1>2. CASE Next
    BY <1>2, HvfLayoutStep, CustomLayoutStep, CheckCountsStep, AddRamStep, CheckTotalStep,
       AddUartStep, AddVirtioStep, AddHotplugStep, AttachStep, GuestStep DEF Next
  <1> QED BY <1>1, <1>2

\* The steps of a start up to handle_io, on any platform: what validate keeps while it
\* reads is what the lists it has read so far say.
THEOREM LayoutInvariant == Spec => []ValidInv
  <1>1. Init => ValidInv
    BY ValidInit
  <1>2. ValidInv /\ [Next]_vars => ValidInv'
    BY ValidNext
  <1> QED BY <1>1, <1>2, PTL DEF Spec

\* An accepted layout has no defect and was read to its end.
LEMMA AcceptedIsRight ==
  ASSUME ValidInv, pc \in Accepted
  PROVE  Acceptable /\ \A part \in DOMAIN layout : Len(layout[part]) = Len(plan[part])
  <1>1. RangesKept /\ RamCounted /\ Fitting /\ layout \in LayoutType
    BY Running DEF Accepted
  <1>2. /\ CountsOK /\ RamDone /\ layout.uart = <<plan.uart[1]>>
        /\ Len(layout.virtio) = Len(plan.virtio) /\ Len(layout.hotplug) = Len(plan.hotplug)
        /\ (plan.hotplug = <<>>) = (needs.hotplug = None)
    BY DEF ValidInv, Stage, Accepted
  <1>3. Shape
    BY <1>2 DEF Shape, CountsOK
  <1>4. /\ AllRead \in Seq(RegionType)
        /\ DOMAIN layout.virtio = 1..Len(layout.virtio)
        /\ DOMAIN layout.hotplug = 1..Len(layout.hotplug)
    BY <1>1, ReadTyped
  <1>5. /\ Apart(AllRead)
        /\ \A i \in DOMAIN AllRead :
             LET r == AllRead[i]
             IN r.size > 0 /\ End(r) <= (IF r.space = "Port" /\ PortTop < Top THEN PortTop ELSE Top)
    BY <1>1, <1>4, SoundIs DEF RangesKept
  <1>6. Cardinality(UNION {Cells(layout.ram[i]) : i \in DOMAIN layout.ram}) = config.mib * MIB
    BY <1>1, <1>2 DEF RamCounted, RamDone, CellsOf
  <1>7. /\ \A i \in DOMAIN layout.virtio :
             layout.virtio[i].space = "Mmio" /\ layout.virtio[i].size >= VirtioMin
        /\ \A i \in DOMAIN layout.hotplug :
             /\ layout.hotplug[i].size = needs.hotplug.capacity
             /\ layout.hotplug[i].address % needs.hotplug.alignment = 0
    BY <1>1, <1>4 DEF Fitting
  <1>8. Acceptable
    BY <1>3, <1>5, <1>6, <1>7 DEF Acceptable
  <1>9. Len(plan.uart) = 1
    BY Running DEF Accepted
  <1>10. Len(layout.uart) = Len(plan.uart)
    BY <1>2, <1>9
  <1>11. DOMAIN layout = Parts
    BY <1>1 DEF LayoutType, Parts
  <1>12. \A part \in Parts : Len(layout[part]) = Len(plan[part])
    BY <1>2, <1>10 DEF Parts, RamDone
  <1> QED BY <1>8, <1>11, <1>12

\* Types hold throughout: what validate has read is what the platform returned, and
\* its running total and its ranges never leave the machine word.
THEOREM LayoutTypes == Spec => []LayoutTypeOK
  <1>1. ValidInv => LayoutTypeOK
    BY DEF ValidInv
  <1> QED BY <1>1, LayoutInvariant, PTL

\* MachineLayout::validate is right for any platform's layout, of any number of
\* regions: it accepts only layouts without a defect, refuses only those with one,
\* and attach_at cannot fail behind it.
THEOREM ValidateIsRight == Spec => []VerdictRight
  <1>1. ValidInv => VerdictRight
    BY AcceptedIsRight DEF ValidInv, Refused, VerdictRight
  <1> QED BY <1>1, LayoutInvariant, PTL

(***************************************************************************)
(* Which device an access reaches.                                         *)
(***************************************************************************)
Devs == layout.uart \o layout.virtio
Memory == layout.ram \o layout.hotplug

\* Regions without a byte in common, list by list.
LEMMA ApartByList ==
  ASSUME NEW a \in Seq(RegionType), NEW b \in Seq(RegionType), NEW c \in Seq(RegionType),
         NEW i \in 1..Len(b), Sound(a \o b \o c)
  PROVE  /\ \A j \in 1..Len(b) : i # j => Cells(b[i]) \cap Cells(b[j]) = {}
         /\ \A j \in 1..Len(a \o c) : Cells((a \o c)[j]) \cap Cells(b[i]) = {}
  <1> DEFINE q == a \o b \o c
  <1>1. /\ a \o b \in Seq(RegionType) /\ Len(a) \in Nat /\ Len(b) \in Nat /\ Len(c) \in Nat
        /\ Len(a \o b) = Len(a) + Len(b) /\ Len(q) = Len(a) + Len(b) + Len(c)
        /\ a \o c \in Seq(RegionType) /\ Len(a \o c) = Len(a) + Len(c)
    BY ConcatProperties
  <1>2. \A j \in 1..Len(a) : j \in 1..Len(q) /\ q[j] = a[j]
    <2> TAKE j \in 1..Len(a)
    <2>1. j \in 1..Len(a \o b) /\ (a \o b)[j] = a[j]
      BY PlaceInFirst
    <2> QED BY <1>1, <2>1, PlaceInFirst
  <1>3. \A j \in 1..Len(b) : Len(a) + j \in 1..Len(q) /\ q[Len(a) + j] = b[j]
    <2> TAKE j \in 1..Len(b)
    <2>1. Len(a) + j \in 1..Len(a \o b) /\ (a \o b)[Len(a) + j] = b[j]
      BY PlaceInSecond
    <2> QED BY <1>1, <2>1, PlaceInFirst
  <1>4. \A j \in 1..Len(c) : Len(a) + Len(b) + j \in 1..Len(q) /\ q[Len(a) + Len(b) + j] = c[j]
    <2> TAKE j \in 1..Len(c)
    <2>1. Len(a \o b) + j \in 1..Len(q) /\ q[Len(a \o b) + j] = c[j]
      BY <1>1, PlaceInSecond
    <2> QED BY <1>1, <2>1
  <1> HIDE DEF q
  <1>5. \A x, y \in 1..Len(q) : x # y => Cells(q[x]) \cap Cells(q[y]) = {}
    BY DEF Sound, q
  <1>6. ASSUME NEW j \in 1..Len(b), i # j PROVE Cells(b[i]) \cap Cells(b[j]) = {}
    <2>1. Len(a) + i # Len(a) + j
      BY <1>1, <1>6
    <2>2. Cells(q[Len(a) + i]) \cap Cells(q[Len(a) + j]) = {}
      BY <1>3, <1>5, <2>1
    <2> QED BY <1>3, <2>2
  <1>7. ASSUME NEW j \in 1..Len(a \o c) PROVE Cells((a \o c)[j]) \cap Cells(b[i]) = {}
    <2>1. CASE j \in 1..Len(a)
      <3>1. (a \o c)[j] = a[j] /\ j # Len(a) + i
        BY <1>1, <2>1, PlaceInFirst
      <3>2. Cells(q[j]) \cap Cells(q[Len(a) + i]) = {}
        BY <1>2, <1>3, <1>5, <2>1, <3>1
      <3> QED BY <1>2, <1>3, <2>1, <3>1, <3>2
    <2>2. CASE j \notin 1..Len(a)
      <3>1. PICK k \in 1..Len(c) : j = Len(a) + k
        <4>1. j - Len(a) \in 1..Len(c) /\ j = Len(a) + (j - Len(a))
          BY <1>1, <2>2
        <4> QED BY <4>1
      <3>2. (a \o c)[j] = c[k] /\ Len(a) + Len(b) + k # Len(a) + i
        BY <1>1, <3>1, PlaceInSecond
      <3>3. Cells(q[Len(a) + Len(b) + k]) \cap Cells(q[Len(a) + i]) = {}
        BY <1>3, <1>4, <1>5, <3>1, <3>2
      <3> QED BY <1>3, <1>4, <3>1, <3>2, <3>3
    <2> QED BY <2>1, <2>2
  <1> QED BY <1>6, <1>7

\* The devices of an accepted layout: the UART first, then the virtio windows, apart
\* from each other and from the memory.
LEMMA DevicesApart ==
  ASSUME ValidInv, pc \in Accepted
  PROVE  /\ Devs \in Seq(RegionType) /\ DOMAIN Devs = 1..Len(Devs)
         /\ layout.virtio \in Seq(RegionType) /\ DOMAIN layout.virtio = 1..Len(layout.virtio)
         /\ Len(layout.virtio) \in Nat /\ Len(Devs) = Len(layout.virtio) + 1
         /\ Uart \in RegionType /\ Devs[1] = Uart
         /\ \A i \in 1..Len(layout.virtio) : Devs[i + 1] = layout.virtio[i]
         /\ \A i, j \in DOMAIN Devs : i # j => Cells(Devs[i]) \cap Cells(Devs[j]) = {}
         /\ \A i \in DOMAIN Memory, j \in DOMAIN Devs : Cells(Memory[i]) \cap Cells(Devs[j]) = {}
  <1>1. /\ RangesKept /\ layout \in LayoutType /\ plan \in PlanType /\ Len(plan.uart) = 1
    BY Running DEF Accepted
  <1>2. layout.uart = <<plan.uart[1]>>
    BY DEF ValidInv, Stage, Accepted
  <1>3. Uart \in RegionType /\ layout.uart = <<Uart>>
    BY <1>1, <1>2 DEF PlanType, Uart
  <1>4. /\ layout.ram \in Seq(RegionType) /\ layout.uart \in Seq(RegionType)
        /\ layout.virtio \in Seq(RegionType) /\ layout.hotplug \in Seq(RegionType)
    BY <1>1, ReadTyped
  <1>5. /\ Devs \in Seq(RegionType) /\ DOMAIN Devs = 1..Len(Devs)
        /\ Len(Devs) = Len(layout.uart) + Len(layout.virtio)
        /\ DOMAIN layout.virtio = 1..Len(layout.virtio) /\ Len(layout.virtio) \in Nat
    BY <1>4, ConcatProperties DEF Devs
  <1>6. Len(layout.uart) = 1 /\ layout.uart[1] = Uart /\ 1 \in 1..Len(layout.uart)
    BY <1>3
  <1>7. Len(Devs) = Len(layout.virtio) + 1
    BY <1>5, <1>6
  <1>8. Devs[1] = Uart
    <2>1. \A j \in 1..Len(layout.uart) : (layout.uart \o layout.virtio)[j] = layout.uart[j]
      BY <1>4, PlaceInFirst
    <2>2. (layout.uart \o layout.virtio)[1] = layout.uart[1]
      BY <1>6, <2>1, Zenon
    <2> QED BY <1>6, <2>2, Zenon DEF Devs
  <1>9. \A i \in 1..Len(layout.virtio) : Devs[i + 1] = layout.virtio[i]
    <2> TAKE i \in 1..Len(layout.virtio)
    <2>1. Devs[Len(layout.uart) + i] = layout.virtio[i]
      BY <1>4, PlaceInSecond DEF Devs
    <2>2. Len(layout.uart) + i = i + 1
      BY <1>6
    <2> QED BY <2>1, <2>2
  <1>10. AllRead = layout.ram \o Devs \o layout.hotplug
    <2>1. \A a, b, c \in Seq(RegionType) : (a \o b) \o c = a \o (b \o c)
      BY ConcatAssociative
    <2>2. layout.ram \o layout.uart \o layout.virtio = layout.ram \o Devs
      BY <1>4, <2>1, Zenon DEF Devs
    <2> QED BY <2>2 DEF AllRead
  <1>11. Sound(layout.ram \o Devs \o layout.hotplug)
    BY <1>1, <1>10 DEF RangesKept
  <1>12. \A i \in 1..Len(Devs) :
           /\ \A j \in 1..Len(Devs) : i # j => Cells(Devs[i]) \cap Cells(Devs[j]) = {}
           /\ \A j \in 1..Len(Memory) : Cells(Memory[j]) \cap Cells(Devs[i]) = {}
    <2> DEFINE b == Devs
    <2>1. b \in Seq(RegionType) /\ Sound(layout.ram \o b \o layout.hotplug)
      BY <1>5, <1>11
    <2> HIDE DEF b
    <2>2. \A i \in 1..Len(b) :
            /\ \A j \in 1..Len(b) : i # j => Cells(b[i]) \cap Cells(b[j]) = {}
            /\ \A j \in 1..Len(layout.ram \o layout.hotplug) :
                 Cells((layout.ram \o layout.hotplug)[j]) \cap Cells(b[i]) = {}
      BY <1>4, <2>1, ApartByList
    <2> QED BY <2>2 DEF Memory, b
  <1>13. Memory \in Seq(RegionType) /\ DOMAIN Memory = 1..Len(Memory)
    BY <1>4, ConcatProperties DEF Memory
  <1> QED BY <1>3, <1>4, <1>5, <1>7, <1>8, <1>9, <1>12, <1>13

First(a) == <<a.space, a.address>>
Touched(a) == {a.space} \X (a.address..(a.address + a.width - 1))
Hits(a) == {i \in DOMAIN Devs : First(a) \in Cells(Devs[i])}

\* handle_io's comparison is about the first byte of the access.
LEMMA WithinIs ==
  ASSUME NEW a \in Accesses, NEW r \in RegionType
  PROVE  /\ a.address \in Nat /\ a.width \in Nat
         /\ Within(a, r) <=> First(a) \in Cells(r)
         /\ Within(a, r) /\ a.width = 1 => Touched(a) \subseteq Cells(r)
         /\ Within(a, r) /\ WindowFits(a, r) => Touched(a) \subseteq Cells(r)
  <1>1. a \in [space : Spaces, address : 0..Top, width : Nat, write : BOOLEAN]
    BY InputAssumption
  <1>2. a.address \in Nat /\ a.width \in Nat
    BY <1>1, Constants
  <1>3. r.address \in Nat /\ r.size \in Nat
    BY DEF RegionType
  <1>4. Within(a, r) <=> First(a) \in Cells(r)
    <2>1. First(a) \in Cells(r) <=>
            a.space = r.space /\ a.address \in r.address..(r.address + r.size - 1)
      BY DEF First, Cells
    <2> QED BY <1>2, <1>3, <2>1 DEF Within
  <1>5. ASSUME Within(a, r), a.address - r.address + a.width <= r.size
        PROVE  Touched(a) \subseteq Cells(r)
    <2>1. a.space = r.space /\ a.address >= r.address
      BY <1>5 DEF Within
    <2>2. a.address..(a.address + a.width - 1) \subseteq r.address..(r.address + r.size - 1)
      BY <1>2, <1>3, <1>5, <2>1
    <2> QED BY <2>1, <2>2 DEF Touched, Cells
  <1>6. Within(a, r) /\ a.width = 1 => a.address - r.address + a.width <= r.size
    BY <1>2, <1>3 DEF Within
  <1> QED BY <1>2, <1>4, <1>5, <1>6 DEF WindowFits

\* At most one device is hit: the one handle_io finds, and its outcome is about it.
LEMMA OneHit ==
  ASSUME ValidInv, pc \in Accepted, NEW a \in Accesses
  PROVE  /\ \A i, j \in Hits(a) : i = j
         /\ Within(a, Uart) => Hits(a) = {1}
         /\ ~Within(a, Uart) /\ Slots(a) # {} =>
              /\ Slot(a) \in 1..Len(layout.virtio) /\ Hits(a) = {Slot(a) + 1}
              /\ Within(a, layout.virtio[Slot(a)]) /\ Devs[Slot(a) + 1] = layout.virtio[Slot(a)]
         /\ ~Within(a, Uart) /\ Slots(a) = {} => Hits(a) = {}
  <1>1. /\ Devs \in Seq(RegionType) /\ DOMAIN Devs = 1..Len(Devs)
        /\ layout.virtio \in Seq(RegionType) /\ DOMAIN layout.virtio = 1..Len(layout.virtio)
        /\ Len(layout.virtio) \in Nat /\ Len(Devs) = Len(layout.virtio) + 1
        /\ Uart \in RegionType /\ Devs[1] = Uart
    BY DevicesApart
  <1>2. \A i \in 1..Len(layout.virtio) : Devs[i + 1] = layout.virtio[i]
    BY DevicesApart
  <1>3. \A i, j \in DOMAIN Devs : i # j => Cells(Devs[i]) \cap Cells(Devs[j]) = {}
    BY DevicesApart
  <1>4. \A i, j \in Hits(a) : i = j
    BY <1>3 DEF Hits
  <1>5. Within(a, Uart) <=> 1 \in Hits(a)
    <2>1. 1 \in DOMAIN Devs
      BY <1>1
    <2> QED BY <1>1, <2>1, WithinIs DEF Hits
  <1>6. ASSUME NEW i \in 1..Len(layout.virtio)
        PROVE  i \in Slots(a) <=> i + 1 \in Hits(a)
    <2>1. i + 1 \in DOMAIN Devs /\ layout.virtio[i] \in RegionType
      BY <1>1, ElementOfSeq
    <2>2. Within(a, layout.virtio[i]) <=> First(a) \in Cells(layout.virtio[i])
      BY <2>1, WithinIs
    <2> QED BY <1>1, <1>2, <2>1, <2>2 DEF Hits, Slots
  <1>7. \A i \in Hits(a) : i = 1 \/ \E k \in 1..Len(layout.virtio) : i = k + 1
    <2> TAKE i \in Hits(a)
    <2>1. i \in 1..(Len(layout.virtio) + 1)
      BY <1>1 DEF Hits
    <2>2. i # 1 => i - 1 \in 1..Len(layout.virtio) /\ i = (i - 1) + 1
      BY <1>1, <2>1
    <2> QED BY <2>2
  <1>8. Within(a, Uart) => Hits(a) = {1}
    BY <1>4, <1>5
  <1>9. ASSUME ~Within(a, Uart), Slots(a) # {}
        PROVE  /\ Slot(a) \in 1..Len(layout.virtio) /\ Hits(a) = {Slot(a) + 1}
               /\ Within(a, layout.virtio[Slot(a)])
               /\ Devs[Slot(a) + 1] = layout.virtio[Slot(a)]
    <2>1. PICK s \in Slots(a) : TRUE
      BY <1>9
    <2>2. s \in 1..Len(layout.virtio) /\ s + 1 \in Hits(a) /\ Within(a, layout.virtio[s])
      <3>1. s \in 1..Len(layout.virtio) /\ Within(a, layout.virtio[s])
        BY <1>1 DEF Slots
      <3> QED BY <1>6, <3>1
    <2>3. \A t \in Slots(a) : t = s
      <3> TAKE t \in Slots(a)
      <3>1. t \in 1..Len(layout.virtio)
        BY <1>1 DEF Slots
      <3>2. t + 1 \in Hits(a)
        BY <1>6, <3>1
      <3>3. t + 1 = s + 1
        BY <1>4, <2>2, <3>2
      <3> QED BY <1>1, <2>2, <3>1, <3>3
    <2>4. s <= s
      BY <2>2
    <2>5. Slot(a) = s
      <3>1. \A j \in Slots(a) : s <= j
        BY <2>3, <2>4
      <3>2. \A x : x \in Slots(a) /\ (\A j \in Slots(a) : x <= j) => x = s
        BY <2>3
      <3> QED BY <2>1, <3>1, <3>2 DEF Slot
    <2>6. Hits(a) = {s + 1}
      BY <1>4, <2>2
    <2> QED BY <1>2, <2>2, <2>5, <2>6
  <1>10. ASSUME ~Within(a, Uart), Slots(a) = {} PROVE Hits(a) = {}
    BY <1>5, <1>6, <1>7, <1>10
  <1> QED BY <1>4, <1>8, <1>9, <1>10

\* What handle_io answers.
Device(a) ==
  CASE Within(a, Uart) -> 0
    [] ~Within(a, Uart) /\ Slots(a) # {} -> Slot(a)
    [] OTHER -> None

\* The access is decoded to the device it hits, if any.
LEMMA DecodedRight ==
  ASSUME ValidInv, pc \in Accepted, NEW a \in Accesses
  PROVE  /\ Cardinality(Hits(a)) <= 1
         /\ Device(a) = IF Hits(a) = {} THEN None ELSE (CHOOSE i \in Hits(a) : TRUE) - 1
         /\ Outcome(a) = "register" => Touched(a) \subseteq Cells(Devs[Device(a) + 1])
         /\ (\E i \in DOMAIN Memory : First(a) \in Cells(Memory[i])) => Outcome(a) = "UnmappedIo"
         /\ Outcome(a) \notin {"register", "ignored"} => config.strict \/ Hits(a) = {}
         /\ config.strict => Outcome(a) # "ignored"
  <1>1. /\ Within(a, Uart) => Hits(a) = {1}
        /\ ~Within(a, Uart) /\ Slots(a) # {} =>
              /\ Slot(a) \in 1..Len(layout.virtio) /\ Hits(a) = {Slot(a) + 1}
              /\ Within(a, layout.virtio[Slot(a)]) /\ Devs[Slot(a) + 1] = layout.virtio[Slot(a)]
        /\ ~Within(a, Uart) /\ Slots(a) = {} => Hits(a) = {}
    BY OneHit
  <1>2. /\ layout.virtio \in Seq(RegionType) /\ Uart \in RegionType /\ Devs[1] = Uart
        /\ Len(layout.virtio) \in Nat
    BY DevicesApart
  <1>3. Hits(a) # {} => Outcome(a) # "UnmappedIo"
    BY <1>1 DEF Outcome
  <1>4. (\E i \in DOMAIN Memory : First(a) \in Cells(Memory[i])) => Hits(a) = {}
    <2>1. \A i \in DOMAIN Memory, j \in DOMAIN Devs : Cells(Memory[i]) \cap Cells(Devs[j]) = {}
      BY DevicesApart
    <2> QED BY <2>1 DEF Hits
  <1>5. \A x : Cardinality({x}) = 1 /\ (CHOOSE i \in {x} : TRUE) = x
    BY FS_Singleton
  <1>6. CASE Within(a, Uart)
    <2>1. Device(a) = 0 /\ Hits(a) = {1}
      BY <1>1, <1>6 DEF Device
    <2>2. Cardinality(Hits(a)) = 1 /\ (CHOOSE i \in Hits(a) : TRUE) = 1
      BY <1>5, <2>1, Zenon
    <2>3. Outcome(a) = IF Decodes(a) THEN "register"
                       ELSE IF config.strict THEN "InvalidAccess" ELSE "ignored"
      BY <1>6 DEF Outcome
    <2>4. Decodes(a) => a.width = 1
      BY <1>6 DEF Decodes
    <2>5. Outcome(a) = "register" => Touched(a) \subseteq Cells(Devs[Device(a) + 1])
      BY <1>2, <1>6, <2>1, <2>3, <2>4, WithinIs
    <2>6. /\ Outcome(a) \notin {"register", "ignored"} => config.strict
          /\ config.strict => Outcome(a) # "ignored"
      BY <2>3
    <2> QED BY <1>4, <2>1, <2>2, <2>5, <2>6
  <1>7. CASE ~Within(a, Uart) /\ Slots(a) # {}
    <2> DEFINE s == Slot(a)
    <2>1. /\ Device(a) = s /\ s \in 1..Len(layout.virtio) /\ Hits(a) = {s + 1}
          /\ Within(a, layout.virtio[s]) /\ Devs[s + 1] = layout.virtio[s]
      BY <1>1, <1>7 DEF Device
    <2>2. Cardinality(Hits(a)) = 1 /\ (CHOOSE i \in Hits(a) : TRUE) = s + 1
      BY <1>5, <2>1, Zenon
    <2>3. Outcome(a) = IF Decodes(a) THEN "register"
                       ELSE IF config.strict THEN "InvalidAccess" ELSE "ignored"
      BY <1>7 DEF Outcome
    <2>4. Decodes(a) => WindowFits(a, layout.virtio[s])
      BY <1>7 DEF Decodes
    <2> HIDE DEF s
    <2>5. Outcome(a) = "register" => Touched(a) \subseteq Cells(Devs[Device(a) + 1])
      <3>1. layout.virtio[s] \in RegionType
        BY <1>2, <2>1, ElementOfSeq
      <3>2. Decodes(a) => Touched(a) \subseteq Cells(layout.virtio[s])
        BY <2>1, <2>4, <3>1, WithinIs
      <3> QED BY <2>1, <2>3, <3>2
    <2>6. /\ Outcome(a) \notin {"register", "ignored"} => config.strict
          /\ config.strict => Outcome(a) # "ignored"
      BY <2>3
    <2>7. Device(a) = (CHOOSE i \in Hits(a) : TRUE) - 1 /\ Hits(a) # {}
      BY <1>2, <2>1, <2>2
    <2> QED BY <1>4, <2>2, <2>5, <2>6, <2>7
  <1>8. CASE ~Within(a, Uart) /\ Slots(a) = {}
    <2>1. Device(a) = None /\ Hits(a) = {} /\ Outcome(a) = "UnmappedIo"
      BY <1>1, <1>8 DEF Device, Outcome
    <2>2. Cardinality(Hits(a)) = 0
      BY <2>1, FS_EmptySet
    <2> QED BY <2>1, <2>2
  <1> QED BY <1>6, <1>7, <1>8

\* The last access was decoded exactly, on a layout that had been accepted.
DecodeInv == DecodeExact /\ (io # None => pc \in {"ready", "ended"})

\* An access in handle_io.
LEMMA DecodeStep ==
  ASSUME ValidInv, NEW a \in Accesses, handle_io(a)
  PROVE  DecodeInv'
  <1>1. /\ pc = "ready" /\ layout' = layout /\ config' = config
        /\ io' = [access |-> a, outcome |-> Outcome(a), device |-> Device(a)]
        /\ pc' = IF Outcome(a) \in {"register", "ignored"} THEN "ready" ELSE "ended"
    BY DEF handle_io, Device
  <1>2. io'.access = a /\ io'.outcome = Outcome(a) /\ io'.device = Device(a)
    BY <1>1
  <1>3. pc \in Accepted
    BY <1>1 DEF Accepted
  <1>4. /\ Cardinality(Hits(a)) <= 1
        /\ Device(a) = IF Hits(a) = {} THEN None ELSE (CHOOSE i \in Hits(a) : TRUE) - 1
        /\ Outcome(a) = "register" => Touched(a) \subseteq Cells(Devs[Device(a) + 1])
        /\ (\E i \in DOMAIN Memory : First(a) \in Cells(Memory[i])) => Outcome(a) = "UnmappedIo"
        /\ Outcome(a) \notin {"register", "ignored"} => config.strict \/ Hits(a) = {}
        /\ config.strict => Outcome(a) # "ignored"
    BY <1>3, DecodedRight
  <1>5. pc' = "ended" => config.strict \/ Hits(a) = {}
    BY <1>1, <1>4
  <1>6. DecodeExact'
    BY <1>1, <1>2, <1>4, <1>5, Zenon DEF DecodeExact, Hits, Devs, Memory, First, Touched
  <1> QED BY <1>1, <1>6 DEF DecodeInv

\* Every step keeps it.
LEMMA DecodeNext ==
  ASSUME ValidInv, DecodeInv, [Next]_vars
  PROVE  DecodeInv'
  <1>1. CASE UNCHANGED vars
    <2>1. io' = io /\ layout' = layout /\ config' = config /\ pc' = pc
      BY <1>1 DEF vars
    <2> QED BY <2>1 DEF DecodeInv, DecodeExact
  <1>2. CASE \/ HvfLayout \/ CustomLayout
             \/ CheckCounts \/ AddRam \/ CheckTotal \/ AddUart \/ AddVirtio \/ AddHotplug
             \/ Attach \/ DeviceFails \/ MapBase \/ HostFails \/ Prepare \/ PrepareCustom
    <2>1. io' = io /\ pc \notin {"ready", "ended"}
      <3>1. CASE HvfLayout \/ CustomLayout
        BY <3>1 DEF HvfLayout, CustomLayout, Verdict
      <3>2. CASE CheckCounts \/ CheckTotal \/ Attach \/ DeviceFails \/ MapBase \/ HostFails \/ PrepareCustom
        BY <3>2 DEF CheckCounts, CheckTotal, Attach, DeviceFails, MapBase, HostFails,
                    PrepareCustom, Check, Verdict
      <3>3. CASE AddRam \/ AddUart \/ AddVirtio
        BY <3>3 DEF AddRam, AddUart, AddVirtio, Add, Verdict
      <3>4. CASE AddHotplug
        BY <3>4 DEF AddHotplug, Add, Check, Verdict
      <3>5. CASE Prepare
        BY <3>5 DEF Prepare, Verdict
      <3> QED BY <1>2, <3>1, <3>2, <3>3, <3>4, <3>5
    <2>2. io' = None
      BY <2>1 DEF DecodeInv
    <2> QED BY <2>2 DEF DecodeInv, DecodeExact
  <1>3. CASE \E a \in Accesses : handle_io(a)
    BY <1>3, DecodeStep
  <1>4. CASE IoFails \/ CompleteIo
    <2>1. io' = None
      BY <1>4 DEF IoFails, CompleteIo
    <2> QED BY <2>1 DEF DecodeInv, DecodeExact
  <1> QED BY <1>1, <1>2, <1>3, <1>4 DEF Next

\* handle_io is exact on any layout validate has accepted: one device at most per
\* access, a register only when all its bytes are in the window, and never memory.
THEOREM HandleIoIsExact == Spec => []DecodeExact
  <1>1. Init => DecodeInv
    BY DEF Init, DecodeInv, DecodeExact
  <1>2. ValidInv /\ DecodeInv /\ [Next]_vars => DecodeInv'
    BY DecodeNext
  <1>3. DecodeInv => DecodeExact
    BY DEF DecodeInv
  <1> QED BY <1>1, <1>2, <1>3, LayoutInvariant, PTL DEF Spec

(***************************************************************************)
(* The built-in layout.                                                    *)
(***************************************************************************)
RamSize == config.mib * MIB
KernelLen(k) == IF k.size >= k.len THEN k.size ELSE k.len

\* Where boot::Layout::new puts the images: one behind the other inside the RAM.
LEMMA BootPlaces ==
  ASSUME LayoutTypeOK, host # None, BootFits(config.mib, host.kernel)
  PROVE  /\ RamSize \in Nat /\ RamSize > 0 /\ RAM + RamSize <= Top
         /\ KernelEntry(host.kernel) \in Nat /\ RAM <= KernelEntry(host.kernel)
         /\ KernelLen(host.kernel) \in Nat /\ host.kernel.initrd \in Nat
         /\ KernelEntry(host.kernel) + KernelLen(host.kernel) <= Initrd(config.mib, host.kernel)
         /\ Initrd(config.mib, host.kernel) \in Nat
         /\ Initrd(config.mib, host.kernel) + host.kernel.initrd <= Dtb(config.mib)
         /\ Dtb(config.mib) \in Nat /\ Dtb(config.mib) + DtbSpace = RAM + RamSize
  <1> DEFINE k == host.kernel
             z == config.mib * MIB
             d == RAM + z - DtbSpace
             n == IF k.size >= k.len THEN k.size ELSE k.len
             q == (d - k.initrd) \div InitrdAlign
  <1>1. config.mib \in Nat /\ host \in Hosts
    BY Inputs
  <1>2. k \in Kernels
    BY <1>1 DEF Hosts
  <1>3. k.offset \in Nat /\ k.size \in Nat /\ k.len \in Nat /\ k.initrd \in Nat
    BY <1>2 DEF Kernels
  <1>4. /\ MIB \in Nat /\ MinMib \in Nat /\ DtbSpace \in Nat /\ RAM \in Nat /\ Top \in Nat
        /\ InitrdAlign \in Nat
    BY Constants
  <1>5. DtbSpace <= MinMib * MIB /\ 0 < InitrdAlign
    BY LayoutAssumption
  <1>6. /\ config.mib >= MinMib /\ k.size # 0
        /\ Fits(RAM + config.mib * MIB) /\ Dtb(config.mib) >= k.initrd
        /\ Initrd(config.mib, k) >= RAM /\ KernelEnd(k) <= Initrd(config.mib, k)
    BY DEF BootFits
  <1>7. z \in Nat /\ MinMib * MIB \in Nat /\ MinMib * MIB <= z
    <2>1. \A i, j, s \in Nat : i <= j => i * s \in Nat /\ j * s \in Nat /\ i * s <= j * s
      OBVIOUS
    <2> QED BY <1>1, <1>4, <1>6, <2>1
  <1>8. Dtb(config.mib) = d /\ Initrd(config.mib, k) = q * InitrdAlign
    BY DEF Dtb, Initrd
  <1>9. KernelEntry(k) = RAM + k.offset /\ KernelEnd(k) = RAM + k.offset + n
    BY DEF KernelEntry, KernelEnd
  <1>10. n \in Nat /\ n > 0 /\ KernelLen(k) = n
    BY <1>3, <1>6 DEF KernelLen
  <1> HIDE DEF z
  <1>11. d \in Nat /\ d + DtbSpace = RAM + z /\ d - k.initrd \in Nat
    BY <1>3, <1>4, <1>5, <1>6, <1>7, <1>8
  <1> HIDE DEF d
  <1>12. q \in Nat /\ q * InitrdAlign \in Nat /\ q * InitrdAlign <= d - k.initrd
    <2>1. \A a \in Nat, m \in Nat \ {0} :
            a \div m \in Nat /\ (a \div m) * m \in Nat /\ (a \div m) * m <= a
      OBVIOUS
    <2>2. InitrdAlign \in Nat \ {0}
      BY <1>4, <1>5
    <2> QED BY <1>11, <2>1, <2>2
  <1> DEFINE y == q * InitrdAlign
  <1>13. y \in Nat /\ y <= d - k.initrd /\ Initrd(config.mib, k) = y
    BY <1>8, <1>12
  <1> HIDE DEF q, y, n, k
  <1>14. RAM <= y /\ RAM + k.offset + n <= y /\ y + k.initrd <= d
    BY <1>3, <1>6, <1>9, <1>11, <1>13
  <1>15. z > 0 /\ RAM + z <= Top
    <2>1. RAM + z <= Top
      BY <1>6 DEF Fits, z
    <2> QED BY <1>3, <1>4, <1>7, <1>10, <1>11, <1>13, <1>14, <2>1
  <1>16. RamSize = z
    BY DEF RamSize, z
  <1>17. /\ RAM + k.offset \in Nat /\ RAM <= RAM + k.offset
    BY <1>3, <1>4
  <1> QED BY <1>3, <1>7, <1>8, <1>9, <1>10, <1>11, <1>13, <1>14, <1>15, <1>16, <1>17 DEF k

\* The places of the device windows and of the interrupts.
LEMMA WindowPlaces ==
  ASSUME NEW n \in Nat, VirtioFits(n), NEW i \in 1..n
  PROVE  /\ VirtioRegions(n)[i] \in RegionType /\ VirtioRegions(n)[i].space = "Mmio"
         /\ VirtioRegions(n)[i].size = VIRTIO_STRIDE /\ VIRTIO_STRIDE > 0
         /\ VirtioRegions(n)[i].address = VIRTIO_BASE + (i - 1) * VIRTIO_STRIDE
         /\ VIRTIO_BASE <= VirtioRegions(n)[i].address
         /\ End(VirtioRegions(n)[i]) <= GIC_REDIST
         /\ VirtioRegions(n)[i].irq = VIRTIO_IRQ_BASE + (i - 1)
         /\ \A j \in 1..n : i < j => End(VirtioRegions(n)[i]) <= VirtioRegions(n)[j].address
  <1>1. /\ VIRTIO_BASE \in Nat /\ VIRTIO_STRIDE \in Nat /\ GIC_REDIST \in Nat
        /\ VIRTIO_IRQ_BASE \in Nat /\ IrqEnd \in Nat /\ VirtioMin \in Nat
    BY Constants
  <1>2. /\ VIRTIO_BASE + (IrqEnd - VIRTIO_IRQ_BASE) * VIRTIO_STRIDE <= GIC_REDIST
        /\ VIRTIO_IRQ_BASE <= IrqEnd /\ 0 < VirtioMin /\ VirtioMin <= VIRTIO_STRIDE
    BY LayoutAssumption
  <1>3. n <= IrqEnd - VIRTIO_IRQ_BASE
    BY DEF VirtioFits
  <1> DEFINE m == IrqEnd - VIRTIO_IRQ_BASE
             s == VIRTIO_STRIDE
             p == i - 1
  <1>4. m \in Nat /\ s \in Nat /\ s > 0 /\ p \in Nat /\ p < m
    BY <1>1, <1>2, <1>3
  <1>5. \A u, v, w \in Nat : u < v => u * w \in Nat /\ v * w \in Nat /\ u * w + w <= v * w
    OBVIOUS
  <1>6. p * s \in Nat /\ m * s \in Nat /\ p * s + s <= m * s
    BY <1>4, <1>5
  <1>7. VirtioRegions(n)[i] = Region("Mmio", VIRTIO_BASE + p * s, s, VIRTIO_IRQ_BASE + p)
    BY DEF VirtioRegions
  <1>8. VIRTIO_BASE + m * s <= GIC_REDIST
    BY <1>2
  <1>9. ASSUME NEW j \in 1..n, i < j
        PROVE  /\ VirtioRegions(n)[j].address = VIRTIO_BASE + (j - 1) * s
               /\ (j - 1) * s \in Nat /\ p * s + s <= (j - 1) * s
    <2>1. j - 1 \in Nat /\ p < j - 1
      BY <1>9
    <2>2. VirtioRegions(n)[j].address = VIRTIO_BASE + (j - 1) * s
      BY DEF VirtioRegions, Region
    <2> QED BY <1>4, <1>5, <2>1, <2>2
  <1> DEFINE t == p * s
             r == VirtioRegions(n)[i]
  <1>10. /\ r.space = "Mmio" /\ r.address = VIRTIO_BASE + t /\ r.size = s
         /\ r.irq = VIRTIO_IRQ_BASE + p /\ t \in Nat
    BY <1>6, <1>7 DEF Region
  <1>11. r \in RegionType
    <2>1. VIRTIO_BASE + p * s \in Nat /\ VIRTIO_IRQ_BASE + p \in Nat
      BY <1>1, <1>4, <1>6
    <2> QED BY <1>4, <1>7, <2>1 DEF Region, RegionType, Spaces
  <1>12. VIRTIO_BASE <= r.address /\ End(r) <= GIC_REDIST
    <2>1. t + s <= m * s /\ m * s \in Nat
      BY <1>6
    <2> HIDE DEF t, r, m
    <2> QED BY <1>1, <1>4, <1>8, <1>10, <2>1 DEF End
  <1>13. \A j \in 1..n : i < j => End(r) <= VirtioRegions(n)[j].address
    <2> SUFFICES ASSUME NEW j \in 1..n, i < j PROVE End(r) <= VirtioRegions(n)[j].address
      OBVIOUS
    <2> DEFINE w == (j - 1) * s
    <2>1. VirtioRegions(n)[j].address = VIRTIO_BASE + w /\ w \in Nat /\ t + s <= w
      BY <1>9
    <2> HIDE DEF t, r, w
    <2> QED BY <1>1, <1>4, <1>10, <2>1 DEF End
  <1> QED BY <1>4, <1>10, <1>11, <1>12, <1>13

\* Regions without a byte in common, in one list and across two.
Disjoint(q) == \A i, j \in 1..Len(q) : i # j => Cells(q[i]) \cap Cells(q[j]) = {}
Cross(a, b) == \A i \in 1..Len(a), j \in 1..Len(b) : Cells(a[i]) \cap Cells(b[j]) = {}
\* All of a list's regions lie between two addresses.
Spans(q, low, high) ==
  \A i \in 1..Len(q) : q[i].address >= low /\ End(q[i]) <= high

\* Two lists in a row.
LEMMA DisjointConcat ==
  ASSUME NEW a \in Seq(RegionType), NEW b \in Seq(RegionType),
         Disjoint(a), Disjoint(b), Cross(a, b)
  PROVE  a \o b \in Seq(RegionType) /\ Disjoint(a \o b)
  <1> DEFINE q == a \o b
  <1>1. /\ q \in Seq(RegionType) /\ Len(a) \in Nat /\ Len(b) \in Nat /\ Len(q) = Len(a) + Len(b)
    BY ConcatProperties
  <1>2. \A i \in 1..Len(a) : q[i] = a[i]
    BY PlaceInFirst
  <1>3. \A i \in 1..Len(b) : q[Len(a) + i] = b[i]
    BY PlaceInSecond
  <1> HIDE DEF q
  <1>4. \A i \in 1..Len(q) : i \in 1..Len(a) \/ \E k \in 1..Len(b) : i = Len(a) + k
    <2> TAKE i \in 1..Len(q)
    <2>1. i \notin 1..Len(a) => i - Len(a) \in 1..Len(b) /\ i = Len(a) + (i - Len(a))
      BY <1>1
    <2> QED BY <2>1
  <1>5. ASSUME NEW i \in 1..Len(q), NEW j \in 1..Len(q), i # j
        PROVE  Cells(q[i]) \cap Cells(q[j]) = {}
    <2>1. CASE i \in 1..Len(a) /\ j \in 1..Len(a)
      <3>1. Cells(a[i]) \cap Cells(a[j]) = {}
        BY <1>5, <2>1 DEF Disjoint
      <3> QED BY <1>2, <2>1, <3>1
    <2>2. CASE i \in 1..Len(a) /\ j \notin 1..Len(a)
      <3>1. PICK k \in 1..Len(b) : j = Len(a) + k
        BY <1>4, <2>2
      <3>2. Cells(a[i]) \cap Cells(b[k]) = {}
        BY <2>2 DEF Cross
      <3> QED BY <1>2, <1>3, <2>2, <3>1, <3>2
    <2>3. CASE i \notin 1..Len(a) /\ j \in 1..Len(a)
      <3>1. PICK k \in 1..Len(b) : i = Len(a) + k
        BY <1>4, <2>3
      <3>2. Cells(a[j]) \cap Cells(b[k]) = {}
        BY <2>3 DEF Cross
      <3>3. q[j] = a[j] /\ q[i] = b[k]
        BY <1>2, <1>3, <2>3, <3>1
      <3> QED BY <3>2, <3>3
    <2>4. CASE i \notin 1..Len(a) /\ j \notin 1..Len(a)
      <3>1. PICK k \in 1..Len(b) : i = Len(a) + k
        BY <1>4, <2>4
      <3>2. PICK l \in 1..Len(b) : j = Len(a) + l
        BY <1>4, <2>4
      <3>3. Cells(b[k]) \cap Cells(b[l]) = {}
        BY <1>5, <3>1, <3>2 DEF Disjoint
      <3> QED BY <1>3, <3>1, <3>2, <3>3
    <2> QED BY <2>1, <2>2, <2>3, <2>4
  <1> QED BY <1>1, <1>5 DEF Disjoint, q

\* What is apart from two lists is apart from their concatenation.
LEMMA CrossConcat ==
  ASSUME NEW a \in Seq(RegionType), NEW b \in Seq(RegionType), NEW c \in Seq(RegionType),
         Cross(a, c), Cross(b, c)
  PROVE  Cross(a \o b, c)
  <1> DEFINE q == a \o b
  <1>1. /\ q \in Seq(RegionType) /\ Len(a) \in Nat /\ Len(b) \in Nat /\ Len(q) = Len(a) + Len(b)
    BY ConcatProperties
  <1>2. \A i \in 1..Len(a) : q[i] = a[i]
    BY PlaceInFirst
  <1>3. \A i \in 1..Len(b) : q[Len(a) + i] = b[i]
    BY PlaceInSecond
  <1> HIDE DEF q
  <1>4. ASSUME NEW i \in 1..Len(q), NEW j \in 1..Len(c)
        PROVE  Cells(q[i]) \cap Cells(c[j]) = {}
    <2>1. CASE i \in 1..Len(a)
      BY <1>2, <2>1 DEF Cross
    <2>2. CASE i \notin 1..Len(a)
      <3>1. i - Len(a) \in 1..Len(b) /\ i = Len(a) + (i - Len(a))
        BY <1>1, <2>2
      <3>2. PICK k \in 1..Len(b) : i = Len(a) + k
        BY <3>1
      <3>3. Cells(b[k]) \cap Cells(c[j]) = {}
        BY DEF Cross
      <3> QED BY <1>3, <3>2, <3>3
    <2> QED BY <2>1, <2>2
  <1> QED BY <1>4 DEF Cross, q

\* A property of every region of two lists is one of every region of both.
LEMMA InsideConcat ==
  ASSUME NEW a \in Seq(RegionType), NEW b \in Seq(RegionType),
         \A i \in 1..Len(a) : Inside(a[i]), \A i \in 1..Len(b) : Inside(b[i])
  PROVE  \A i \in 1..Len(a \o b) : Inside((a \o b)[i])
  <1> DEFINE q == a \o b
  <1>1. /\ q \in Seq(RegionType) /\ Len(a) \in Nat /\ Len(b) \in Nat /\ Len(q) = Len(a) + Len(b)
    BY ConcatProperties
  <1>2. \A i \in 1..Len(a) : q[i] = a[i]
    BY PlaceInFirst
  <1>3. \A i \in 1..Len(b) : q[Len(a) + i] = b[i]
    BY PlaceInSecond
  <1> HIDE DEF q
  <1>4. ASSUME NEW i \in 1..Len(q) PROVE Inside(q[i])
    <2>1. CASE i \in 1..Len(a)
      BY <1>2, <2>1
    <2>2. CASE i \notin 1..Len(a)
      <3>1. i - Len(a) \in 1..Len(b) /\ i = Len(a) + (i - Len(a))
        BY <1>1, <2>2
      <3>2. PICK k \in 1..Len(b) : i = Len(a) + k
        BY <3>1
      <3> QED BY <1>3, <3>2
    <2> QED BY <2>1, <2>2
  <1> QED BY <1>4 DEF q

\* Regions that lie apart have no byte in common, and neither have such lists.
LEMMA OrderedApart ==
  ASSUME NEW r \in RegionType, NEW s \in RegionType,
         End(r) <= s.address \/ End(s) <= r.address
  PROVE  Cells(r) \cap Cells(s) = {}
  <1>1. r.address \in Nat /\ r.size \in Nat /\ s.address \in Nat /\ s.size \in Nat
    BY DEF RegionType
  <1>2. r.address + r.size <= s.address \/ s.address + s.size <= r.address
    BY DEF End
  <1> SUFFICES ASSUME NEW c \in Cells(r), c \in Cells(s) PROVE FALSE
    OBVIOUS
  <1>3. c[2] \in r.address..(r.address + r.size - 1)
    BY DEF Cells
  <1>4. c[2] \in s.address..(s.address + s.size - 1)
    BY DEF Cells
  <1> QED BY <1>1, <1>2, <1>3, <1>4

\* Lists that lie one behind the other are apart.
LEMMA SpansApart ==
  ASSUME NEW a \in Seq(RegionType), NEW b \in Seq(RegionType),
         NEW low1 \in Int, NEW high1 \in Int, NEW low2 \in Int, NEW high2 \in Int,
         Spans(a, low1, high1), Spans(b, low2, high2), high1 <= low2 \/ high2 <= low1
  PROVE  Cross(a, b)
  <1> SUFFICES ASSUME NEW i \in 1..Len(a), NEW j \in 1..Len(b)
               PROVE  Cells(a[i]) \cap Cells(b[j]) = {}
    BY DEF Cross
  <1>1. PICK r \in RegionType : r = a[i]
    <2>1. a[i] \in RegionType
      BY ElementOfSeq
    <2> QED BY <2>1
  <1>2. PICK s \in RegionType : s = b[j]
    <2>1. b[j] \in RegionType
      BY ElementOfSeq
    <2> QED BY <2>1
  <1>3. r.address >= low1 /\ End(r) <= high1 /\ s.address >= low2 /\ End(s) <= high2
    <2>1. a[i].address >= low1 /\ End(a[i]) <= high1
      BY DEF Spans
    <2>2. b[j].address >= low2 /\ End(b[j]) <= high2
      BY DEF Spans
    <2> QED BY <1>1, <1>2, <2>1, <2>2
  <1>4. r.address \in Int /\ End(r) \in Int /\ s.address \in Int /\ End(s) \in Int
    <2>1. \A x \in RegionType : x.address \in Nat /\ x.size \in Nat
      BY DEF RegionType
    <2>2. \A x \in RegionType : x.address \in Int /\ End(x) \in Int
      BY <2>1 DEF End
    <2> QED BY <2>2
  <1>5. End(r) <= s.address \/ End(s) <= r.address
    BY <1>3, <1>4
  <1> QED BY <1>1, <1>2, <1>5, OrderedApart

\* A list of one region at most.
LEMMA DisjointOne ==
  ASSUME NEW q \in Seq(RegionType), Len(q) <= 1
  PROVE  Disjoint(q)
  <1>1. Len(q) \in Nat
    OBVIOUS
  <1>2. \A i, j \in 1..Len(q) : i = j
    BY <1>1
  <1> QED BY <1>2 DEF Disjoint

UartRegion == Region("Mmio", UART, UART_SIZE, UART_IRQ)

\* What has been read of the built-in layout.
LEMMA OwnRead ==
  ASSUME ValidInv, host # None, Planned, Own
  PROVE  /\ Len(layout.ram) <= 1 /\ \A i \in 1..Len(layout.ram) : layout.ram[i] = HvfRam
         /\ Len(layout.uart) <= 1 /\ \A i \in 1..Len(layout.uart) : layout.uart[i] = UartRegion
         /\ Len(layout.virtio) <= needs.devices
         /\ \A i \in 1..Len(layout.virtio) :
              i \in 1..needs.devices /\ layout.virtio[i] = VirtioRegions(needs.devices)[i]
         /\ Len(layout.hotplug) <= Len(HvfHotplug)
         /\ \A i \in 1..Len(layout.hotplug) :
              i \in 1..Len(HvfHotplug) /\ layout.hotplug[i] = HvfHotplug[i]
  <1>1. /\ plan = HvfPlan /\ layout \in LayoutType /\ LayoutTypeOK
        /\ \A part \in Parts : Reads(part)
    BY DEF ValidInv, PlanOK, Own
  <1>2. config \in Configs /\ needs \in Needs /\ needs.devices \in Nat
    BY <1>1, Inputs
  <1>3. /\ plan.ram = <<HvfRam>> /\ plan.uart = <<UartRegion>> /\ plan.hotplug = HvfHotplug
        /\ plan.virtio = VirtioRegions(needs.devices)
        /\ HvfRam \in RegionType /\ UartRegion \in RegionType
        /\ HvfHotplug \in Seq(RegionType) /\ VirtioRegions(needs.devices) \in Seq(RegionType)
        /\ Len(VirtioRegions(needs.devices)) = needs.devices
    BY <1>1, <1>2, HvfPlanTyped DEF UartRegion
  <1>4. Any \notin RegionType
    BY InputAssumption DEF RegionType
  <1>5. \A q \in Seq(RegionType), i \in Nat : i \in 1..Len(q) => q[i] # Any
    <2> SUFFICES ASSUME NEW q \in Seq(RegionType), NEW i \in 1..Len(q) PROVE q[i] # Any
      OBVIOUS
    <2>1. q[i] \in RegionType
      BY ElementOfSeq
    <2> QED BY <1>4, <2>1
  <1>6. ASSUME NEW part \in Parts, NEW q \in Seq(RegionType), plan[part] = q
        PROVE  /\ Len(layout[part]) <= Len(q)
               /\ \A i \in 1..Len(layout[part]) : i \in 1..Len(q) /\ layout[part][i] = q[i]
    <2>1. layout[part] \in Seq(RegionType)
      BY <1>1, PartTyped
    <2>2. /\ Len(layout[part]) <= Len(q) /\ Len(q) \in Nat /\ Len(layout[part]) \in Nat
          /\ DOMAIN layout[part] = 1..Len(layout[part])
          /\ \A i \in DOMAIN layout[part] : q[i] \in {Any, layout[part][i]}
      BY <1>1, <1>6, <2>1 DEF Reads
    <2>3. \A i \in 1..Len(layout[part]) : i \in 1..Len(q) /\ i \in Nat
      BY <2>2
    <2> QED BY <1>5, <2>2, <2>3
  <1>7. \A x \in RegionType : <<x>> \in Seq(RegionType) /\ Len(<<x>>) = 1 /\ <<x>>[1] = x
    OBVIOUS
  <1>8. Len(layout.ram) <= 1 /\ \A i \in 1..Len(layout.ram) : layout.ram[i] = HvfRam
    <2>1. /\ Len(layout["ram"]) <= Len(<<HvfRam>>)
          /\ \A i \in 1..Len(layout["ram"]) :
               i \in 1..Len(<<HvfRam>>) /\ layout["ram"][i] = <<HvfRam>>[i]
      BY <1>3, <1>6, <1>7 DEF Parts
    <2>2. \A i \in 1..1 : i = 1
      OBVIOUS
    <2> QED BY <1>3, <1>7, <2>1, <2>2
  <1>9. Len(layout.uart) <= 1 /\ \A i \in 1..Len(layout.uart) : layout.uart[i] = UartRegion
    <2>1. /\ Len(layout["uart"]) <= Len(<<UartRegion>>)
          /\ \A i \in 1..Len(layout["uart"]) :
               i \in 1..Len(<<UartRegion>>) /\ layout["uart"][i] = <<UartRegion>>[i]
      BY <1>3, <1>6, <1>7 DEF Parts
    <2>2. \A i \in 1..1 : i = 1
      OBVIOUS
    <2> QED BY <1>3, <1>7, <2>1, <2>2
  <1>10. /\ Len(layout["virtio"]) <= needs.devices
         /\ \A i \in 1..Len(layout["virtio"]) :
              i \in 1..needs.devices /\ layout["virtio"][i] = VirtioRegions(needs.devices)[i]
    BY <1>3, <1>6 DEF Parts
  <1>11. /\ Len(layout["hotplug"]) <= Len(HvfHotplug)
         /\ \A i \in 1..Len(layout["hotplug"]) :
              i \in 1..Len(HvfHotplug) /\ layout["hotplug"][i] = HvfHotplug[i]
    BY <1>3, <1>6 DEF Parts
  <1> QED BY <1>8, <1>9, <1>10, <1>11

\* The hotplug range lies behind the RAM, aligned and in the word.
LEMMA HotplugPlace ==
  ASSUME LayoutTypeOK, host # None, HvfFits, NEW i \in 1..Len(HvfHotplug)
  PROVE  /\ needs.hotplug # None /\ HvfHotplug[i] \in RegionType
         /\ HvfHotplug[i].space = "Mmio" /\ HvfHotplug[i].size = needs.hotplug.capacity
         /\ HvfHotplug[i].size > 0 /\ HvfHotplug[i].address % needs.hotplug.alignment = 0
         /\ RAM + RamSize <= HvfHotplug[i].address /\ End(HvfHotplug[i]) <= Top
  <1>1. /\ config \in Configs /\ needs \in Needs
        /\ needs.hotplug # None =>
             /\ needs.hotplug.capacity \in Nat /\ needs.hotplug.capacity > 0
             /\ needs.hotplug.alignment \in Nat /\ needs.hotplug.alignment > 0
    BY Inputs
  <1>2. HvfHotplug \in Seq(RegionType) /\ DOMAIN HvfHotplug = 1..Len(HvfHotplug)
    BY <1>1, HvfPlanTyped
  <1>3. needs.hotplug # None
    BY DEF HvfHotplug
  <1> DEFINE n == RAM + RamSize
             a == NextMultiple(n, needs.hotplug.alignment)
             r == Region("Mmio", a, needs.hotplug.capacity, 0)
  <1>4. n \in Nat
    <2>1. RamSize \in Nat
      BY BootPlaces DEF HvfFits
    <2> QED BY <2>1, Constants
  <1>5. n <= a /\ a % needs.hotplug.alignment = 0
    <2>1. needs.hotplug.alignment \in Nat \ {0}
      BY <1>1, <1>3
    <2> HIDE DEF n
    <2> QED BY <1>4, <2>1, NextMultipleIs
  <1>6. HvfHotplug = <<r>>
    BY <1>3 DEF HvfHotplug, RamSize
  <1>7. i = 1 /\ HvfHotplug[i] = r
    BY <1>6
  <1>8. HvfHotplug[i] \in RegionType
    BY <1>2, ElementOfSeq
  <1>9. r.space = "Mmio" /\ r.size = needs.hotplug.capacity /\ r.address = a
    BY DEF Region
  <1>10. End(HvfHotplug[i]) <= Top
    BY <1>2 DEF HvfFits, IpaFits, Fits, End
  <1> HIDE DEF a, r, n
  <1> QED BY <1>1, <1>3, <1>5, <1>7, <1>8, <1>9, <1>10 DEF n

\* The lists of the built-in layout lie one behind the other.
LEMMA OwnPlaces ==
  ASSUME ValidInv, host # None, Planned, Own
  PROVE  /\ Spans(layout.ram, RAM, RAM + RamSize)
         /\ Spans(layout.uart, UART, UART + UART_SIZE)
         /\ Spans(layout.virtio, VIRTIO_BASE, GIC_REDIST)
         /\ Spans(layout.hotplug, RAM + RamSize, Top)
         /\ RamSize \in Nat /\ RAM + RamSize <= Top /\ RamSize > 0
         /\ GIC_DIST + DistSize <= UART /\ UART + UART_SIZE <= VIRTIO_BASE
         /\ VIRTIO_BASE <= GIC_REDIST /\ GIC_REDIST < RAM
  <1>1. HvfFits /\ LayoutTypeOK
    BY DEF Own, ValidInv
  <1>2. RamSize \in Nat /\ RAM + RamSize <= Top /\ RamSize > 0
    BY <1>1, BootPlaces DEF HvfFits
  <1>3. VirtioFits(needs.devices) /\ needs.devices \in Nat
    BY <1>1, Inputs DEF HvfFits
  <1>4. Spans(layout.ram, RAM, RAM + RamSize)
    <2>1. HvfRam.address = RAM /\ End(HvfRam) = RAM + RamSize
      BY DEF HvfRam, Region, End, RamSize
    <2>2. RAM \in Nat /\ RAM >= RAM /\ RAM + RamSize <= RAM + RamSize
      BY <1>2, Constants
    <2> QED BY <2>1, <2>2, OwnRead DEF Spans
  <1>5. Spans(layout.uart, UART, UART + UART_SIZE)
    <2>1. UartRegion.address = UART /\ End(UartRegion) = UART + UART_SIZE
      BY DEF UartRegion, Region, End
    <2>2. UART >= UART /\ UART + UART_SIZE <= UART + UART_SIZE
      BY Constants
    <2> QED BY <2>1, <2>2, OwnRead DEF Spans
  <1>6. Spans(layout.virtio, VIRTIO_BASE, GIC_REDIST)
    <2> SUFFICES ASSUME NEW i \in 1..Len(layout.virtio)
                 PROVE  /\ layout.virtio[i].address >= VIRTIO_BASE
                        /\ End(layout.virtio[i]) <= GIC_REDIST
      BY DEF Spans
    <2>1. i \in 1..needs.devices /\ layout.virtio[i] = VirtioRegions(needs.devices)[i]
      BY OwnRead
    <2>2. /\ VIRTIO_BASE <= VirtioRegions(needs.devices)[i].address
          /\ End(VirtioRegions(needs.devices)[i]) <= GIC_REDIST
      BY <1>3, <2>1, WindowPlaces
    <2> QED BY <2>1, <2>2
  <1>7. Spans(layout.hotplug, RAM + RamSize, Top)
    <2> SUFFICES ASSUME NEW i \in 1..Len(layout.hotplug)
                 PROVE  /\ layout.hotplug[i].address >= RAM + RamSize
                        /\ End(layout.hotplug[i]) <= Top
      BY DEF Spans
    <2>1. i \in 1..Len(HvfHotplug) /\ layout.hotplug[i] = HvfHotplug[i]
      BY OwnRead
    <2>2. RAM + RamSize <= HvfHotplug[i].address /\ End(HvfHotplug[i]) <= Top
      BY <1>1, <2>1, HotplugPlace
    <2> QED BY <2>1, <2>2
  <1>8. /\ GIC_DIST + DistSize <= UART /\ UART + UART_SIZE <= VIRTIO_BASE /\ GIC_REDIST < RAM
        /\ VIRTIO_BASE <= GIC_REDIST
    <2>1. /\ VIRTIO_BASE + (IrqEnd - VIRTIO_IRQ_BASE) * VIRTIO_STRIDE <= GIC_REDIST
          /\ VIRTIO_IRQ_BASE <= IrqEnd
          /\ GIC_DIST + DistSize <= UART /\ UART + UART_SIZE <= VIRTIO_BASE /\ GIC_REDIST < RAM
      BY LayoutAssumption
    <2>2. IrqEnd - VIRTIO_IRQ_BASE \in Nat
      BY <2>1, Constants
    <2>3. (IrqEnd - VIRTIO_IRQ_BASE) * VIRTIO_STRIDE \in Nat
      BY <2>2, Constants
    <2> QED BY <2>1, <2>3, Constants
  <1> QED BY <1>2, <1>4, <1>5, <1>6, <1>7, <1>8

\* All the regions of the built-in layout, read or not, are sound.
LEMMA OwnSoundSoFar ==
  ASSUME ValidInv, host # None, Planned, Own
  PROVE  Sound(AllRead)
  <1>1. /\ Spans(layout.ram, RAM, RAM + RamSize)
        /\ Spans(layout.uart, UART, UART + UART_SIZE)
        /\ Spans(layout.virtio, VIRTIO_BASE, GIC_REDIST)
        /\ Spans(layout.hotplug, RAM + RamSize, Top)
    BY OwnPlaces
  <1>2. /\ RamSize \in Nat /\ RAM + RamSize <= Top /\ RamSize > 0
        /\ UART + UART_SIZE <= VIRTIO_BASE
        /\ VIRTIO_BASE <= GIC_REDIST /\ GIC_REDIST < RAM
    BY OwnPlaces
  <1>3. /\ RAM \in Nat /\ UART \in Nat /\ UART_SIZE \in Nat /\ VIRTIO_BASE \in Nat
        /\ GIC_REDIST \in Nat /\ Top \in Nat /\ UartMin \in Nat
    BY Constants
  <1>4. /\ layout.ram \in Seq(RegionType) /\ layout.uart \in Seq(RegionType)
        /\ layout.virtio \in Seq(RegionType) /\ layout.hotplug \in Seq(RegionType)
    BY ReadTyped DEF ValidInv, PlanOK
  <1>5. HvfFits /\ LayoutTypeOK /\ needs.devices \in Nat /\ VirtioFits(needs.devices)
    BY Inputs DEF Own, ValidInv, HvfFits
  <1> DEFINE a == layout.ram
             b == layout.uart
             c == layout.virtio
             d == layout.hotplug
  <1>6. /\ RAM + RamSize \in Int /\ UART + UART_SIZE \in Int /\ RAM \in Int /\ UART \in Int
        /\ VIRTIO_BASE \in Int /\ GIC_REDIST \in Int /\ Top \in Int
        /\ UART + UART_SIZE <= RAM /\ GIC_REDIST <= RAM
        /\ UART + UART_SIZE <= RAM + RamSize /\ GIC_REDIST <= RAM + RamSize
    BY <1>2, <1>3
  <1>7. Cross(a, b) /\ Cross(a, c) /\ Cross(b, c) /\ Cross(a, d) /\ Cross(b, d) /\ Cross(c, d)
    <2>1. Cross(a, b)
      BY <1>1, <1>4, <1>6, SpansApart
    <2>2. Cross(a, c)
      BY <1>1, <1>4, <1>6, SpansApart
    <2>3. Cross(b, c)
      BY <1>1, <1>2, <1>4, <1>6, SpansApart
    <2>4. Cross(a, d)
      <3>1. RAM + RamSize <= RAM + RamSize
        BY <1>6
      <3> QED BY <1>1, <1>4, <1>6, <3>1, SpansApart
    <2>5. Cross(b, d)
      BY <1>1, <1>4, <1>6, SpansApart
    <2>6. Cross(c, d)
      BY <1>1, <1>4, <1>6, SpansApart
    <2> QED BY <2>1, <2>2, <2>3, <2>4, <2>5, <2>6
  <1>8. Disjoint(a) /\ Disjoint(b)
    BY <1>4, DisjointOne, OwnRead
  <1>9. Disjoint(d)
    <2>1. Len(d) <= Len(HvfHotplug) /\ Len(HvfHotplug) <= 1
      BY <1>5, OwnRead, HvfPlanTyped, Inputs
    <2>2. Len(d) \in Nat /\ Len(HvfHotplug) \in Nat
      BY <1>4, <1>5, HvfPlanTyped, Inputs
    <2>3. Len(d) <= 1
      BY <2>1, <2>2
    <2> QED BY <1>4, <2>3, DisjointOne
  <1>10. Disjoint(c)
    <2> SUFFICES ASSUME NEW i \in 1..Len(c), NEW j \in 1..Len(c), i # j
                 PROVE  Cells(c[i]) \cap Cells(c[j]) = {}
      BY DEF Disjoint
    <2> DEFINE n == needs.devices
    <2>1. /\ i \in 1..n /\ c[i] = VirtioRegions(n)[i]
          /\ j \in 1..n /\ c[j] = VirtioRegions(n)[j]
      BY OwnRead
    <2>2. c[i] \in RegionType /\ c[j] \in RegionType
      BY <1>4, ElementOfSeq
    <2>3. /\ i < j => End(c[i]) <= c[j].address
          /\ j < i => End(c[j]) <= c[i].address
      BY <1>5, <2>1, WindowPlaces
    <2>4. i < j \/ j < i
      BY <1>5, <2>1
    <2> QED BY <2>2, <2>3, <2>4, OrderedApart
  <1>11. \A i \in 1..Len(a) : Inside(a[i])
    <2>1. Inside(HvfRam)
      <3>1. HvfRam.size = RamSize /\ HvfRam.space = "Mmio" /\ End(HvfRam) = RAM + RamSize
        BY DEF HvfRam, Region, End, RamSize
      <3> QED BY <1>2, <3>1 DEF Inside
    <2> QED BY <2>1, OwnRead
  <1>12. \A i \in 1..Len(b) : Inside(b[i])
    <2>1. Inside(UartRegion)
      <3>1. /\ UartRegion.size = UART_SIZE /\ UartRegion.space = "Mmio"
            /\ End(UartRegion) = UART + UART_SIZE
        BY DEF UartRegion, Region, End
      <3>2. UART_SIZE > 0
        BY <1>3, LayoutAssumption
      <3>3. UART + UART_SIZE <= Top
        BY <1>2, <1>3
      <3> QED BY <3>1, <3>2, <3>3 DEF Inside
    <2> QED BY <2>1, OwnRead
  <1>13. \A i \in 1..Len(c) : Inside(c[i])
    <2> TAKE i \in 1..Len(c)
    <2> DEFINE n == needs.devices
               r == VirtioRegions(n)[i]
    <2>1. i \in 1..n /\ c[i] = r
      BY OwnRead
    <2>2. r.space = "Mmio" /\ r.size > 0 /\ End(r) <= GIC_REDIST /\ r \in RegionType
      BY <1>5, <2>1, WindowPlaces
    <2>3. End(r) \in Nat
      BY <2>2 DEF RegionType, End
    <2> HIDE DEF r
    <2>4. End(r) <= Top
      BY <1>2, <1>3, <2>2, <2>3
    <2> QED BY <2>1, <2>2, <2>4 DEF Inside
  <1>14. \A i \in 1..Len(d) : Inside(d[i])
    <2> TAKE i \in 1..Len(d)
    <2>1. i \in 1..Len(HvfHotplug) /\ d[i] = HvfHotplug[i]
      BY OwnRead
    <2>2. /\ HvfHotplug[i].space = "Mmio" /\ HvfHotplug[i].size > 0
          /\ End(HvfHotplug[i]) <= Top
      BY <1>5, <2>1, HotplugPlace
    <2> QED BY <2>1, <2>2 DEF Inside
  <1>15. AllRead = a \o b \o c \o d
    BY DEF AllRead
  <1> HIDE DEF a, b, c, d
  <1>16. a \in Seq(RegionType) /\ b \in Seq(RegionType) /\ c \in Seq(RegionType)
         /\ d \in Seq(RegionType)
    BY <1>4 DEF a, b, c, d
  <1>17. a \o b \in Seq(RegionType) /\ Disjoint(a \o b) /\ Cross(a \o b, c) /\ Cross(a \o b, d)
         /\ \A i \in 1..Len(a \o b) : Inside((a \o b)[i])
    <2>1. a \o b \in Seq(RegionType) /\ Disjoint(a \o b)
      BY <1>7, <1>8, <1>16, DisjointConcat
    <2>2. Cross(a \o b, c)
      BY <1>7, <1>16, CrossConcat
    <2>3. Cross(a \o b, d)
      BY <1>7, <1>16, CrossConcat
    <2>4. \A i \in 1..Len(a \o b) : Inside((a \o b)[i])
      BY <1>11, <1>12, <1>16, InsideConcat
    <2> QED BY <2>1, <2>2, <2>3, <2>4
  <1> DEFINE ab == a \o b
  <1>18. /\ ab \in Seq(RegionType) /\ Disjoint(ab) /\ Cross(ab, c) /\ Cross(ab, d)
         /\ \A i \in 1..Len(ab) : Inside(ab[i])
    BY <1>17
  <1>19. AllRead = ab \o c \o d
    BY <1>15
  <1> HIDE DEF ab
  <1> DEFINE abc == ab \o c
  <1>20. /\ abc \in Seq(RegionType) /\ Disjoint(abc) /\ Cross(abc, d)
         /\ \A i \in 1..Len(abc) : Inside(abc[i])
    <2>1. abc \in Seq(RegionType) /\ Disjoint(abc)
      BY <1>10, <1>16, <1>18, DisjointConcat
    <2>2. Cross(abc, d)
      BY <1>7, <1>16, <1>18, CrossConcat
    <2>3. \A i \in 1..Len(abc) : Inside(abc[i])
      BY <1>13, <1>16, <1>18, InsideConcat
    <2> QED BY <2>1, <2>2, <2>3
  <1>21. AllRead = abc \o d
    BY <1>19
  <1> HIDE DEF abc
  <1>22. Disjoint(abc \o d)
    BY <1>9, <1>16, <1>20, DisjointConcat
  <1>23. \A i \in 1..Len(abc \o d) : Inside((abc \o d)[i])
    BY <1>14, <1>16, <1>20, InsideConcat
  <1> QED BY <1>21, <1>22, <1>23 DEF Sound, Disjoint

\* validate finds no defect in the built-in layout, however much of it was read.
LEMMA OwnAcceptable ==
  ASSUME ValidInv, host # None, Planned, Own
  PROVE  Acceptable
  <1>1. HvfFits /\ plan = HvfPlan /\ LayoutTypeOK /\ layout \in LayoutType
    BY DEF Own, ValidInv, PlanOK
  <1>2. config \in Configs /\ needs \in Needs /\ needs.devices \in Nat /\ config.vcpus \in Nat
    BY <1>1, Inputs
  <1>3. /\ plan.ram = <<HvfRam>> /\ plan.uart = <<UartRegion>> /\ plan.hotplug = HvfHotplug
        /\ plan.virtio = VirtioRegions(needs.devices) /\ HvfRam \in RegionType
        /\ Len(VirtioRegions(needs.devices)) = needs.devices
    BY <1>1, <1>2, HvfPlanTyped DEF UartRegion
  <1>4. /\ layout.ram \in Seq(RegionType) /\ layout.virtio \in Seq(RegionType)
        /\ layout.hotplug \in Seq(RegionType) /\ AllRead \in Seq(RegionType)
        /\ DOMAIN layout.virtio = 1..Len(layout.virtio)
        /\ DOMAIN layout.hotplug = 1..Len(layout.hotplug)
        /\ DOMAIN layout.ram = 1..Len(layout.ram)
    BY <1>1, ReadTyped
  <1>5. Shape
    <2>1. config.vcpus > 0
      BY <1>1, <1>2 DEF HvfFits
    <2>2. plan.ram # <<>>
      BY <1>3
    <2>3. plan.uart[1].size >= UartMin
      <3>1. plan.uart[1].size = UART_SIZE
        BY <1>3 DEF UartRegion, Region
      <3>2. UartMin <= UART_SIZE
        BY LayoutAssumption
      <3> QED BY <3>1, <3>2, Constants
    <2>4. (plan.hotplug = <<>>) <=> (needs.hotplug = None)
      <3>1. needs.hotplug = None => HvfHotplug = <<>>
        BY DEF HvfHotplug
      <3>2. needs.hotplug # None => HvfHotplug # <<>>
        BY DEF HvfHotplug
      <3> QED BY <1>3, <3>1, <3>2
    <2>5. (plan.hotplug = <<>>) = (needs.hotplug = None)
      BY <2>4, Zenon
    <2> QED BY <1>3, <2>1, <2>2, <2>3, <2>5 DEF Shape
  <1>6. /\ Apart(AllRead)
        /\ \A i \in DOMAIN AllRead :
             LET r == AllRead[i]
             IN r.size > 0 /\ End(r) <= (IF r.space = "Port" /\ PortTop < Top THEN PortTop ELSE Top)
    BY <1>4, OwnSoundSoFar, SoundIs
  <1>7. Len(layout.ram) = Len(plan.ram) =>
          Cardinality(UNION {Cells(layout.ram[i]) : i \in DOMAIN layout.ram}) = config.mib * MIB
    <2> SUFFICES ASSUME Len(layout.ram) = Len(plan.ram)
                 PROVE  Cardinality(UNION {Cells(layout.ram[i]) : i \in DOMAIN layout.ram})
                          = config.mib * MIB
      OBVIOUS
    <2>1. Len(layout.ram) = 1
      BY <1>3
    <2>2. DOMAIN layout.ram = {1} /\ layout.ram[1] = HvfRam
      BY <1>4, <2>1, OwnRead
    <2>3. UNION {Cells(layout.ram[i]) : i \in DOMAIN layout.ram} = Cells(HvfRam)
      BY <2>2
    <2>4. HvfRam.size = RamSize
      BY DEF HvfRam, Region, RamSize
    <2>5. RamSize > 0
      BY OwnPlaces
    <2>6. Cardinality(Cells(HvfRam)) = RamSize
      BY <1>3, <2>4, <2>5, CellsCount
    <2> QED BY <2>3, <2>6 DEF RamSize
  <1>8. \A i \in DOMAIN layout.virtio :
          layout.virtio[i].space = "Mmio" /\ layout.virtio[i].size >= VirtioMin
    <2> TAKE i \in DOMAIN layout.virtio
    <2> DEFINE r == VirtioRegions(needs.devices)[i]
    <2>1. i \in 1..needs.devices /\ layout.virtio[i] = r
      BY <1>4, OwnRead
    <2>2. r.space = "Mmio" /\ r.size = VIRTIO_STRIDE
      BY <1>1, <1>2, <2>1, WindowPlaces DEF HvfFits
    <2>3. VIRTIO_STRIDE >= VirtioMin
      BY LayoutAssumption, Constants
    <2> QED BY <2>1, <2>2, <2>3
  <1>9. \A i \in DOMAIN layout.hotplug :
          /\ layout.hotplug[i].size = needs.hotplug.capacity
          /\ layout.hotplug[i].address % needs.hotplug.alignment = 0
    <2> TAKE i \in DOMAIN layout.hotplug
    <2>1. i \in 1..Len(HvfHotplug) /\ layout.hotplug[i] = HvfHotplug[i]
      BY <1>4, OwnRead
    <2> QED BY <1>1, <2>1, HotplugPlace
  <1> QED BY <1>5, <1>6, <1>7, <1>8, <1>9 DEF Acceptable

\* The built-in RAM can be mapped.
LEMMA OwnMaps ==
  ASSUME ValidInv, host # None, Planned, Own
  PROVE  \A i \in DOMAIN layout.ram : MapFits(layout.ram[i])
  <1> TAKE i \in DOMAIN layout.ram
  <1>1. HvfFits /\ LayoutTypeOK /\ layout \in LayoutType
    BY DEF Own, ValidInv, PlanOK
  <1>2. DOMAIN layout.ram = 1..Len(layout.ram)
    BY <1>1, ReadTyped
  <1>3. layout.ram[i] = HvfRam
    BY <1>2, OwnRead
  <1>4. HvfRam.address = RAM /\ HvfRam.size = config.mib * MIB
    BY DEF HvfRam, Region
  <1>5. RAM % Page = 0 /\ (config.mib * MIB) % Page = 0
    <2>1. Page \in Nat \ {0} /\ MIB \in Nat /\ MIB % Page = 0 /\ RAM % Page = 0
      BY LayoutAssumption, Constants
    <2>2. config.mib \in Nat
      BY <1>1, Inputs
    <2> QED BY <2>1, <2>2, MultiplesScale
  <1> QED BY <1>1, <1>3, <1>4, <1>5 DEF MapFits, HvfFits

\* The built-in layout stays the one Hvf::layout checked, and no later step of the
\* start finds it wanting.
OwnInv ==
  /\ Own /\ Loaded
  /\ error \in Errors \cup {None}
  /\ host # None => error \notin {"map", "boot"}

\* validate's checks do not refuse it either.
LEMMA OwnIsAccepted ==
  ASSUME ValidInv, OwnInv
  PROVE  OwnLayoutAccepted
  <1> SUFFICES ASSUME host # None PROVE error \in {None, "layout", "device", "host"}
    BY DEF OwnLayoutAccepted
  <1>1. error \in {"counts", "region", "capacity", "hotplug"} => ~Acceptable
    BY DEF ValidInv, Refused
  <1>2. error # "attach" /\ error \notin {"map", "boot"}
    BY DEF ValidInv, Refused, OwnInv
  <1>3. ASSUME error \in {"counts", "region", "capacity", "hotplug"} PROVE FALSE
    <2>1. LayoutTypeOK /\ layout \in LayoutType /\ error # None
      BY <1>3, NoneApart DEF ValidInv, PlanOK, Errors
    <2>2. pc = "failed"
      BY <2>1, TypeIs
    <2>3. Planned
      BY <1>3, <2>2 DEF Planned
    <2> QED BY <1>1, <1>3, <2>3, OwnAcceptable DEF OwnInv
  <1> QED BY <1>2, <1>3 DEF OwnInv, Errors

\* The steps after the platform has returned its layout.
LEMMA LaterStep ==
  ASSUME ValidInv, Next, ~HvfLayout, ~CustomLayout
  PROVE  /\ config' = config /\ needs' = needs /\ host' = host /\ plan' = plan
         /\ pc \notin {"layout", "failed"}
         /\ ~Prepare => boot' = boot
         /\ pc \in {"ready", "ended"} => layout' = layout
         /\ ~Prepare /\ ~MapBase => error' \in (Errors \cup {None}) \ {"map", "boot"}
  <1>1. CASE CheckCounts \/ CheckTotal \/ Attach \/ DeviceFails \/ HostFails \/ PrepareCustom
    BY <1>1, NoneApart DEF CheckCounts, CheckTotal, Attach, DeviceFails, HostFails, PrepareCustom,
                           Check, Verdict, Errors
  <1>2. CASE MapBase
    BY <1>2 DEF MapBase, Check, Verdict
  <1>3. CASE AddRam \/ AddUart \/ AddVirtio
    BY <1>3, NoneApart DEF AddRam, AddUart, AddVirtio, Add, Verdict, Errors
  <1>4. CASE AddHotplug
    BY <1>4, NoneApart DEF AddHotplug, Add, Check, Verdict, Errors
  <1>5. CASE Prepare
    BY <1>5 DEF Prepare, Verdict
  <1>6. CASE (\E a \in Accesses : handle_io(a)) \/ IoFails \/ CompleteIo
    <2>1. /\ pc = "ready" /\ UNCHANGED <<config, needs, host, plan, layout, error, boot>>
      BY <1>6 DEF handle_io, IoFails, CompleteIo
    <2>2. error = None
      BY <2>1, Running
    <2> QED BY <2>1, <2>2, NoneApart DEF Errors
  <1> QED BY <1>1, <1>2, <1>3, <1>4, <1>5, <1>6 DEF Next

\* Every step keeps it.
LEMMA OwnNext ==
  ASSUME ValidInv, OwnInv, [Next]_vars
  PROVE  OwnInv'
  <1>0. ASSUME config' = config, needs' = needs, host' = host
        PROVE  (HvfFits <=> HvfFits') /\ HvfPlan' = HvfPlan
    BY <1>0 DEF HvfFits, HvfPlan, HvfRam, HvfHotplug
  <1>1. CASE UNCHANGED vars
    <2>1. /\ config' = config /\ needs' = needs /\ host' = host /\ plan' = plan
          /\ layout' = layout /\ pc' = pc /\ error' = error /\ boot' = boot
      BY <1>1 DEF vars
    <2>2. Own'
      BY <1>0, <2>1 DEF OwnInv, Own, Planned
    <2>3. Loaded'
      BY <2>1 DEF OwnInv, Loaded, PrepareFits, IrqsFit
    <2> QED BY <2>1, <2>2, <2>3 DEF OwnInv
  <1>2. CASE HvfLayout
    <2>1. /\ pc = "layout" /\ config' = config /\ needs' = needs /\ host' = host /\ boot' = boot
          /\ ~HvfFits => pc' = "failed" /\ error' = "layout" /\ plan' = None
          /\ HvfFits => pc' = "counts" /\ error' = None /\ plan' = HvfPlan
      BY <1>2 DEF HvfLayout, Verdict, HvfPlan
    <2>2. boot = None
      <3>1. LayoutTypeOK /\ layout \in LayoutType
        BY DEF ValidInv, PlanOK
      <3> QED BY <2>1, <3>1, TypeIs
    <2>3. Own'
      BY <1>0, <2>1 DEF Own, Planned
    <2>4. Loaded'
      BY <2>1, <2>2 DEF Loaded
    <2>5. error' \in (Errors \cup {None}) \ {"map", "boot"}
      BY <2>1, NoneApart DEF Errors
    <2> QED BY <2>3, <2>4, <2>5 DEF OwnInv
  <1>3. CASE CustomLayout
    <2>1. pc = "layout" /\ host = None /\ host' = host /\ boot' = boot /\ error' = None
      BY <1>3 DEF CustomLayout, Verdict
    <2>2. boot = None
      <3>1. LayoutTypeOK /\ layout \in LayoutType
        BY DEF ValidInv, PlanOK
      <3> QED BY <2>1, <3>1, TypeIs
    <2>3. Own' /\ Loaded'
      BY <2>1, <2>2 DEF Own, Loaded
    <2> QED BY <2>1, <2>3 DEF OwnInv
  <1>4. CASE Next /\ ~HvfLayout /\ ~CustomLayout
    <2>1. /\ config' = config /\ needs' = needs /\ host' = host /\ plan' = plan
          /\ pc \notin {"layout", "failed"}
          /\ ~Prepare => boot' = boot
          /\ pc \in {"ready", "ended"} => layout' = layout
          /\ ~Prepare /\ ~MapBase => error' \in (Errors \cup {None}) \ {"map", "boot"}
      BY <1>4, LaterStep
    <2>2. Planned /\ (pc \notin {"ready", "ended"} => boot = None)
      BY <2>1, Running
    <2>3. Own'
      BY <1>0, <2>1, <2>2 DEF OwnInv, Own
    <2>4. ASSUME ~Prepare PROVE Loaded'
      <3>1. CASE boot = None
        BY <2>1, <2>4, <3>1 DEF Loaded
      <3>2. CASE boot # None
        <4>1. layout' = layout /\ boot' = boot
          BY <2>1, <2>2, <2>4, <3>2
        <4> QED BY <2>1, <4>1 DEF OwnInv, Loaded, PrepareFits, IrqsFit
      <3> QED BY <3>1, <3>2
    <2>5. CASE MapBase
      <3>1. ~Prepare
        BY <2>5 DEF MapBase, Prepare
      <3> DEFINE ok == host = None \/ \A i \in DOMAIN layout.ram : MapFits(layout.ram[i])
      <3>2. error' = IF ok THEN None ELSE "map"
        BY <2>5 DEF MapBase, Check, Verdict
      <3>3. host # None => ok
        BY <2>2, OwnMaps DEF OwnInv
      <3> HIDE DEF ok
      <3>4. error' \in Errors \cup {None} /\ (host # None => error' \notin {"map", "boot"})
        BY <3>2, <3>3, NoneApart DEF Errors
      <3> QED BY <2>1, <2>3, <2>4, <3>1, <3>4 DEF OwnInv
    <2>6. CASE Prepare
      <3>1. PICK redist \in RedistSizes, spis \in SpiRanges, dtb \in DtbSizes :
              LET ok == BootFits(config.mib, host.kernel) /\ PrepareFits(redist, spis, dtb)
              IN /\ Verdict(ok, "ready",
                            IF BootFits(config.mib, host.kernel) THEN "host" ELSE "boot")
                 /\ boot' = IF ok THEN [redist |-> redist, spis |-> spis, dtbLen |-> dtb,
                                       entry |-> KernelEntry(host.kernel),
                                       initrd |-> Initrd(config.mib, host.kernel),
                                       dtb |-> Dtb(config.mib)]
                            ELSE None
                 /\ UNCHANGED <<plan, layout, ranges, total>>
        BY <2>6 DEF Prepare
      <3>2. redist \in Nat /\ dtb \in Nat
        BY InputAssumption
      <3>3. host # None /\ layout' = layout
        BY <2>6 DEF Prepare
      <3>4. BootFits(config.mib, host.kernel)
        BY <2>2, <3>3 DEF OwnInv, Own, HvfFits
      <3>5. error' \in {None, "host"}
        BY <3>1, <3>4 DEF Verdict
      <3>6. CASE PrepareFits(redist, spis, dtb)
        <4>1. boot' = [redist |-> redist, spis |-> spis, dtbLen |-> dtb,
                       entry |-> KernelEntry(host.kernel),
                       initrd |-> Initrd(config.mib, host.kernel), dtb |-> Dtb(config.mib)]
          BY <3>1, <3>4, <3>6
        <4>2. /\ boot'.redist = redist /\ boot'.spis = spis /\ boot'.dtbLen = dtb
              /\ boot'.entry = KernelEntry(host.kernel)
              /\ boot'.initrd = Initrd(config.mib, host.kernel) /\ boot'.dtb = Dtb(config.mib)
          BY <4>1
        <4>3. Loaded'
          BY <2>1, <3>2, <3>3, <3>6, <4>2 DEF Loaded, PrepareFits, IrqsFit
        <4> QED BY <2>3, <3>5, <4>3, NoneApart DEF OwnInv, Errors
      <3>7. CASE ~PrepareFits(redist, spis, dtb)
        <4>1. boot' = None
          BY <3>1, <3>7
        <4>2. Loaded'
          BY <4>1 DEF Loaded
        <4> QED BY <2>3, <3>5, <4>2, NoneApart DEF OwnInv, Errors
      <3> QED BY <3>6, <3>7
    <2>7. CASE ~Prepare /\ ~MapBase
      BY <2>1, <2>3, <2>4, <2>7 DEF OwnInv
    <2> QED BY <2>5, <2>6, <2>7
  <1> QED BY <1>1, <1>2, <1>3, <1>4

\* A region inside another, by its bytes.
LEMMA CellsWithin ==
  ASSUME NEW r \in RegionType, NEW s \in RegionType, r.space = s.space,
         s.address <= r.address, End(r) <= End(s)
  PROVE  Cells(r) \subseteq Cells(s)
  <1>1. r.address \in Nat /\ r.size \in Nat /\ s.address \in Nat /\ s.size \in Nat
    BY DEF RegionType
  <1>2. r.address + r.size <= s.address + s.size
    BY DEF End
  <1>3. r.address..(r.address + r.size - 1) \subseteq s.address..(s.address + s.size - 1)
    BY <1>1, <1>2
  <1> QED BY <1>3 DEF Cells

\* Having no byte in common is symmetric.
LEMMA CrossSym ==
  ASSUME NEW a, NEW b, Cross(a, b)
  PROVE  Cross(b, a)
  <1> SUFFICES ASSUME NEW i \in 1..Len(b), NEW j \in 1..Len(a)
               PROVE  Cells(b[i]) \cap Cells(a[j]) = {}
    BY DEF Cross
  <1>1. Cells(a[j]) \cap Cells(b[i]) = {}
    BY DEF Cross
  <1> QED BY <1>1

\* A list of one region.
LEMMA SingleSpans ==
  ASSUME NEW r \in RegionType
  PROVE  /\ <<r>> \in Seq(RegionType) /\ Disjoint(<<r>>) /\ Spans(<<r>>, r.address, End(r))
         /\ r.address \in Int /\ End(r) \in Int
  <1>1. <<r>> \in Seq(RegionType) /\ Len(<<r>>) = 1 /\ <<r>>[1] = r
    OBVIOUS
  <1>2. r.address \in Nat /\ r.size \in Nat
    BY DEF RegionType
  <1>3. r.address \in Int /\ End(r) \in Int
    BY <1>2 DEF End
  <1>4. Spans(<<r>>, r.address, End(r))
    <2>1. \A i \in 1..1 : i = 1
      OBVIOUS
    <2>2. r.address >= r.address /\ End(r) <= End(r)
      BY <1>3
    <2> QED BY <1>1, <2>1, <2>2 DEF Spans
  <1>5. Disjoint(<<r>>)
    <2> DEFINE q == <<r>>
    <2>1. q \in Seq(RegionType) /\ Len(q) <= 1
      BY <1>1
    <2> HIDE DEF q
    <2>2. Disjoint(q)
      BY <2>1, DisjointOne
    <2> QED BY <2>2 DEF q
  <1> QED BY <1>1, <1>3, <1>4, <1>5

\* A region apart from every list of the layout is apart from all of it.
LEMMA ApartFromAll ==
  ASSUME layout \in LayoutType, NEW g,
         g \in Seq(RegionType), Cross(layout.ram, g), Cross(layout.uart, g),
         Cross(layout.virtio, g), Cross(layout.hotplug, g)
  PROVE  Cross(AllRead, g)
  <1> DEFINE a == layout.ram
             b == layout.uart
             c == layout.virtio
             d == layout.hotplug
  <1>1. /\ a \in Seq(RegionType) /\ b \in Seq(RegionType) /\ c \in Seq(RegionType)
        /\ d \in Seq(RegionType) /\ Cross(a, g) /\ Cross(b, g) /\ Cross(c, g) /\ Cross(d, g)
    BY ReadTyped
  <1>2. AllRead = a \o b \o c \o d
    BY DEF AllRead
  <1> HIDE DEF a, b, c, d
  <1>3. \A p, q \in Seq(RegionType) :
          Cross(p, g) /\ Cross(q, g) => p \o q \in Seq(RegionType) /\ Cross(p \o q, g)
    BY EmptyEnds, CrossConcat
  <1>4. a \o b \in Seq(RegionType) /\ Cross(a \o b, g)
    BY <1>1, <1>3
  <1>5. a \o b \o c \in Seq(RegionType) /\ Cross(a \o b \o c, g)
    BY <1>1, <1>3, <1>4
  <1> QED BY <1>1, <1>2, <1>3, <1>5

\* The GIC's windows meet nothing of the built-in layout.
LEMMA GicApart ==
  ASSUME ValidInv, host # None, Planned, Own, NEW redist \in Nat, GicFits(redist),
         NEW gic, gic = <<Region("Mmio", GIC_DIST, DistSize, 0), Region("Mmio", GIC_REDIST, redist, 0)>>
  PROVE  Apart(gic \o AllRead)
  <1> DEFINE d == Region("Mmio", GIC_DIST, DistSize, 0)
             r == Region("Mmio", GIC_REDIST, redist, 0)
  <1>1. d \in RegionType /\ r \in RegionType
    BY Constants DEF Region, RegionType, Spaces
  <1>2. /\ d.address = GIC_DIST /\ End(d) = GIC_DIST + DistSize
        /\ r.address = GIC_REDIST /\ End(r) = GIC_REDIST + redist
    BY DEF Region, End
  <1>3. /\ Spans(layout.ram, RAM, RAM + RamSize)
        /\ Spans(layout.uart, UART, UART + UART_SIZE)
        /\ Spans(layout.virtio, VIRTIO_BASE, GIC_REDIST)
        /\ Spans(layout.hotplug, RAM + RamSize, Top)
    BY OwnPlaces
  <1>4. /\ RamSize \in Nat /\ RamSize > 0 /\ GIC_DIST + DistSize <= UART
        /\ UART + UART_SIZE <= VIRTIO_BASE /\ VIRTIO_BASE <= GIC_REDIST /\ GIC_REDIST < RAM
    BY OwnPlaces
  <1>5. GIC_REDIST + redist <= RAM
    BY DEF GicFits
  <1>6. /\ layout.ram \in Seq(RegionType) /\ layout.uart \in Seq(RegionType)
        /\ layout.virtio \in Seq(RegionType) /\ layout.hotplug \in Seq(RegionType)
        /\ AllRead \in Seq(RegionType) /\ layout \in LayoutType
    BY ReadTyped DEF ValidInv, PlanOK
  <1>7. /\ RAM \in Nat /\ UART \in Nat /\ UART_SIZE \in Nat /\ VIRTIO_BASE \in Nat /\ Top \in Nat
        /\ GIC_REDIST \in Nat /\ GIC_DIST \in Nat /\ DistSize \in Nat
    BY Constants
  <1> DEFINE de == GIC_DIST + DistSize
             re == GIC_REDIST + redist
             ue == UART + UART_SIZE
             me == RAM + RamSize
  <1>8. /\ de \in Int /\ re \in Int /\ ue \in Int /\ me \in Int
        /\ RAM \in Int /\ UART \in Int /\ VIRTIO_BASE \in Int /\ Top \in Int
        /\ GIC_REDIST \in Int /\ GIC_DIST \in Int
    BY <1>4, <1>7
  <1>9. /\ de <= RAM /\ de <= UART /\ de <= VIRTIO_BASE /\ de <= me /\ de <= GIC_REDIST
        /\ re <= RAM /\ re <= me /\ ue <= GIC_REDIST /\ GIC_REDIST <= GIC_REDIST
    BY <1>4, <1>5, <1>7
  <1>10. /\ <<d>> \in Seq(RegionType) /\ Disjoint(<<d>>) /\ Spans(<<d>>, GIC_DIST, de)
         /\ <<r>> \in Seq(RegionType) /\ Disjoint(<<r>>) /\ Spans(<<r>>, GIC_REDIST, re)
    <2> HIDE DEF d, r
    <2> QED BY <1>1, <1>2, SingleSpans
  <1>11. gic = <<d>> \o <<r>>
    OBVIOUS
  <1>12. Spans(layout.uart, UART, ue) /\ Spans(layout.ram, RAM, me) /\ Spans(layout.hotplug, me, Top)
    BY <1>3
  <1> HIDE DEF d, r, de, re, ue, me
  <1>13. Cross(AllRead, <<d>>)
    <2>1. Cross(layout.ram, <<d>>)
      BY <1>6, <1>8, <1>9, <1>10, <1>12, SpansApart
    <2>2. Cross(layout.uart, <<d>>)
      BY <1>6, <1>8, <1>9, <1>10, <1>12, SpansApart
    <2>3. Cross(layout.virtio, <<d>>)
      BY <1>3, <1>6, <1>8, <1>9, <1>10, SpansApart
    <2>4. Cross(layout.hotplug, <<d>>)
      BY <1>6, <1>8, <1>9, <1>10, <1>12, SpansApart
    <2> QED BY <1>6, <1>10, <2>1, <2>2, <2>3, <2>4, ApartFromAll
  <1>14. Cross(AllRead, <<r>>)
    <2>1. Cross(layout.ram, <<r>>)
      BY <1>6, <1>8, <1>9, <1>10, <1>12, SpansApart
    <2>2. Cross(layout.uart, <<r>>)
      BY <1>6, <1>8, <1>9, <1>10, <1>12, SpansApart
    <2>3. Cross(layout.virtio, <<r>>)
      BY <1>3, <1>6, <1>8, <1>9, <1>10, SpansApart
    <2>4. Cross(layout.hotplug, <<r>>)
      BY <1>6, <1>8, <1>9, <1>10, <1>12, SpansApart
    <2> QED BY <1>6, <1>10, <2>1, <2>2, <2>3, <2>4, ApartFromAll
  <1>15. Cross(<<d>>, <<r>>)
    BY <1>8, <1>9, <1>10, SpansApart
  <1>16. gic \in Seq(RegionType) /\ Disjoint(gic)
    BY <1>10, <1>11, <1>15, DisjointConcat
  <1> DEFINE x == <<d>>
             y == <<r>>
             all == AllRead
  <1>17. /\ x \in Seq(RegionType) /\ y \in Seq(RegionType) /\ all \in Seq(RegionType)
         /\ Cross(all, x) /\ Cross(all, y) /\ gic = x \o y
    BY <1>6, <1>10, <1>11, <1>13, <1>14
  <1>18. Disjoint(all)
    BY OwnSoundSoFar DEF Sound, Disjoint
  <1> HIDE DEF x, y, all
  <1>19. Cross(x, all) /\ Cross(y, all)
    BY <1>17, CrossSym
  <1>20. Cross(gic, all)
    BY <1>17, <1>19, CrossConcat
  <1>21. gic \o all \in Seq(RegionType) /\ Disjoint(gic \o all)
    BY <1>16, <1>17, <1>18, <1>20, DisjointConcat
  <1>22. Apart(gic \o all)
    <2> DEFINE q == gic \o all
    <2>1. DOMAIN q = 1..Len(q) /\ Disjoint(q)
      BY <1>21
    <2> HIDE DEF q
    <2> QED BY <2>1 DEF Apart, Disjoint, q
  <1> QED BY <1>22 DEF all

\* Every device of the built-in layout has an interrupt of its own that the GIC has.
LEMMA OwnInterrupts ==
  ASSUME ValidInv, host # None, Planned, Own, pc \in Accepted, NEW spis, IrqsFit(spis)
  PROVE  \A i, j \in DOMAIN Devs :
           Devs[i].irq \in spis /\ (i # j => Devs[i].irq # Devs[j].irq)
  <1>1. /\ DOMAIN Devs = 1..(Len(layout.virtio) + 1) /\ Len(layout.virtio) \in Nat
        /\ DOMAIN layout.virtio = 1..Len(layout.virtio) /\ Devs[1] = Uart
    BY DevicesApart
  <1>2. \A i \in 1..Len(layout.virtio) : Devs[i + 1] = layout.virtio[i]
    BY DevicesApart
  <1>3. Uart.irq = UART_IRQ
    <2>1. layout.uart = <<plan.uart[1]>> /\ plan = HvfPlan /\ LayoutTypeOK
      BY DEF ValidInv, Stage, Accepted, Own
    <2>2. config \in Configs /\ needs \in Needs
      BY <2>1, Inputs
    <2>3. plan.uart = <<UartRegion>>
      BY <2>1, <2>2, HvfPlanTyped DEF UartRegion
    <2>4. Uart = UartRegion
      BY <2>1, <2>3 DEF Uart
    <2> QED BY <2>4 DEF UartRegion, Region
  <1>4. HvfFits /\ needs.devices \in Nat
    BY Inputs DEF Own, ValidInv
  <1>5. \A i \in 1..Len(layout.virtio) :
          layout.virtio[i].irq = VIRTIO_IRQ_BASE + (i - 1) /\ layout.virtio[i].irq \in spis
    <2> TAKE i \in 1..Len(layout.virtio)
    <2>1. i \in 1..needs.devices /\ layout.virtio[i] = VirtioRegions(needs.devices)[i]
      BY OwnRead
    <2>2. VirtioRegions(needs.devices)[i].irq = VIRTIO_IRQ_BASE + (i - 1)
      BY <1>4, <2>1, WindowPlaces DEF HvfFits
    <2> QED BY <1>1, <2>1, <2>2 DEF IrqsFit
  <1>6. UART_IRQ \in spis /\ UART_IRQ < VIRTIO_IRQ_BASE /\ UART_IRQ \in Nat
        /\ VIRTIO_IRQ_BASE \in Nat
    BY LayoutAssumption, Constants DEF IrqsFit
  <1>7. \A i \in 1..(Len(layout.virtio) + 1) :
          /\ Devs[i].irq \in spis
          /\ i = 1 => Devs[i].irq = UART_IRQ
          /\ i # 1 => Devs[i].irq = VIRTIO_IRQ_BASE + (i - 2)
    <2> TAKE i \in 1..(Len(layout.virtio) + 1)
    <2>1. CASE i = 1
      BY <1>1, <1>3, <1>6, <2>1
    <2>2. CASE i # 1
      <3>1. i - 1 \in 1..Len(layout.virtio) /\ i = (i - 1) + 1 /\ (i - 1) - 1 = i - 2
        BY <1>1, <2>2
      <3>2. PICK k \in 1..Len(layout.virtio) : i = k + 1 /\ k - 1 = i - 2
        BY <3>1
      <3>3. Devs[i] = layout.virtio[k]
        BY <1>2, <3>2
      <3>4. Devs[i].irq = VIRTIO_IRQ_BASE + (k - 1) /\ Devs[i].irq \in spis
        BY <1>5, <3>3
      <3> QED BY <2>2, <3>2, <3>4
    <2> QED BY <2>1, <2>2
  <1>8. ASSUME NEW i \in 1..(Len(layout.virtio) + 1), NEW j \in 1..(Len(layout.virtio) + 1), i # j
        PROVE  Devs[i].irq # Devs[j].irq
    <2>1. CASE i = 1
      <3>1. Devs[i].irq = UART_IRQ /\ Devs[j].irq = VIRTIO_IRQ_BASE + (j - 2) /\ j >= 2
        BY <1>1, <1>7, <1>8, <2>1
      <3>2. UART_IRQ # VIRTIO_IRQ_BASE + (j - 2)
        BY <1>1, <1>6, <3>1
      <3> QED BY <3>1, <3>2
    <2>2. CASE j = 1
      <3>1. Devs[j].irq = UART_IRQ /\ Devs[i].irq = VIRTIO_IRQ_BASE + (i - 2) /\ i >= 2
        BY <1>1, <1>7, <1>8, <2>2
      <3>2. UART_IRQ # VIRTIO_IRQ_BASE + (i - 2)
        BY <1>1, <1>6, <3>1
      <3> QED BY <3>1, <3>2
    <2>3. CASE i # 1 /\ j # 1
      <3>1. Devs[i].irq = VIRTIO_IRQ_BASE + (i - 2) /\ Devs[j].irq = VIRTIO_IRQ_BASE + (j - 2)
        BY <1>7, <2>3
      <3>2. VIRTIO_IRQ_BASE + (i - 2) # VIRTIO_IRQ_BASE + (j - 2)
        BY <1>1, <1>6, <1>8
      <3> QED BY <3>1, <3>2
    <2> QED BY <2>1, <2>2, <2>3
  <1> QED BY <1>1, <1>7, <1>8

\* What prepare loads has its place in the RAM.
LEMMA ImagesApart ==
  ASSUME ValidInv, host # None, Planned, Own, NEW len \in Nat, LoadFits(len), NEW images,
         images = <<Region("Mmio", KernelEntry(host.kernel), KernelLen(host.kernel), 0),
                    Region("Mmio", Initrd(config.mib, host.kernel), host.kernel.initrd, 0),
                    Region("Mmio", Dtb(config.mib), len, 0)>>
  PROVE  Apart(images) /\ \A i \in DOMAIN images : Cells(images[i]) \subseteq Cells(HvfRam)
  <1> DEFINE e == KernelEntry(host.kernel)
             n == KernelLen(host.kernel)
             m == Initrd(config.mib, host.kernel)
             z == host.kernel.initrd
             t == Dtb(config.mib)
             end == RAM + RamSize
             r1 == Region("Mmio", e, n, 0)
             r2 == Region("Mmio", m, z, 0)
             r3 == Region("Mmio", t, len, 0)
  <1>1. LayoutTypeOK /\ BootFits(config.mib, host.kernel)
    BY DEF ValidInv, Own, HvfFits
  <1>2. /\ RamSize \in Nat /\ e \in Nat /\ RAM <= e /\ n \in Nat /\ z \in Nat /\ e + n <= m
        /\ m \in Nat /\ m + z <= t /\ t \in Nat /\ t + DtbSpace = end
    BY <1>1, BootPlaces
  <1>3. RAM \in Nat /\ DtbSpace \in Nat /\ len <= DtbSpace
    BY Constants DEF LoadFits
  <1>4. images = <<r1, r2, r3>>
    OBVIOUS
  <1>5. config \in Configs /\ needs \in Needs
    BY <1>1, Inputs
  <1>6. HvfRam \in RegionType
    BY <1>5, HvfPlanTyped
  <1>7. HvfRam.space = "Mmio" /\ HvfRam.address = RAM /\ End(HvfRam) = end
    BY DEF HvfRam, Region, End, RamSize
  <1> HIDE DEF e, n, m, z, t, end
  <1>8. r1 \in RegionType /\ r2 \in RegionType /\ r3 \in RegionType
    BY <1>2 DEF Region, RegionType, Spaces
  <1>9. /\ r1.space = "Mmio" /\ r1.address = e /\ End(r1) = e + n
        /\ r2.space = "Mmio" /\ r2.address = m /\ End(r2) = m + z
        /\ r3.space = "Mmio" /\ r3.address = t /\ End(r3) = t + len
    BY DEF Region, End
  <1> HIDE DEF r1, r2, r3
  <1>10. /\ end \in Nat /\ e + n <= end /\ m + z <= end /\ t + len <= end
         /\ RAM <= m /\ RAM <= t /\ e + n <= t
    <2>1. end \in Nat
      BY <1>2, <1>3 DEF end
    <2> QED BY <1>2, <1>3, <2>1
  <1>11. /\ Cells(r1) \subseteq Cells(HvfRam) /\ Cells(r2) \subseteq Cells(HvfRam)
         /\ Cells(r3) \subseteq Cells(HvfRam)
    BY <1>2, <1>6, <1>7, <1>8, <1>9, <1>10, CellsWithin
  <1>12. /\ Cells(r1) \cap Cells(r2) = {} /\ Cells(r1) \cap Cells(r3) = {}
         /\ Cells(r2) \cap Cells(r3) = {}
    BY <1>2, <1>8, <1>9, <1>10, OrderedApart
  <1>13. /\ Cells(r2) \cap Cells(r1) = {} /\ Cells(r3) \cap Cells(r1) = {}
         /\ Cells(r3) \cap Cells(r2) = {}
    BY <1>12
  <1>14. DOMAIN images = {1, 2, 3} /\ images[1] = r1 /\ images[2] = r2 /\ images[3] = r3
    BY <1>4
  <1> QED BY <1>11, <1>12, <1>13, <1>14 DEF Apart

\* The library's own layout is sound in every state.
LEMMA OwnIsSound ==
  ASSUME ValidInv, OwnInv
  PROVE  OwnLayoutSound
  <1>1. OwnLayoutAccepted
    BY OwnIsAccepted
  <1>2. BootSound
    <2> SUFFICES ASSUME boot # None PROVE BootSound
      BY DEF BootSound
    <2>1. LayoutTypeOK /\ layout \in LayoutType
      BY DEF ValidInv, PlanOK
    <2>2. host # None /\ pc \in {"ready", "ended"}
      BY <2>1, TypeIs
    <2>3. pc \in Accepted /\ Planned /\ Own
      BY <2>2, Running DEF Accepted, OwnInv
    <2>4. /\ boot.redist \in Nat /\ boot.dtbLen \in Nat
          /\ GicFits(boot.redist) /\ IrqsFit(boot.spis) /\ LoadFits(boot.dtbLen)
          /\ boot.entry = KernelEntry(host.kernel)
          /\ boot.initrd = Initrd(config.mib, host.kernel) /\ boot.dtb = Dtb(config.mib)
      BY DEF OwnInv, Loaded, PrepareFits
    <2> DEFINE k == host.kernel
               images == <<Region("Mmio", boot.entry, IF k.size >= k.len THEN k.size ELSE k.len, 0),
                           Region("Mmio", boot.initrd, k.initrd, 0),
                           Region("Mmio", boot.dtb, boot.dtbLen, 0)>>
               gic == <<Region("Mmio", GIC_DIST, DistSize, 0),
                        Region("Mmio", GIC_REDIST, boot.redist, 0)>>
    <2>5. images = <<Region("Mmio", KernelEntry(k), KernelLen(k), 0),
                     Region("Mmio", Initrd(config.mib, k), k.initrd, 0),
                     Region("Mmio", Dtb(config.mib), boot.dtbLen, 0)>>
      BY <2>4, Zenon DEF KernelLen
    <2>6. Apart(images) /\ \A i \in DOMAIN images : Cells(images[i]) \subseteq Cells(HvfRam)
      <3> HIDE DEF images
      <3> QED BY <2>2, <2>3, <2>4, <2>5, ImagesApart
    <2>7. Apart(gic \o AllRead)
      <3>1. gic = <<Region("Mmio", GIC_DIST, DistSize, 0),
                    Region("Mmio", GIC_REDIST, boot.redist, 0)>>
        OBVIOUS
      <3> HIDE DEF gic
      <3> QED BY <2>2, <2>3, <2>4, <3>1, GicApart
    <2>8. layout.ram[1] = HvfRam
      <3>1. Len(layout.ram) = Len(plan.ram) /\ plan = HvfPlan
        BY <2>2, <2>3 DEF ValidInv, Stage, RamDone, Own
      <3>2. plan.ram = <<HvfRam>>
        BY <2>1, <3>1, Inputs, HvfPlanTyped
      <3>3. 1 \in 1..Len(layout.ram)
        BY <3>1, <3>2
      <3> QED BY <2>2, <2>3, <3>3, OwnRead
    <2>9. \A i, j \in DOMAIN Devs :
            Devs[i].irq \in boot.spis /\ (i # j => Devs[i].irq # Devs[j].irq)
      BY <2>2, <2>3, <2>4, OwnInterrupts
    <2>10. \A i \in DOMAIN images : Cells(images[i]) \subseteq Cells(layout.ram[1])
      BY <2>6, <2>8
    <2> QED BY <2>6, <2>7, <2>9, <2>10, Zenon DEF BootSound, Devs
  <1> QED BY <1>1, <1>2 DEF OwnLayoutSound

\* Whatever the kernel, the memory, the devices and the hotplug range: a layout that
\* Hvf::layout returns is accepted by validate, mapped, and booted from, with the
\* images inside the RAM, the GIC's windows and the interrupts apart.
THEOREM BuiltInLayoutIsSound == Spec => []OwnLayoutSound
  <1>1. Init => OwnInv
    BY NoneApart DEF Init, OwnInv, Own, Planned, Loaded, Errors
  <1>2. ValidInv /\ OwnInv /\ [Next]_vars => OwnInv'
    BY OwnNext
  <1>3. ValidInv /\ OwnInv => OwnLayoutSound
    BY OwnIsSound
  <1> QED BY <1>1, <1>2, <1>3, LayoutInvariant, PTL DEF Spec

=============================================================================
