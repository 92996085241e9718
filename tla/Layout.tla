------------------------------- MODULE Layout --------------------------------
(***************************************************************************)
(* The guest's address space, from the configuration to the decoding of an *)
(* access: what the runtime needs, the layout a platform offers (the built *)
(* in one, Hvf, or a custom one), MachineLayout::validate, attaching and   *)
(* mapping the memory, Hvf's prepare, and the device handle_io picks.      *)
(*                                                                         *)
(* Addresses are words 0..Top; an addition or a product past Top is the    *)
(* overflow the code's checked_ operations report.  A custom platform's    *)
(* regions are arbitrary: each is chosen when validate reads it, which no  *)
(* check can tell from a layout that was complete from the start.          *)
(***************************************************************************)
EXTENDS Integers, Sequences, FiniteSets

CONSTANTS
  WordBits,          \* 64 in the code
  PortTop,           \* 65536: ports end here
  UartMin,           \* 8: the registers of the UART
  VirtioMin,         \* 0x200: the smallest virtio-mmio window
  MIB,               \* bytes of a MiB
  MinMib,            \* 128: the least base memory the boot layout takes
  RAM, UART, UART_SIZE, VIRTIO_BASE, VIRTIO_STRIDE, GIC_DIST, GIC_REDIST,
  DistSize,          \* 0x10000: the distributor window the FDT declares
  UART_IRQ, VIRTIO_IRQ_BASE, IrqEnd,    \* 33, 34, 1020
  KernelAlign, InitrdAlign, DtbSpace,   \* 4096, 0x10000, 0x20_0000
  Page,              \* the host's page
  Widths,            \* 1, 2, 4, 8: the widths of a bus access
  Word,              \* 4: the width of a register
  ConfigBase, ConfigEnd,                \* 0x100, 0x1000: a device's configuration fields
  Starts,            \* configuration, needs and host a run may start from
  Regions,           \* the regions a custom platform picks from
  RamRegions,        \* how many RAM regions a custom platform may have
  RedistSizes, SpiRanges, DtbSizes,     \* answers of the framework and of FdtWriter
  Accesses,          \* the accesses of the guest
  Any, None

Top == 2 ^ WordBits - 1

\* The relations between the constants of boot.rs and platform/mod.rs that the
\* built-in layout rests on.
ASSUME LayoutAssumption ==
  /\ {WordBits, PortTop, UartMin, VirtioMin, MIB, MinMib, RAM, UART, UART_SIZE,
      VIRTIO_BASE, VIRTIO_STRIDE, GIC_DIST, GIC_REDIST, DistSize, UART_IRQ,
      VIRTIO_IRQ_BASE, IrqEnd, KernelAlign, InitrdAlign, DtbSpace, Page, Word,
      ConfigBase, ConfigEnd}
       \subseteq Nat
  /\ 0 < UartMin /\ UartMin <= UART_SIZE
  /\ 0 < VirtioMin /\ VirtioMin <= VIRTIO_STRIDE
  /\ 0 < MIB /\ DtbSpace <= MinMib * MIB
  /\ 0 < Page /\ RAM % Page = 0 /\ MIB % Page = 0
  /\ 0 < KernelAlign /\ 0 < InitrdAlign
  /\ GIC_DIST + DistSize <= UART /\ UART + UART_SIZE <= VIRTIO_BASE
  /\ VIRTIO_BASE + (IrqEnd - VIRTIO_IRQ_BASE) * VIRTIO_STRIDE <= GIC_REDIST
  /\ GIC_REDIST < RAM /\ RAM <= Top
  /\ UART_IRQ < VIRTIO_IRQ_BASE /\ VIRTIO_IRQ_BASE <= IrqEnd

\* The types of what comes from outside: u64 addresses and sizes, and a hotplug
\* range that VirtioMem::new has accepted, neither empty nor without alignment.
Spaces == {"Mmio", "Port"}
Configs == [vcpus : Nat, mib : Nat, strict : BOOLEAN]
Needs == [devices : Nat,
          hotplug : {None} \cup [capacity : Nat \ {0}, alignment : Nat \ {0}]]
Kernels == [valid : BOOLEAN, offset : Nat, size : Nat, len : Nat, initrd : Nat]
Hosts == {None} \cup [kernel : Kernels, bits : Nat, vcpus : Nat]
Errors == {"layout", "counts", "region", "capacity", "hotplug", "attach", "device",
           "map", "boot", "host"}

ASSUME InputAssumption ==
  /\ Starts \subseteq [config : Configs, needs : Needs, host : Hosts]
  /\ Regions \subseteq [space : Spaces, address : 0..Top, size : 0..Top, irq : Nat]
  /\ Accesses \subseteq [space : Spaces, address : 0..Top, width : Nat, write : BOOLEAN]
  /\ RamRegions \subseteq Nat /\ RedistSizes \subseteq Nat /\ DtbSizes \subseteq Nat
  /\ None \notin Errors /\ Any \notin [space : Spaces, address : Nat, size : Nat, irq : Nat]

VARIABLES
  config,   \* VmConfig: vcpus, mib, strict
  needs,    \* DeviceRequirements: how many devices, the hotplug range
  host,     \* Hvf on this kernel, IPA width and vCPU limit; None: a custom platform
  plan,     \* the MachineLayout the platform returned
  layout,   \* the part of it validate has read
  ranges,   \* validate's regions so far
  total,    \* validate's RAM so far
  pc, error,
  boot,     \* what prepare loaded and where
  io        \* the access in handle_io and its outcome

vars == <<config, needs, host, plan, layout, ranges, total, pc, error, boot, io>>

Fits_OneMore(n) == n <= Top + 1
Fits(n) == n <= Top
Region(space, address, size, irq) ==
  [space |-> space, address |-> address, size |-> size, irq |-> irq]
NoLayout == [ram |-> <<>>, uart |-> <<>>, virtio |-> <<>>, hotplug |-> <<>>]

Init ==
  /\ \E s \in Starts : config = s.config /\ needs = s.needs /\ host = s.host
  /\ plan = None /\ layout = NoLayout /\ ranges = {} /\ total = 0
  /\ pc = "layout" /\ error = None /\ boot = None /\ io = None

\* One check of Runtime::new or init: the next step, or the error the call
\* returns before anything of the guest has run.
Verdict(ok, next, e) ==
  /\ pc' = (IF ok THEN next ELSE "failed") /\ error' = (IF ok THEN None ELSE e)
  /\ UNCHANGED <<config, needs, host, io>>
Check(ok, next, e) ==
  Verdict(ok, next, e) /\ UNCHANGED <<plan, layout, ranges, total, boot>>

----------------------------------------------------------------------------
(* The built-in platform's layout.                                          *)

\* boot::Layout::new: the kernel from the bottom of RAM, the FDT in the last
\* DtbSpace bytes and the initramfs, aligned down, below it.
KernelEntry(k) == RAM + k.offset
KernelEnd(k) == KernelEntry(k) + (IF k.size >= k.len THEN k.size ELSE k.len)
Dtb(mib) == RAM + mib * MIB - DtbSpace
Initrd(mib, k) == ((Dtb(mib) - k.initrd) \div InitrdAlign) * InitrdAlign

BootFits_RamOnly(mib, k) ==
  /\ mib >= MinMib /\ k.valid /\ k.size # 0 /\ k.offset % KernelAlign = 0
  /\ Fits(RAM + mib * MIB) /\ mib * MIB <= Top \div 2
  /\ Dtb(mib) >= k.initrd /\ Initrd(mib, k) >= RAM

BootFits(mib, k) ==
  /\ mib >= MinMib /\ k.valid /\ k.size # 0 /\ k.offset % KernelAlign = 0
  /\ Fits(KernelEntry(k)) /\ Fits(mib * MIB) /\ mib * MIB <= Top \div 2
  /\ Fits(RAM + mib * MIB) /\ Dtb(mib) >= k.initrd
  /\ Fits(KernelEnd(k))
  /\ Initrd(mib, k) >= RAM /\ KernelEnd(k) <= Initrd(mib, k)

\* boot::validate_ipa_range
IpaFits(start, size, bits) ==
  /\ bits \in 1..WordBits /\ Fits(start + size)
  /\ bits = WordBits \/ start + size <= 2 ^ bits

\* boot::virtio_regions
VirtioFits(n) == n <= IrqEnd - VIRTIO_IRQ_BASE
VirtioRegions(n) ==
  [i \in 1..n |-> Region("Mmio", VIRTIO_BASE + (i - 1) * VIRTIO_STRIDE,
                         VIRTIO_STRIDE, VIRTIO_IRQ_BASE + (i - 1))]

NextMultiple_Down(n, m) == (n \div m) * m
NextMultiple(n, m) == ((n + m - 1) \div m) * m

HvfRam == Region("Mmio", RAM, config.mib * MIB, 0)
HvfHotplug ==
  IF needs.hotplug = None THEN <<>>
  ELSE <<Region("Mmio", NextMultiple(RAM + config.mib * MIB, needs.hotplug.alignment),
                needs.hotplug.capacity, 0)>>

\* Hvf::layout
HvfFits ==
  /\ BootFits(config.mib, host.kernel)
  /\ config.vcpus \in 1..host.vcpus
  /\ IpaFits(HvfRam.address, HvfRam.size, host.bits)
  /\ \A i \in DOMAIN HvfHotplug :
       IpaFits(HvfHotplug[i].address, HvfHotplug[i].size, host.bits)
  /\ VirtioFits(needs.devices)

HvfLayout ==
  /\ pc = "layout" /\ host # None
  /\ plan' = IF HvfFits
             THEN [ram |-> <<HvfRam>>, hotplug |-> HvfHotplug,
                   uart |-> <<Region("Mmio", UART, UART_SIZE, UART_IRQ)>>,
                   virtio |-> VirtioRegions(needs.devices)]
             ELSE None
  /\ Verdict(HvfFits, "counts", "layout")
  /\ UNCHANGED <<layout, ranges, total, boot>>

\* Another platform's layout: any number of regions, anywhere.
Unread(n) == [i \in 1..n |-> Any]
CustomLayout ==
  /\ pc = "layout" /\ host = None
  /\ \E r \in RamRegions, u \in Regions, n \in 0..needs.devices, h \in {0, 1} :
       plan' = [ram |-> Unread(r), uart |-> <<u>>, virtio |-> Unread(n),
                hotplug |-> Unread(h)]
  /\ Verdict(TRUE, "counts", None) /\ UNCHANGED <<layout, ranges, total, boot>>

----------------------------------------------------------------------------
(* MachineLayout::validate.                                                 *)

CheckCounts ==
  /\ pc = "counts"
  /\ Check(/\ config.vcpus # 0 /\ plan.ram # <<>>
           /\ Len(plan.virtio) = needs.devices /\ plan.uart[1].size >= UartMin,
           "ram", "counts")

\* The region validate reads: what the platform put there.
Reading(r) == IF r = Any THEN Regions ELSE {r}

End(r) == r.address + r.size
Overlaps_StartOnly(r, s) == s.space = r.space /\ r.address < s.end /\ s.address <= r.address
Overlaps(r, s) == s.space = r.space /\ r.address < s.end /\ s.address < End(r)

Addable(r) ==
  /\ r.size # 0 /\ Fits(End(r))
  /\ r.space = "Port" => End(r) <= PortTop
  /\ \A s \in ranges : ~Overlaps(r, s)

\* The closure add, with the check its caller makes first; `part` is the list
\* of the layout the region comes from.
Add(part, r, checked, sum, next) ==
  LET ok == checked /\ Addable(r)
      range == [space |-> r.space, address |-> r.address, end |-> End(r)]
  IN /\ layout' = [layout EXCEPT ![part] = Append(@, r)]
     /\ ranges' = IF ok THEN ranges \cup {range} ELSE ranges
     /\ total' = IF ok THEN sum ELSE total
     /\ Verdict(ok, next, "region") /\ UNCHANGED <<plan, boot>>

AddRam ==
  /\ pc = "ram" /\ Len(layout.ram) < Len(plan.ram)
  /\ \E r \in Reading(plan.ram[Len(layout.ram) + 1]) :
       Add("ram", [r EXCEPT !.space = "Mmio"], Fits(total + r.size), total + r.size, "ram")

CheckTotal ==
  /\ pc = "ram" /\ Len(layout.ram) = Len(plan.ram)
  /\ Check(Fits(config.mib * MIB) /\ total = config.mib * MIB, "uart", "capacity")

AddUart == pc = "uart" /\ Add("uart", plan.uart[1], TRUE, total, "virtio")

AddVirtio ==
  /\ pc = "virtio" /\ Len(layout.virtio) < Len(plan.virtio)
  /\ \E r \in Reading(plan.virtio[Len(layout.virtio) + 1]) :
       Add("virtio", r, r.space = "Mmio" /\ r.size >= VirtioMin, total, "virtio")

AddHotplug ==
  /\ pc = "virtio" /\ Len(layout.virtio) = Len(plan.virtio)
  /\ IF plan.hotplug # <<>> /\ needs.hotplug # None
     THEN \E r \in Reading(plan.hotplug[1]) :
            Add("hotplug", [r EXCEPT !.space = "Mmio"],
                /\ r.size = needs.hotplug.capacity
                /\ r.address % needs.hotplug.alignment = 0, total, "attach")
     ELSE Check(plan.hotplug = <<>> /\ needs.hotplug = None, "attach", "hotplug")

----------------------------------------------------------------------------
(* From a valid layout to a guest that may run.                             *)

\* VirtioMem::attach_at; the unwrap of a missing hotplug range panics.
AttachFits ==
  needs.hotplug # None =>
    /\ layout.hotplug # <<>>
    /\ layout.hotplug[1].address % needs.hotplug.alignment = 0
    /\ Fits(layout.hotplug[1].address + needs.hotplug.capacity)

\* Runtime::new after validate; Block::new or Net::new may refuse what the
\* caller handed over.
Attach == pc = "attach" /\ Check(AttachFits, "map", "attach")
DeviceFails == pc = "attach" /\ needs.devices > 0 /\ Check(FALSE, "map", "device")

\* Runtime::init maps the base regions: hvf::Vm::map on the built-in platform.
MapFits(r) ==
  r.address % Page = 0 /\ r.size % Page = 0 /\ IpaFits(r.address, r.size, host.bits)
MapBase ==
  /\ pc = "map"
  /\ Check(host = None \/ \A i \in DOMAIN layout.ram : MapFits(layout.ram[i]),
           "prepare", "map")

\* Behind the checks: no host memory for a region, no VM, or hv_vm_map fails.
HostFails == pc = "map" /\ Check(FALSE, "prepare", "host")

\* hvf::Vm::gic
GicFits(redist) == GIC_REDIST + redist <= RAM

\* hvf::validate_irqs
IrqsFit(spis) ==
  /\ UART_IRQ \in spis
  /\ \A i \in DOMAIN layout.virtio : layout.virtio[i].irq \in spis

\* boot::load
LoadFits(dtb) == dtb <= DtbSpace
PrepareFits(redist, spis, dtb) == GicFits(redist) /\ IrqsFit(spis) /\ LoadFits(dtb)

\* Vm::prepare: the boot layout again, the GIC, the interrupts, the images.
Prepare ==
  /\ pc = "prepare" /\ host # None
  /\ \E redist \in RedistSizes, spis \in SpiRanges, dtb \in DtbSizes :
       LET ok == BootFits(config.mib, host.kernel) /\ PrepareFits(redist, spis, dtb)
       IN /\ Verdict(ok, "ready",
                     IF BootFits(config.mib, host.kernel) THEN "host" ELSE "boot")
          /\ boot' = IF ok THEN [redist |-> redist, spis |-> spis, dtbLen |-> dtb,
                                entry |-> KernelEntry(host.kernel),
                                initrd |-> Initrd(config.mib, host.kernel),
                                dtb |-> Dtb(config.mib)]
                     ELSE None
          /\ UNCHANGED <<plan, layout, ranges, total>>

PrepareCustom == pc = "prepare" /\ host = None /\ Check(TRUE, "ready", None)

----------------------------------------------------------------------------
(* Runtime::handle_io.                                                      *)

Within(a, r) == a.space = r.space /\ a.address >= r.address /\ a.address - r.address < r.size
WindowFits_WidthOnly(a, r) == a.width \in Widths
WindowFits(a, r) == a.width \in Widths /\ a.address - r.address + a.width <= r.size

Uart == layout.uart[1]
\* position: the first window the access starts in
Slots(a) == {i \in DOMAIN layout.virtio : Within(a, layout.virtio[i])}
Slot(a) == CHOOSE i \in Slots(a) : \A j \in Slots(a) : i <= j

\* Mmio::read: configuration fields have any width, registers their own.
Readable(offset, width) ==
  /\ width \in Widths
  /\ IF offset \in ConfigBase..(ConfigEnd - 1) THEN offset + width <= ConfigEnd
     ELSE width = Word

\* Whether the access decodes to a register or a field.
Decodes(a) ==
  IF Within(a, Uart) THEN a.address - Uart.address < UartMin /\ a.width = 1
  ELSE LET window == layout.virtio[Slot(a)]
       IN /\ WindowFits(a, window)
          /\ IF a.write THEN a.width = Word
             ELSE Readable(a.address - window.address, a.width)

\* An undecoded access ends the run in strict mode and is completed without
\* effect, a read with all ones, in lenient mode.
Outcome(a) ==
  CASE ~Within(a, Uart) /\ Slots(a) = {} -> "UnmappedIo"
    [] OTHER -> IF Decodes(a) THEN "register"
                ELSE IF config.strict THEN "InvalidAccess" ELSE "ignored"

handle_io(a) ==
  LET outcome == Outcome(a)
  IN /\ pc = "ready" /\ io = None
     /\ io' = [access |-> a, outcome |-> outcome,
               device |-> CASE Within(a, Uart) -> 0
                            [] ~Within(a, Uart) /\ Slots(a) # {} -> Slot(a)
                            [] OTHER -> None]
     /\ pc' = IF outcome \in {"register", "ignored"} THEN "ready" ELSE "ended"
     /\ UNCHANGED <<config, needs, host, plan, layout, ranges, total, error, boot>>

\* A decoded write that the serial output or the device fails (Mmio has which errors of
\* a device are fatal), set_irq or complete_io: the run ends, in any mode.
IoFails ==
  /\ pc = "ready" /\ io # None /\ io' = None /\ pc' = "ended"
  /\ UNCHANGED <<config, needs, host, plan, layout, ranges, total, error, boot>>

\* set_irq and complete_io: the vCPU runs on, to its next access.
CompleteIo ==
  /\ pc = "ready" /\ io # None /\ io' = None
  /\ UNCHANGED <<config, needs, host, plan, layout, ranges, total, pc, error, boot>>

Next ==
  \/ HvfLayout \/ CustomLayout
  \/ CheckCounts \/ AddRam \/ CheckTotal \/ AddUart \/ AddVirtio \/ AddHotplug
  \/ Attach \/ DeviceFails \/ MapBase \/ HostFails \/ Prepare \/ PrepareCustom
  \/ \E a \in Accesses : handle_io(a)
  \/ IoFails \/ CompleteIo

Spec == Init /\ [][Next]_vars

----------------------------------------------------------------------------
(* Properties.                                                              *)

Stages == {"layout", "counts", "ram", "uart", "virtio", "attach", "map", "prepare",
           "ready", "ended", "failed"}
Accepted == {"attach", "map", "prepare", "ready", "ended"}

\* What validate has read is what the platform returned, its bookkeeping never
\* leaves the machine word, and the run is ready only behind every check.
LayoutTypeOK ==
  /\ [config |-> config, needs |-> needs, host |-> host] \in Starts
  /\ pc \in Stages
  /\ total \in 0..Top
  /\ \A r \in ranges : r.address < r.end /\ r.end <= Top /\ r.space \in {"Mmio", "Port"}
  /\ plan # None => \A part \in DOMAIN layout :
       /\ Len(layout[part]) <= Len(plan[part])
       /\ \A i \in DOMAIN layout[part] : plan[part][i] \in {Any, layout[part][i]}
  /\ (error = None) = (pc # "failed")
  /\ boot # None => host # None /\ pc \in {"ready", "ended"}

\* The bytes a region covers in its space.
Cells(r) == {r.space} \X (r.address..(r.address + r.size - 1))
AllRead == layout.ram \o layout.uart \o layout.virtio \o layout.hotplug
Apart(s) == \A i, j \in DOMAIN s : i # j => Cells(s[i]) \cap Cells(s[j]) = {}

\* The layout read so far may be the machine's, by what the bytes are.
Shape ==
  /\ config.vcpus > 0 /\ plan.ram # <<>> /\ Len(plan.virtio) = needs.devices
  /\ plan.uart[1].size >= UartMin
  /\ (plan.hotplug = <<>>) = (needs.hotplug = None)
Acceptable ==
  /\ Shape /\ Apart(AllRead)
  /\ \A i \in DOMAIN AllRead :
       LET r == AllRead[i]
       IN r.size > 0 /\ End(r) <= (IF r.space = "Port" /\ PortTop < Top THEN PortTop ELSE Top)
  /\ Len(layout.ram) = Len(plan.ram) =>
       Cardinality(UNION {Cells(layout.ram[i]) : i \in DOMAIN layout.ram}) = config.mib * MIB
  /\ \A i \in DOMAIN layout.virtio :
       layout.virtio[i].space = "Mmio" /\ layout.virtio[i].size >= VirtioMin
  /\ \A i \in DOMAIN layout.hotplug :
       /\ layout.hotplug[i].size = needs.hotplug.capacity
       /\ layout.hotplug[i].address % needs.hotplug.alignment = 0

\* MachineLayout::validate's verdict is right for any platform: an accepted
\* layout was read to the end and gives every byte to one region at most, inside the
\* machine word, with the RAM the configuration asks for; a refused one has a
\* defect in what was read; and attach_at never fails on an accepted one.
VerdictRight ==
  /\ pc \in Accepted =>
       /\ Acceptable
       /\ \A part \in DOMAIN layout : Len(layout[part]) = Len(plan[part])
  /\ error \in {"counts", "region", "capacity", "hotplug"} => ~Acceptable
  /\ error # "attach"

\* Once Hvf::layout has returned one, the library takes its own layout: after
\* that only a device's constructor or the framework's answers stop the start.
OwnLayoutAccepted == host # None => error \in {None, "layout", "device", "host"}

\* What prepare loads lies inside the base RAM without overlapping: kernel image,
\* initramfs and FDT; the GIC's windows meet no region of the layout; and every
\* device has an interrupt of its own that the GIC has.
BootSound ==
  boot # None =>
    LET k == host.kernel
        Images == <<Region("Mmio", boot.entry, IF k.size >= k.len THEN k.size ELSE k.len, 0),
                    Region("Mmio", boot.initrd, k.initrd, 0),
                    Region("Mmio", boot.dtb, boot.dtbLen, 0)>>
        Gic == <<Region("Mmio", GIC_DIST, DistSize, 0),
                 Region("Mmio", GIC_REDIST, boot.redist, 0)>>
        Devices == layout.uart \o layout.virtio
    IN /\ Apart(Images) /\ Apart(Gic \o AllRead)
       /\ \A i \in DOMAIN Images : Cells(Images[i]) \subseteq Cells(layout.ram[1])
       /\ \A i, j \in DOMAIN Devices :
            /\ Devices[i].irq \in boot.spis
            /\ i # j => Devices[i].irq # Devices[j].irq

\* The built-in layout is one the library accepts, starts and boots from.
OwnLayoutSound == OwnLayoutAccepted /\ BootSound

\* handle_io takes an access to the one device whose window it starts in, reaches
\* a register only when all its bytes lie in that window, never turns an access
\* to RAM or to the hotplug range into a device's, and outside strict mode refuses
\* an access only for an address no device owns.
DecodeExact ==
  io # None =>
    LET a == io.access
        Devices == layout.uart \o layout.virtio
        First == <<a.space, a.address>>
        Touched == {a.space} \X (a.address..(a.address + a.width - 1))
        Hit == {i \in DOMAIN Devices : First \in Cells(Devices[i])}
    IN /\ Cardinality(Hit) <= 1
       /\ io.device = (IF Hit = {} THEN None ELSE (CHOOSE i \in Hit : TRUE) - 1)
       /\ io.outcome = "register" => Touched \subseteq Cells(Devices[io.device + 1])
       /\ (\E i \in DOMAIN (layout.ram \o layout.hotplug) :
             First \in Cells((layout.ram \o layout.hotplug)[i])) => io.outcome = "UnmappedIo"
       /\ pc = "ended" => config.strict \/ Hit = {}
       /\ config.strict => io.outcome # "ignored"
==============================================================================
