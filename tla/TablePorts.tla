------------------------------ MODULE TablePorts ------------------------------
(***************************************************************************)
(* The page tables of both ports under the same calls: pages are mapped as *)
(* MMap maps them, one MapPage and MapIntermediateLevel at a time, their   *)
(* flags are changed, and they are unmapped and mapped again.              *)
(*                                                                         *)
(* A page is mapped only when it is not mapped yet: MMap would never       *)
(* return.  The frames of the tables are numbered per port, those of the   *)
(* pages are named.                                                        *)
(***************************************************************************)
EXTENDS AArch64PageTable, FiniteSets

CONSTANTS Targets,          \* the virtual pages the calls name
          Frames,           \* the frames they are mapped to
          MapFlags,         \* the flags pages are mapped with
          NewFlags          \* the flags they are given later

ASSUME PortsAssumption ==
    /\ Targets \subseteq VirtualPages
    /\ \A flags \in MapFlags \cup NewFlags : flags \subseteq Flags \ {"HUGE", "NOCACHE"}
    /\ \A flags \in MapFlags : "READ" \in flags
    /\ NULL \notin Nat \cup Frames

VARIABLES mem,              \* the tables of each port
          call,             \* the MMap in progress, or Idle
          todo,             \* the ports that have not mapped its page yet
          done              \* what the last FlagPage or UnmapPage returned

vars == <<mem, call, todo, done>>

Ports == {"X86", "AArch64"}

Idle == [virt |-> NULL]

Nothing == [Address |-> NULL, Flags |-> {}]

Root == 0

MapOn(port, phys, virt, flags) ==
    IF port = "X86" THEN MapPage(mem[port], Root, phys, virt, flags)
    ELSE AArch64MapPage(mem[port], Root, phys, virt, flags)

LevelOn(port, level, virt, flags) ==
    LET frame == Cardinality(DOMAIN mem[port])
    IN  IF port = "X86" THEN MapIntermediateLevel(mem[port], Root, level, frame, virt, flags)
        ELSE AArch64MapIntermediateLevel(mem[port], Root, level, frame, virt, flags)

FlagOn(port, virt, flags) ==
    IF port = "X86" THEN FlagPage(mem[port], Root, virt, flags)
    ELSE AArch64FlagPage(mem[port], Root, virt, flags)

UnmapOn(port, virt) ==
    IF port = "X86" THEN UnmapPage(mem[port], Root, virt)
    ELSE AArch64UnmapPage(mem[port], Root, virt)

FindOn(port, virt) ==
    IF port = "X86" THEN FindMappedPage(mem[port], Root, virt)
    ELSE AArch64FindMappedPage(mem[port], Root, virt)

PTEOn(port, virt) ==
    IF port = "X86" THEN FindMappedPTE(mem[port], Root, virt)
    ELSE AArch64FindMappedPTE(mem[port], Root, virt)

-----------------------------------------------------------------------------

Init ==
    /\ mem = [port \in Ports |-> IF port = "X86" THEN NewVirtualSpace(<<>>, Root)
                                 ELSE AArch64NewVirtualSpace(<<>>, Root)]
    /\ call = Idle
    /\ todo = {}
    /\ done = [port \in Ports |-> 0]

CallMap(virt, phys, flags) ==
    /\ call = Idle
    /\ \A port \in Ports : FindOn(port, virt) = NULL
    /\ call' = [virt |-> virt, phys |-> phys, flags |-> flags]
    /\ todo' = Ports
    /\ UNCHANGED <<mem, done>>

(* One turn of the inner loop of MMap, on one port after the other: they   *)
(* share nothing.                                                          *)
Turn(port) ==
    LET mapped == MapOn(port, call.phys, call.virt, call.flags)
    IN  /\ port \in todo
        /\ port = "AArch64" => "X86" \notin todo
        /\ \/ /\ mapped.result = 0
              /\ mem' = [mem EXCEPT ![port] = mapped.mem]
              /\ todo' = todo \ {port}
              /\ call' = IF todo' = {} THEN Idle ELSE call
           \/ /\ mapped.result # 0
              /\ mem' = [mem EXCEPT ![port] =
                           LevelOn(port, mapped.result, call.virt, call.flags).mem]
              /\ UNCHANGED <<call, todo>>
        /\ UNCHANGED done

(* Both ports take a call that changes one entry at most.                  *)
OnBoth(Called(_)) ==
    /\ call = Idle
    /\ mem' = [port \in Ports |-> Called(port).mem]
    /\ done' = [port \in Ports |-> Called(port).result]
    /\ UNCHANGED <<call, todo>>

CallFlag(virt, flags) == OnBoth(LAMBDA port : FlagOn(port, virt, flags))

CallUnmap(virt) == OnBoth(LAMBDA port : UnmapOn(port, virt))

Next ==
    \/ \E virt \in Targets, phys \in Frames, flags \in MapFlags : CallMap(virt, phys, flags)
    \/ \E port \in Ports : Turn(port)
    \/ \E virt \in Targets, flags \in NewFlags : CallFlag(virt, flags)
    \/ \E virt \in Targets : CallUnmap(virt)

Spec == Init /\ [][Next]_vars

-----------------------------------------------------------------------------

(* What the tables of a port map: the entries FindMappedPTE leads to.      *)
MapOf(port) ==
    [virt \in VirtualPages |->
        IF FindOn(port, virt) = NULL THEN Nothing
        ELSE mem[port][PTEOn(port, virt)[1]][PTEOn(port, virt)[2]]]

(* Between the calls both ports map the same pages to the same frames with *)
(* the same flags, and a call succeeds on both or on neither, although     *)
(* their tables are shaped differently: the digits of an address index the *)
(* levels in opposite orders.  Every table is there for a page mapped at   *)
(* some time, so neither port needs more than three tables for a page.     *)
PortsAgree ==
    /\ call = Idle =>
         /\ MapOf("X86") = MapOf("AArch64")
         /\ done["X86"] = 0 <=> done["AArch64"] = 0
    /\ \A port \in Ports : Cardinality(DOMAIN mem[port]) <= 1 + 3 * Cardinality(Targets)

Map86 == INSTANCE PageMap
           WITH map <- MapOf("X86"), Pages <- Targets,
                FlagSets <- MapFlags \cup NewFlags

(* The tables behave like a map from pages to frames, also over the tables *)
(* that earlier pages have left behind: of a page that was unmapped or     *)
(* lost READ nothing shows when it is mapped again, and no call on a page  *)
(* changes another.                                                        *)
ImplementsPageMap == Map86!Spec

=============================================================================
