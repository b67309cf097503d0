--------------------------------- MODULE VMM ---------------------------------
(***************************************************************************)
(* The virtual memory manager of src/generic/vmm.cpp while the kernel      *)
(* builds its own address space and that of the first container: MMap maps *)
(* a range of physical pages, VMAlloc and VMCopyAlloc a range of new ones, *)
(* and both take the frames of missing page tables as they go.             *)
(*                                                                         *)
(* The frames come from the physical memory manager, of which only the     *)
(* promise of module FrameAllocator is used: no frame is given twice.      *)
(* The frames lie in the usable memory that MMap maps for the kernel, so   *)
(* that a table or an allocated page is a page of the kernel as well.      *)
(* Callers map only ranges no page of which is mapped.                     *)
(***************************************************************************)
EXTENDS PageTable

CONSTANTS Spaces,           \* the virtual spaces
          KernelSpace,      \* the one InitVMM makes
          Ranges,           \* <<frame, page>>: where ranges MMap maps begin
          KernelFlags,      \* the flags passed with them
          Targets,          \* where ranges VMAlloc maps begin
          FlagSets,         \* the flags passed with those
          MaxPages,         \* bound on the length of a range
          MaxFrames         \* bound on the frames the manager hands out

ASSUME VMMAssumption ==
    /\ KernelSpace \in Spaces
    /\ Ranges \subseteq Nat \X VirtualPages
    /\ Targets \subseteq VirtualPages
    /\ MaxPages \in Nat \ {0}
    /\ KernelFlags \cup FlagSets \subseteq SUBSET Flags
    /\ \A flags \in KernelFlags : "READ" \in flags /\ "USER" \notin flags
    /\ \A flags \in FlagSets : {"READ", "USER"} \subseteq flags
    /\ MaxFrames \in Nat \ {0}
    /\ NULL \notin Nat

VARIABLES mem,              \* the page tables
          root,             \* the root table of each space, or NULL
          frames,           \* how many frames were requested: the last one's name
          job               \* the call in progress, or Idle

vars == <<mem, root, frames, job>>

Idle == [op |-> "Idle"]

Mapped(s, virt) == root[s] # NULL /\ FindMappedPage(mem, root[s], virt) # NULL

(* Every page may need three tables and, in VMAlloc, a frame of its own.   *)
FramesSuffice(pages) == frames + 4 * pages <= MaxFrames

-----------------------------------------------------------------------------

(* InitVMM: the first frame becomes the root table of the kernel.          *)
Init ==
    /\ mem = NewVirtualSpace(<<>>, 1)
    /\ root = [s \in Spaces |-> IF s = KernelSpace THEN 1 ELSE NULL]
    /\ frames = 1
    /\ job = Idle

(* LoadContainer: NewVirtualSpace((uptr)PMM::RequestVirtualPage()).        *)
CreateSpace(s) ==
    /\ job = Idle
    /\ root[s] = NULL
    /\ frames < MaxFrames
    /\ frames' = frames + 1
    /\ mem' = NewVirtualSpace(mem, frames')
    /\ root' = [root EXCEPT ![s] = frames']
    /\ UNCHANGED job

Begin(op, s, src, virt, pages, flags) ==
    /\ job = Idle
    /\ root[s] # NULL
    /\ virt + pages - 1 \in VirtualPages
    /\ \A v \in virt .. virt + pages - 1 : ~Mapped(s, v)
    /\ FramesSuffice(pages)
    /\ job' = [op |-> op, space |-> s, phys |-> src, virt |-> virt,
               end |-> virt + pages, flags |-> flags]
    /\ UNCHANGED <<mem, root, frames>>

(* PrepareKernelVirtualSpace, PrepareUserVirtualSpace and the drivers map  *)
(* sections of the kernel, the memory map and devices, never for the user. *)
CallMMap(s, range, pages, flags) ==
    Begin("MMap", s, range[1], range[2], pages, flags)

(* VMAlloc and VMCopyAlloc, which the loader calls for the container with  *)
(* the USER flag, differ in what they copy into the new pages.             *)
CallVMAlloc(s, virt, pages, flags) == Begin("VMAlloc", s, NULL, virt, pages, flags)

(* VMAlloc: the frame of the next page.                                    *)
TakeFrame ==
    /\ job.op = "VMAlloc"
    /\ job.phys = NULL
    /\ frames' = frames + 1
    /\ job' = [job EXCEPT !.phys = frames']
    /\ UNCHANGED <<mem, root>>

NextPage ==
    IF job.virt + 1 = job.end THEN Idle
    ELSE [job EXCEPT !.virt = @ + 1,
                     !.phys = IF job.op = "VMAlloc" THEN NULL ELSE @ + 1]

(* Mutation: the manager has no frame to give, which nobody tests.         *)
MapStepWithoutFrame ==
    /\ job.op \in {"MMap", "VMAlloc"}
    /\ job.phys # NULL
    /\ LET mapped == MapPage(mem, root[job.space], job.phys, job.virt, job.flags)
       IN  \/ /\ mapped.result = 0
              /\ mem' = mapped.mem
              /\ job' = NextPage
           \/ /\ mapped.result # 0
              /\ mem' = MapIntermediateLevel(mem, root[job.space], mapped.result,
                                             NULL, job.virt, job.flags).mem
              /\ UNCHANGED job
    /\ UNCHANGED <<root, frames>>

(* One turn of the inner loop of MMap: MapPage, and unless it mapped the   *)
(* page a new frame and MapIntermediateLevel, whose result is not read.    *)
MapStep ==
    /\ job.op \in {"MMap", "VMAlloc"}
    /\ job.phys # NULL
    /\ LET mapped == MapPage(mem, root[job.space], job.phys, job.virt, job.flags)
       IN  \/ /\ mapped.result = 0
              /\ mem' = mapped.mem
              /\ job' = NextPage
              /\ UNCHANGED frames
           \/ /\ mapped.result # 0
              /\ frames' = frames + 1
              /\ mem' = MapIntermediateLevel(mem, root[job.space], mapped.result,
                                             frames', job.virt, job.flags).mem
              /\ UNCHANGED job
    /\ UNCHANGED root

Step == TakeFrame \/ MapStep

Next ==
    \/ \E s \in Spaces : CreateSpace(s)
    \/ \E s \in Spaces, range \in Ranges, pages \in 1 .. MaxPages, flags \in KernelFlags :
         CallMMap(s, range, pages, flags)
    \/ \E s \in Spaces, virt \in Targets, pages \in 1 .. MaxPages, flags \in FlagSets :
         CallVMAlloc(s, virt, pages, flags)
    \/ Step

(* The processor keeps executing the call that has begun.                  *)
Spec == Init /\ [][Next]_vars /\ WF_vars(Step)

-----------------------------------------------------------------------------

LiveSpaces == {s \in Spaces : root[s] # NULL}

MappedPages == {p \in Spaces \X VirtualPages : Mapped(p[1], p[2])}

FrameOf(p) == FindMappedPage(mem, root[p[1]], p[2])

(* Only frames that were requested hold tables, and MapPage reports a      *)
(* level MapIntermediateLevel can provide, so that requests stay bounded.  *)
TypeOK ==
    /\ DOMAIN mem \subseteq 1 .. frames
    /\ frames \in 1 .. MaxFrames
    /\ root \in [Spaces -> (DOMAIN mem) \cup {NULL}]
    /\ \A t \in DOMAIN mem : DOMAIN mem[t] = Index
    /\ job.op \in {"Idle", "MMap", "VMAlloc"}

(* The present entries of a set of tables, and the tables they lead to.    *)
PresentIn(tables) == {e \in tables \X Index : Present(mem[e[1]][e[2]])}

Below(tables) == {mem[e[1]][e[2]].Address : e \in PresentIn(tables)}

(* The tables at a level, over all spaces, and the entries that lead to    *)
(* them.                                                                   *)
TablesAt(level) ==
    LET roots == {root[s] : s \in LiveSpaces}
    IN  CASE level = 4 -> roots
          [] level = 3 -> Below(roots)
          [] level = 2 -> Below(Below(roots))
          [] level = 1 -> Below(Below(Below(roots)))

EntriesAbove(level) == PresentIn(TablesAt(level + 1))

(* The pages the processor lets a container use.                           *)
UserPages == {p \in MappedPages : Accessible(mem, root[p[1]], p[2])}

(* A page that a container may use is in a frame the manager gave out, in  *)
(* which there is no table and no other page a container may use.          *)
UserFramesAreOwn ==
    LET pages == UserPages
    IN  \A p \in pages :
          /\ FrameOf(p) \in (1 .. frames) \ DOMAIN mem
          /\ \A q \in pages : FrameOf(p) = FrameOf(q) => p = q

(* The page tables are trees that share no table, so that no mapping shows *)
(* up at a second address or in a second space, and every frame taken for  *)
(* a table is in one: MMap may ignore what MapIntermediateLevel returns.   *)
(* The kernel also maps the frames of tables and of the container's pages, *)
(* as part of the usable memory, but a container reaches none of them but  *)
(* those of its own pages, although every table grants it access.          *)
NoTableSharedOrLost ==
    /\ TypeOK /\ UserFramesAreOwn
    /\ DOMAIN mem = UNION {TablesAt(level) : level \in 1 .. 4}
    /\ \A j, k \in 1 .. 4 : j # k => TablesAt(j) \cap TablesAt(k) = {}
    /\ \A level \in 1 .. 3 :
         \A a, b \in EntriesAbove(level) :
             mem[a[1]][a[2]].Address = mem[b[1]][b[2]].Address => a = b

(* Write and user access asked for a page are not denied by a table on the *)
(* way to it, whatever the flags of the page that created the table.       *)
AccessAsAsked ==
    \A p \in MappedPages :
        LET flags == Leaf(mem, root[p[1]], p[2]).Flags
        IN  /\ "WRITE" \in flags => Writable(mem, root[p[1]], p[2])
            /\ "USER" \in flags => Accessible(mem, root[p[1]], p[2])

Mappings == {<<p[1], p[2], Leaf(mem, root[p[1]], p[2])>> : p \in MappedPages}

(* What the call in progress still has to map.  Which frames VMAlloc takes *)
(* is its own affair.                                                      *)
Request == IF job.op = "VMAlloc" THEN [job EXCEPT !.phys = NULL] ELSE job

Maps == INSTANCE AddressSpaces WITH mappings <- Mappings, request <- Request

(* What the functions of vmm.cpp promise: a map from the virtual pages of  *)
(* each space, to which a call adds the pages of its range one after the   *)
(* other, each with the flags asked for and at the next physical page, or  *)
(* at a frame no container uses, and changes nothing else until it is done.*)
ImplementsMaps == Maps!Spec

(* MMap returns: after a turn for each missing level the page is mapped.   *)
CallsReturn == (job # Idle) ~> (job = Idle)

=============================================================================
