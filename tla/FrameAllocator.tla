------------------------------ MODULE FrameAllocator ------------------------------
(***************************************************************************)
(* thermite-kernel/src/frame.rs: the physical frame allocator.             *)
(*                                                                         *)
(* free, allocated, frameGenerations and loans are the allocator's         *)
(* BTreeMaps, as functions whose domain is the set of keys.  FrameRun is   *)
(* Copy: `handles' remembers every run ever returned, and clients present  *)
(* any of them in any order.  `managed' is the set of bytes ever given to  *)
(* add_region, `buried' the handles whose frames have since been released, *)
(* `cut' whether a run has ever been split or joined.                      *)
(* PageSize and MaxAddr stand for 4096 and u64::MAX.                       *)
(***************************************************************************)
EXTENDS Integers, KernelMaps

CONSTANTS PageSize, MaxAddr, FrameGenerations,
          Regions,         \* (base, pages) pairs given to add_region
          Requests,        \* (pages, alignment_pages) pairs given to allocate
          Borrowers

ASSUME FrameAssumption ==
    /\ PageSize \in Nat \ {0} /\ MaxAddr \in Nat /\ FrameGenerations \in Nat
    /\ Regions \subseteq Nat \X Nat /\ Requests \subseteq Nat \X Nat

VARIABLES free, allocated, frameGenerations, loans, handles, managed, buried, cut, err

frameVars == <<free, allocated, frameGenerations, loans, handles, managed, buried, cut, err>>

End(base, pages)   == base + pages * PageSize
Bytes(base, pages) == base .. End(base, pages) - 1
Overlap(r, s)      == Bytes(r.base, r.pages) \cap Bytes(s.base, s.pages) # {}

FrameInit ==
    /\ free = <<>> /\ allocated = <<>> /\ frameGenerations = <<>> /\ loans = <<>>
    /\ handles = {} /\ managed = {} /\ buried = {} /\ cut = FALSE
    /\ err = "Ok"

Refuse(reason) ==
    /\ err' = reason
    /\ UNCHANGED <<free, allocated, frameGenerations, loans, handles, managed, buried, cut>>

(* FrameAllocator::coalesce: an entry that begins where the entry before it ends
   is merged into it.  The entries do not overlap, so what is left has one entry
   for each maximal chain of adjacent ones: it begins where no entry ends and
   goes to the first end at which no entry begins. *)
Ends(f) == {End(b, f[b]) : b \in DOMAIN f}

ChainEnd(f, b) ==
    LET tops == Ends(f) \ DOMAIN f
    IN CHOOSE e \in tops : b < e /\ \A d \in tops : b < d => e <= d

Coalesce(f) == [b \in DOMAIN f \ Ends(f) |-> (ChainEnd(f, b) - b) \div PageSize]

ValidateRun(base, pages) ==
    IF pages = 0 THEN "Empty"
    ELSE IF base % PageSize # 0 THEN "Misaligned"
    ELSE IF End(base, pages) > MaxAddr THEN "RangeOverflow" ELSE "Ok"

(* add_region compares the region with the free runs only. *)
AddRegionError(base, pages) ==
    IF ValidateRun(base, pages) # "Ok" THEN ValidateRun(base, pages)
    ELSE IF \E other \in DOMAIN free : /\ base < End(other, free[other])
                                       /\ other < End(base, pages)
    THEN "Overlap" ELSE "Ok"

AddRegion(base, pages) ==
    LET e == AddRegionError(base, pages) IN
    \/ e # "Ok" /\ Refuse(e)
    \/ /\ e = "Ok"
       /\ free' = Coalesce(Insert(free, base, pages))
       /\ managed' = managed \cup Bytes(base, pages)
       /\ err' = "Ok"
       /\ UNCHANGED <<allocated, frameGenerations, loans, handles, buried, cut>>

IsPowerOfTwo(n) == \E k \in 0..n : 2^k = n

(* The aligned start of a request in the free run at base. *)
AlignedIn(base, alignment) == ((base + alignment - 1) \div alignment) * alignment

Fits(base, pages, alignment) ==
    /\ base + alignment - 1 <= MaxAddr
    /\ (AlignedIn(base, alignment) - base) \div PageSize + pages <= free[base]

(* Mutant: the suffix starts one page early. *)
RemainderEarly(base, start, pages) ==
    LET prefix == (start - base) \div PageSize
        suffix == free[base] - prefix - pages
        head   == IF prefix # 0 THEN Insert(Without(free, {base}), base, prefix)
                  ELSE Without(free, {base})
    IN IF suffix # 0 THEN Insert(head, End(start, pages - 1), suffix + 1) ELSE head

(* What allocate leaves of the free run at base: a prefix and a suffix. *)
Remainder(base, start, pages) ==
    LET prefix == (start - base) \div PageSize
        suffix == free[base] - prefix - pages
        head   == IF prefix # 0 THEN Insert(Without(free, {base}), base, prefix)
                  ELSE Without(free, {base})
    IN IF suffix # 0 THEN Insert(head, End(start, pages), suffix) ELSE head

GenerationAt(base) == IF base \in DOMAIN frameGenerations THEN frameGenerations[base] ELSE 0

Grant(run) ==
    /\ allocated' = Insert(allocated, run.base, run)
    /\ handles' = handles \cup {run}
    /\ err' = "Ok"

(* FrameAllocator::allocate: first fit in address order. *)
Allocate(pages, alignmentPages) ==
    LET alignment == alignmentPages * PageSize
        fitting == {b \in DOMAIN free : Fits(b, pages, alignment)}
        e == IF pages = 0 \/ alignmentPages = 0 \/ ~IsPowerOfTwo(alignmentPages)
             THEN "Empty"
             ELSE IF alignment > MaxAddr THEN "RangeOverflow"
             ELSE IF fitting = {} THEN "OutOfMemory" ELSE "Ok"
    IN \/ e # "Ok" /\ Refuse(e)
       \/ /\ e = "Ok"
          /\ LET base  == CHOOSE b \in fitting : \A c \in fitting : b <= c
                 start == AlignedIn(base, alignment)
             IN /\ free' = Remainder(base, start, pages)
                /\ Grant([base |-> start, pages |-> pages,
                          generation |-> GenerationAt(start), zeroed |-> FALSE])
          /\ UNCHANGED <<frameGenerations, loans, managed, buried, cut>>

(* Mutant: the generation of a presented run is not compared. *)
ValidateIgnoringGeneration(run) ==
    IF run.base \notin DOMAIN allocated THEN "UnknownRun"
    ELSE IF allocated[run.base].pages # run.pages THEN "UnknownRun"
    ELSE "Ok"

(* FrameAllocator::validate; the zeroed flag is not compared. *)
ValidateAllocated(run) ==
    IF run.base \notin DOMAIN allocated THEN "UnknownRun"
    ELSE IF allocated[run.base].generation # run.generation THEN "StaleGeneration"
    ELSE IF allocated[run.base].pages # run.pages THEN "UnknownRun"
    ELSE "Ok"

(* Mutant: the loan table is not consulted. *)
LentForgotten(run) == FALSE

Lent(run) == run.base \in DOMAIN loans

(* FrameAllocator::mark_zeroed *)
MarkZeroed(run) ==
    \/ ValidateAllocated(run) # "Ok" /\ Refuse(ValidateAllocated(run))
    \/ /\ ValidateAllocated(run) = "Ok"
       /\ Grant([allocated[run.base] EXCEPT !.zeroed = TRUE])
       /\ UNCHANGED <<free, frameGenerations, loans, managed, buried, cut>>

BumpError(run) ==
    IF allocated[run.base].generation = FrameGenerations THEN "GenerationOverflow" ELSE "Ok"

Bump(run) ==
    LET next == [allocated[run.base] EXCEPT !.generation = @ + 1] IN
    /\ Grant(next)
    /\ frameGenerations' = Insert(frameGenerations, run.base, next.generation)
    /\ UNCHANGED <<free, managed, buried, cut>>

(* FrameAllocator::lend *)
Lend(run, borrower) ==
    LET e == IF ValidateAllocated(run) # "Ok" THEN ValidateAllocated(run)
             ELSE IF Lent(run) THEN "AlreadyLent" ELSE BumpError(run)
    IN \/ e # "Ok" /\ Refuse(e)
       \/ e = "Ok" /\ Bump(run) /\ loans' = Insert(loans, run.base, borrower)

(* FrameAllocator::reclaim *)
Reclaim(run, borrower) ==
    LET e == IF ValidateAllocated(run) # "Ok" THEN ValidateAllocated(run)
             ELSE IF ~Lent(run) THEN "NotLent"
             ELSE IF loans[run.base] # borrower THEN "ForeignBorrower"
             ELSE BumpError(run)
    IN \/ e # "Ok" /\ Refuse(e)
       \/ e = "Ok" /\ Bump(run) /\ loans' = Without(loans, {run.base})

(* FrameAllocator::split_allocated: both halves keep the generation, and the
   right half's base gets a generations entry only if it had none. *)
SplitAllocated(run, leftPages) ==
    LET e == IF ValidateAllocated(run) # "Ok" THEN ValidateAllocated(run)
             ELSE IF Lent(run) THEN "AlreadyLent"
             ELSE IF leftPages = 0 \/ leftPages >= run.pages THEN "Empty" ELSE "Ok"
    IN \/ e # "Ok" /\ Refuse(e)
       \/ /\ e = "Ok"
          /\ LET live  == allocated[run.base]
                 left  == [live EXCEPT !.pages = leftPages]
                 right == [live EXCEPT !.base = End(run.base, leftPages),
                                       !.pages = live.pages - leftPages]
             IN /\ allocated' = Insert(Insert(allocated, left.base, left), right.base, right)
                /\ frameGenerations' =
                      IF right.base \in DOMAIN frameGenerations THEN frameGenerations
                      ELSE Insert(frameGenerations, right.base, right.generation)
                /\ handles' = handles \cup {left, right}
          /\ err' = "Ok" /\ cut' = TRUE
          /\ UNCHANGED <<free, loans, managed, buried>>

JoinError(left, right) ==
    IF left.generation # right.generation \/ left.zeroed # right.zeroed
       \/ End(left.base, left.pages) # right.base
    THEN "NonAdjacent" ELSE "Ok"

(* FrameAllocator::join_allocated *)
JoinAllocated(left, right) ==
    LET e == IF ValidateAllocated(left) # "Ok" THEN ValidateAllocated(left)
             ELSE IF ValidateAllocated(right) # "Ok" THEN ValidateAllocated(right)
             ELSE IF Lent(left) \/ Lent(right) THEN "AlreadyLent"
             ELSE JoinError(allocated[left.base], allocated[right.base])
    IN \/ e # "Ok" /\ Refuse(e)
       \/ /\ e = "Ok"
          /\ LET joined == [allocated[left.base] EXCEPT
                               !.pages = @ + allocated[right.base].pages]
             IN /\ allocated' = Insert(Without(allocated, {right.base}), left.base, joined)
                /\ handles' = handles \cup {joined}
          /\ err' = "Ok" /\ cut' = TRUE
          /\ UNCHANGED <<free, frameGenerations, loans, managed, buried>>

ReleaseError(run) ==
    IF ValidateAllocated(run) # "Ok" THEN ValidateAllocated(run)
    ELSE IF Lent(run) THEN "AlreadyLent" ELSE "Ok"

(* FrameAllocator::release: the record goes before the generation is bumped,
   so at the last generation the run is lost. *)
ReleaseRun(run) ==
    \/ ReleaseError(run) # "Ok" /\ Refuse(ReleaseError(run))
    \/ /\ ReleaseError(run) = "Ok"
       /\ allocated' = Without(allocated, {run.base})
       /\ LET lost == run.generation = FrameGenerations IN
          /\ err' = IF lost THEN "GenerationOverflow" ELSE "Ok"
          /\ frameGenerations' = IF lost THEN frameGenerations
                                 ELSE Insert(frameGenerations, run.base, run.generation + 1)
          /\ free' = IF lost THEN free ELSE Coalesce(Insert(free, run.base, run.pages))
          /\ buried' = IF lost THEN buried
                       ELSE buried \cup {h \in handles : Overlap(h, run)}
       /\ UNCHANGED <<loans, handles, managed, cut>>

(* The boot code names each page once; the bound: nobody releases a run at the
   last of its 2^64 generations. *)
FrameNext ==
    \/ \E r \in Regions : Bytes(r[1], r[2]) \cap managed = {} /\ AddRegion(r[1], r[2])
    \/ \E q \in Requests : Allocate(q[1], q[2])
    \/ \E run \in handles :
          \/ MarkZeroed(run)
          \/ \E b \in Borrowers : Lend(run, b) \/ Reclaim(run, b)
          \/ run.generation < FrameGenerations /\ ReleaseRun(run)
          \/ \E n \in 0..run.pages : SplitAllocated(run, n)
          \/ \E other \in handles : JoinAllocated(run, other)

(***************************************************************************)
(* Properties.                                                             *)
(***************************************************************************)

FreeBytes      == UNION {Bytes(b, free[b]) : b \in DOMAIN free}
AllocatedBytes == UNION {Bytes(b, allocated[b].pages) : b \in DOMAIN allocated}

(* No frame has two owners: free runs and allocated runs are pairwise
   disjoint. *)
Disjoint ==
    /\ FreeBytes \cap AllocatedBytes = {}
    /\ \A b, c \in DOMAIN free : b # c => Bytes(b, free[b]) \cap Bytes(c, free[c]) = {}
    /\ \A b, c \in DOMAIN allocated :
          b # c => Bytes(b, allocated[b].pages) \cap Bytes(c, allocated[c].pages) = {}

(* No frame is lost or invented: through every split, join, partial allocation
   and coalescing release, the pages given to add_region are exactly the free
   and the allocated ones. *)
Conserved == FreeBytes \cup AllocatedBytes = managed

(* A lent run stays allocated to its owner until it is reclaimed: it cannot be
   released, split, joined or granted again while the borrower uses it. *)
LoansStayAllocated ==
    /\ DOMAIN loans \subseteq DOMAIN allocated
    /\ \A b \in DOMAIN loans : GenerationAt(b) = allocated[b].generation

(* "A copied stale value ... returns a typed platform error": a handle whose frames have
   been released is never valid again, so it cannot reach the frames of
   whoever they are granted to next. *)
ReleasedRunsStayDead == \A run \in buried : ValidateAllocated(run) # "Ok"

(* The same as long as no run has been split or joined: lending, reclaiming,
   zeroing and coalescing releases never make a released handle valid again. *)
UncutRunsStayDead == ~cut => ReleasedRunsStayDead
=============================================================================
