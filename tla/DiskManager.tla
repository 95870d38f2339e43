------------------------------ MODULE DiskManager ------------------------------
(***************************************************************************)
(* The disk manager of buffer-pool (src/disk/disk_manager.rs): page        *)
(* identifiers are handed out from a FIFO list of freed ones or from a     *)
(* high-water mark, and identifiers below the mark that are not on the     *)
(* list can be freed, read or written.  The contents of a page are one     *)
(* value.                                                                  *)
(***************************************************************************)
EXTENDS Naturals, Sequences

CONSTANTS
  MaxPage,    \* bound: next_free hands out 1 .. MaxPage
  Content,    \* what a page can hold
  Blank       \* what the file holds where nothing was written

ASSUME MaxPageAssumption == MaxPage \in Nat
ASSUME BlankAssumption == Blank \in Content

VARIABLES
  next_free,
  free_list,
  file,       \* per page, its contents in the file
  handed      \* history: the pages allocate has given out and nobody has freed since

diskVars == <<next_free, free_list, file, handed>>

\* The identifiers callers can name.  next_free starts at 1.
PageID == 0 .. MaxPage

Freed == {free_list[i] : i \in DOMAIN free_list}

\* The check of free, read and write.
Valid(p) == p \notin Freed /\ p < next_free

-----------------------------------------------------------------------------

DiskInit ==
  /\ next_free = 1
  /\ free_list = <<>>
  /\ file = [p \in PageID |-> Blank]
  /\ handed = {}

AllocateFreed(p) ==
  /\ free_list # <<>>
  /\ p = Head(free_list)
  /\ free_list' = Tail(free_list)
  /\ UNCHANGED <<next_free, file>>

AllocateNew(p) ==
  /\ free_list = <<>>
  /\ p = next_free /\ p \in PageID
  /\ next_free' = p + 1
  /\ UNCHANGED <<free_list, file>>

Allocate(p) ==
  /\ AllocateFreed(p) \/ AllocateNew(p)
  /\ handed' = handed \cup {p}

\* Fault: freeing does not look for the page in the list.
Free_Twice(p) ==
  /\ p < next_free
  /\ free_list' = Append(free_list, p)
  /\ handed' = handed \ {p}
  /\ UNCHANGED <<next_free, file>>

Free(p) ==
  /\ Valid(p)
  /\ free_list' = Append(free_list, p)
  /\ handed' = handed \ {p}
  /\ UNCHANGED <<next_free, file>>

(***************************************************************************)
(* What reading a page whose contents in the file are stored can leave in  *)
(* a buffer that holds old.  Past the end of the file File::read fills     *)
(* nothing, and inside it a page that was never written reads as zeros.    *)
(***************************************************************************)
ReadInto(stored, old) == IF stored = Blank THEN {Blank, old} ELSE {stored}

-----------------------------------------------------------------------------

DiskTypeOK ==
  /\ next_free \in 1 .. MaxPage + 1
  /\ free_list \in Seq(PageID)
  /\ file \in [PageID -> Content]
  /\ handed \subseteq PageID

(***************************************************************************)
(* The pages that may be freed, read and written are those handed out, and *)
(* no page is on the free list twice: otherwise allocate could give a page *)
(* to somebody while another one has it.  With one exception: PageID(0)    *)
(* passes the check although allocate has not given it to anybody, which   *)
(* the doc of free excludes (disk_manager.rs:51-52, :54).  Once freed, it  *)
(* goes round like any other page.                                         *)
(***************************************************************************)
FreeListExact ==
  /\ \A i, j \in DOMAIN free_list : free_list[i] = free_list[j] => i = j
  /\ \A p \in Freed : p < next_free
  /\ \A p \in PageID :
       Valid(p) <=> p \in handed \/ (p = 0 /\ p \notin Freed)

=============================================================================
