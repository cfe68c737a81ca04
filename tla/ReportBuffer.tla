---------------------------- MODULE ReportBuffer -----------------------------
(***************************************************************************)
(* The memory of a buffered report control block (enqueueReport,           *)
(* sendNextReportEntry and purgeBuf of reporting.c).  Reports are entries  *)
(* of different length in one block of memory, linked from the oldest to   *)
(* the last; a report that does not fit behind the last one is put at the  *)
(* start of the block, over the oldest reports.                            *)
(*                                                                         *)
(* All operations run under the mutex createNotificationsMutex of the      *)
(* report control block.  enqueueReport is split at its loops: pc tells    *)
(* which of its while loops it is in, and one iteration is one step.       *)
(* The contents of an entry are reduced to the number of the report, the   *)
(* entry's length and the pointer to the next entry.                       *)
(***************************************************************************)
EXTENDS Integers, Sequences

CONSTANTS MemoryBlockSize,  \* CONFIG_REPORTING_DEFAULT_REPORT_BUFFER_SIZE
          Sizes,            \* sizes of entries (ReportBufferEntry and values)
          MaxReports        \* bound on the number of reports made

ASSUME BufferAssumption ==
    /\ MemoryBlockSize \in Nat \ {0}
    /\ Sizes \subseteq Nat \ {0}
    /\ MaxReports \in Nat

VARIABLES memory,               \* what is found at each address of memoryBlock
          oldestReport, lastEnqueuedReport, nextToTransmit,
          reportsCount,
          pc, entryBufPos, bufferEntrySize,     \* of a running enqueueReport
          made,                 \* number of reports made so far
          sent                  \* number of the last report transmitted

pointers == <<oldestReport, lastEnqueuedReport, nextToTransmit, reportsCount>>
locals == <<entryBufPos, bufferEntrySize>>
vars == <<memory, pointers, pc, locals, made, sent>>

\* Addresses are offsets in the block; NULL is below all of them, as in C.
Address == 0 .. MemoryBlockSize - 1
NULL == -1
Pointer == Address \cup {NULL}
Entry == [number : 1 .. MaxReports, entryLength : Sizes, next : Pointer]
Garbage == [number |-> 0, entryLength |-> 0, next |-> NULL]

Pcs == {"idle", "wrap", "upper", "lower", "fit", "link", "write"}

TypeOK ==
    /\ memory \in [Address -> Entry \cup {Garbage}]
    /\ oldestReport \in Pointer
    /\ lastEnqueuedReport \in Pointer
    /\ nextToTransmit \in Pointer
    /\ reportsCount \in 0 .. MaxReports
    /\ pc \in Pcs
    /\ entryBufPos \in Address
    /\ bufferEntrySize \in Sizes \cup {0}
    /\ made \in 0 .. MaxReports
    /\ sent \in 0 .. MaxReports
-----------------------------------------------------------------------------
EndOf(p) == p + memory[p].entryLength
Overflows(p, size) == p + size > MemoryBlockSize

\* The block after an entry has been written: whatever it overlaps is lost.
Written(m, p, size, e) ==
    [a \in Address |->
        IF a = p THEN e
        ELSE IF a < p + size /\ p < a + m[a].entryLength THEN Garbage
        ELSE m[a]]

\* ReportBuffer_create
Init ==
    /\ memory = [a \in Address |-> Garbage]
    /\ oldestReport = NULL /\ lastEnqueuedReport = NULL /\ nextToTransmit = NULL
    /\ reportsCount = 0
    /\ pc = "idle" /\ entryBufPos = 0 /\ bufferEntrySize = 0
    /\ made = 0 /\ sent = 0

CanBegin(size) == pc = "idle" /\ made < MaxReports /\ size \in Sizes

\* "report buffer too small for report entry! Skip event!"
TooLarge(size) ==
    /\ CanBegin(size) /\ size > MemoryBlockSize
    /\ made' = made + 1
    /\ UNCHANGED <<memory, pointers, pc, locals, sent>>

\* An entry that fits into the block: where it goes and which loop makes room.
Begin(size, position, loop) ==
    /\ CanBegin(size) /\ size <= MemoryBlockSize
    /\ bufferEntrySize' = size /\ entryBufPos' = position
    /\ pc' = loop
    /\ UNCHANGED <<made, sent>>

\* The buffer is empty: the entry is put at the start of the block.
EnqueueFirst(size) ==
    /\ lastEnqueuedReport = NULL
    /\ Begin(size, 0, "write")
    /\ oldestReport' = 0 /\ nextToTransmit' = 0
    /\ UNCHANGED <<memory, lastEnqueuedReport, reportsCount>>

\* There is one report: the new one is put behind it or replaces it.
EnqueueSecond(size) ==
    /\ lastEnqueuedReport # NULL /\ lastEnqueuedReport = oldestReport
    /\ UNCHANGED lastEnqueuedReport
    /\ IF Overflows(EndOf(lastEnqueuedReport), size)
       THEN /\ Begin(size, 0, "write")
            /\ reportsCount' = 0
            /\ oldestReport' = 0
            /\ nextToTransmit' = NULL
            /\ UNCHANGED memory
       ELSE /\ Begin(size, EndOf(lastEnqueuedReport), "write")
            /\ memory' = [memory EXCEPT ![oldestReport].next =
                                            EndOf(lastEnqueuedReport)]
            /\ UNCHANGED <<reportsCount, oldestReport, nextToTransmit>>

\* The reports lie in one run: behind the last one, or at the start again.
EnqueueAfter(size) ==
    /\ lastEnqueuedReport > oldestReport
    /\ IF Overflows(EndOf(lastEnqueuedReport), size)
       THEN Begin(size, 0, "wrap")
       ELSE Begin(size, EndOf(lastEnqueuedReport), "link")
    /\ UNCHANGED <<memory, pointers>>

\* The oldest reports lie above the last one.
EnqueueBelow(size) ==
    /\ lastEnqueuedReport # NULL /\ lastEnqueuedReport < oldestReport
    /\ IF Overflows(EndOf(lastEnqueuedReport), size)
       THEN Begin(size, 0, "upper")
       ELSE Begin(size, EndOf(lastEnqueuedReport), "fit")
    /\ UNCHANGED <<memory, pointers>>

\* (mutated: the loops keep a report of which the new one needs the first byte)
CoversLess == entryBufPos + bufferEntrySize > oldestReport + 1

\* (mutated: the loops go on as long as the new entry touches the oldest one)
CoversMore == entryBufPos + bufferEntrySize >= oldestReport

\* The conditions of the while loops.
Covers == entryBufPos + bufferEntrySize > oldestReport
Evicting ==
    \/ pc = "wrap" /\ Covers
    \/ pc = "upper" /\ oldestReport > 0
    \/ pc = "lower" /\ Covers /\ oldestReport # NULL
    \/ pc = "fit" /\ Covers /\ oldestReport # 0 /\ oldestReport # NULL

\* (mutated: the report to transmit next is not moved on when it is removed)
EvictKeepsNext ==
    /\ Evicting
    /\ LET next == memory[oldestReport].next IN
         IF pc = "wrap" /\ next = NULL
         THEN oldestReport' = entryBufPos /\ pc' = "link"
         ELSE oldestReport' = next /\ UNCHANGED pc
    /\ reportsCount' = reportsCount - 1
    /\ UNCHANGED <<memory, lastEnqueuedReport, nextToTransmit, locals, made, sent>>

\* The body of the while loops: remove the oldest report.
Evict ==
    /\ Evicting
    /\ LET next == memory[oldestReport].next IN
         /\ nextToTransmit' = IF nextToTransmit = oldestReport THEN next
                              ELSE nextToTransmit
         /\ IF pc = "wrap" /\ next = NULL
            THEN oldestReport' = entryBufPos /\ pc' = "link"
            ELSE oldestReport' = next /\ UNCHANGED pc
    /\ reportsCount' = reportsCount - 1
    /\ UNCHANGED <<memory, lastEnqueuedReport, locals, made, sent>>

\* The first loop of "buffer overflow" below the oldest report has ended.
UpperDone ==
    /\ pc = "upper" /\ ~Evicting
    /\ pc' = "lower"
    /\ UNCHANGED <<memory, pointers, locals, made, sent>>

\* The entry is linked and encoded, and becomes the last one.
Encode ==
    /\ pc \notin {"idle", "upper"} /\ ~Evicting
    /\ LET linked == IF pc = "write" THEN memory
                     ELSE [memory EXCEPT ![lastEnqueuedReport].next = entryBufPos]
           entry == [number |-> made + 1, entryLength |-> bufferEntrySize,
                     next |-> NULL]
       IN  memory' = Written(linked, entryBufPos, bufferEntrySize, entry)
    /\ lastEnqueuedReport' = entryBufPos
    /\ reportsCount' = reportsCount + 1
    /\ nextToTransmit' = IF nextToTransmit = NULL THEN entryBufPos
                         ELSE nextToTransmit
    /\ oldestReport' = IF oldestReport = NULL THEN entryBufPos ELSE oldestReport
    /\ made' = made + 1
    /\ pc' = "idle" /\ entryBufPos' = 0 /\ bufferEntrySize' = 0
    /\ UNCHANGED sent

\* sendNextReportEntry
SendNextReportEntry ==
    /\ pc = "idle" /\ nextToTransmit # NULL
    /\ sent' = memory[nextToTransmit].number
    /\ nextToTransmit' = memory[nextToTransmit].next
    /\ UNCHANGED <<memory, oldestReport, lastEnqueuedReport, reportsCount, pc,
                   locals, made>>

\* purgeBuf
PurgeBuf ==
    /\ pc = "idle"
    /\ oldestReport' = NULL /\ lastEnqueuedReport' = NULL
    /\ nextToTransmit' = NULL /\ reportsCount' = 0
    /\ UNCHANGED <<memory, pc, locals, made, sent>>

EnqueueReport(size) ==
    \/ TooLarge(size) \/ EnqueueFirst(size) \/ EnqueueSecond(size)
    \/ EnqueueAfter(size) \/ EnqueueBelow(size)

Next == \/ \E size \in Sizes : EnqueueReport(size)
        \/ Evict \/ UpperDone \/ Encode
        \/ SendNextReportEntry
        \/ PurgeBuf

Spec == Init /\ [][Next]_vars
-----------------------------------------------------------------------------
\* The first reportsCount addresses of the list, from the oldest report on.
Chain ==
    LET follow[n \in 1 .. MaxReports] ==
            IF n = 1 THEN oldestReport
            ELSE IF follow[n - 1] = NULL THEN NULL
            ELSE memory[follow[n - 1]].next
    IN  [n \in 1 .. reportsCount |-> follow[n]]

\* The bytes of the entry at p and the bytes that are about to be overwritten.
Occupied(p) == p .. EndOf(p) - 1
Target == entryBufPos .. entryBufPos + bufferEntrySize - 1
-----------------------------------------------------------------------------
(***************************************************************************)
(* Properties.                                                             *)
(***************************************************************************)

\* The asserts of enqueueReport and sendNextReportEntry: one report is counted
\* when the oldest one is the last one, there is an oldest report to remove,
\* and the list does not lead back to the report to transmit.
Asserts ==
    /\ pc = "idle" /\ lastEnqueuedReport # NULL
           /\ lastEnqueuedReport = oldestReport => reportsCount = 1
    /\ Evicting => oldestReport # NULL
    /\ pc = "idle" /\ nextToTransmit # NULL
           => memory[nextToTransmit].next # nextToTransmit

\* Between two calls the list from oldestReport leads through reportsCount
\* intact entries inside the block that do not overlap, and ends with
\* lastEnqueuedReport: enqueueReport never overwrites a report it still keeps.
\* The asserts of the code hold.
ListIntact ==
    /\ Asserts
    /\ pc = "idle" =>
        /\ \A i \in 1 .. reportsCount :
               /\ Chain[i] # NULL
               /\ memory[Chain[i]] # Garbage
               /\ EndOf(Chain[i]) <= MemoryBlockSize
               /\ \A j \in 1 .. i - 1 :
                      Occupied(Chain[i]) \cap Occupied(Chain[j]) = {}
        /\ IF reportsCount = 0
           THEN oldestReport = NULL /\ lastEnqueuedReport = NULL
           ELSE /\ lastEnqueuedReport = Chain[reportsCount]
                /\ memory[lastEnqueuedReport].next = NULL

\* A report is removed from the buffer only when the new report needs memory
\* that this report, or a younger one that is kept, occupies.
EvictsOnlyIfNeeded ==
    [][Evict => \E i \in 1 .. reportsCount : Occupied(Chain[i]) \cap Target # {}]_vars

\* The buffer behaves like the queue of reports it is meant to be.
Queue == INSTANCE ReportQueue WITH
    queue  <- [i \in 1 .. reportsCount |-> memory[Chain[i]].number],
    unsent <- IF \E i \in 1 .. reportsCount : Chain[i] = nextToTransmit
              THEN 1 + reportsCount
                     - (CHOOSE i \in 1 .. reportsCount : Chain[i] = nextToTransmit)
              ELSE 0,
    making <- pc # "idle"

\* Reports are transmitted in the order they were made, none twice, and one is
\* dropped only to make room for a new one, the oldest first, or by a purge.
BehavesAsQueue == Queue!Spec
=============================================================================
