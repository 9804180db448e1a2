------------------------ MODULE TableTransferProofs ------------------------
(***************************************************************************)
(* A move of tables gives the target what the handles showed, a write is   *)
(* lost in two known ways only, and no file that a lake keeps below its    *)
(* own data path is lost: for any number of tables, writes and transfers,  *)
(* and any handles.                                                        *)
(***************************************************************************)
EXTENDS TableTransfer, SequenceTheorems, TLAPS

-----------------------------------------------------------------------------
(* The inductive invariant.                                                *)

LakeData == UNION {[S -> SUBSET Chunk] : S \in SUBSET Names}
LakeState == [head : Nat, oldest : Nat, data : LakeData, retired : SUBSET Chunk]

PinData == UNION {[S -> Nat] : S \in SUBSET Names}

Scanning ==
    [pc : {"scan"}, move : BOOLEAN, names : SUBSET Names, pins : PinData, scan : LakeData,
     head : Nat]
Copying ==
    [pc : {"copy"}, move : BOOLEAN, names : SUBSET Names, pins : PinData, scan : LakeData,
     head : Nat, copied : SUBSET Chunk]
Moving ==
    [pc : {"check", "drop", "drop_commit"}, move : {TRUE}, names : SUBSET Names, pins : PinData,
     head : Nat]

Typed ==
    /\ source \in LakeState /\ target \in LakeState
    /\ store \subseteq Files(Chunk)
    /\ writes \in 0 .. MaxWrites
    /\ job \in {NoJob} \union Scanning \union Copying \union Moving
    /\ past \in Seq(LakeData)
    /\ Len(past) = source.head + 1 /\ past[source.head + 1] = source.data

\* The source has its own writes, each of them once.
SourceOwns ==
    /\ \A c \in Contents(source) \union source.retired : c.home = "source" /\ c.write <= writes
    /\ \A n, m \in Tables(source) : n # m => source.data[n] \intersect source.data[m] = {}
    /\ Contents(source) \intersect source.retired = {}

\* A table never loses data: a snapshot of it has no more than the head.
PastKept ==
    \A i \in 1 .. Len(past) : \A n \in DOMAIN past[i] \intersect Tables(source) :
        past[i][n] \subseteq source.data[n]

\* What the handles of a move hide may be lost; it was noted when the move began.
HiddenNoted ==
    \A n \in DOMAIN job.pins \intersect Tables(source) :
        \A c \in source.data[n] : c \in past[job.pins[n] + 1][n] \/ c.write \in exposed

\* What was scanned through a pinned handle is the snapshot of the handle; what
\* was scanned otherwise is what the source still has if its head has not moved.
ScanHolds ==
    job.pc \in {"scan", "copy"} =>
        /\ job.head <= source.head
        /\ DOMAIN job.scan \subseteq job.names
        /\ \A n \in DOMAIN job.pins : n \in job.names /\ job.pins[n] <= job.head
        /\ \A n \in DOMAIN job.scan : \A c \in job.scan[n] : c.home = "source"
        /\ \A n \in DOMAIN job.scan \intersect Tables(source) :
              n \in DOMAIN job.pins => job.scan[n] = past[job.pins[n] + 1][n]
        /\ source.head = job.head =>
              /\ \A n \in DOMAIN job.scan \ DOMAIN job.pins :
                    n \in Tables(source) /\ job.scan[n] = source.data[n]
              /\ job.move => HiddenNoted

\* The objects a transfer has copied are there, below the path of the target.
CopiesHold ==
    job.pc = "copy" =>
        /\ DOMAIN job.scan = job.names
        /\ job.copied \subseteq store
        /\ \A c \in job.copied : c.home = "target"

\* Once the target has the tables, they are what the handles showed at the start
\* of the move, if the head of the source has not moved until it was checked; and
\* what the source has beyond that may be lost.
MoveHolds ==
    /\ job.pc \in {"check", "drop", "drop_commit"} =>
          /\ job.head <= source.head /\ job.names \subseteq Tables(target)
          /\ \A n \in DOMAIN job.pins : n \in job.names /\ job.pins[n] <= job.head
          /\ \A n \in DOMAIN job.pins \intersect Tables(source) :
                target.data[n] = past[job.pins[n] + 1][n]
    /\ job.pc = "check" /\ source.head = job.head =>
          /\ \A n \in job.names \ DOMAIN job.pins :
                n \in Tables(source) /\ target.data[n] = source.data[n]
          /\ HiddenNoted
    /\ job.pc \in {"drop", "drop_commit"} =>
          /\ \A n \in job.names \ DOMAIN job.pins : target.data[n] = past[job.head + 1][n]
          /\ \A n \in job.names \intersect Tables(source) :
                \A c \in source.data[n] : c \in target.data[n] \/ c.write \in exposed

IndInv ==
    /\ Typed /\ SourceOwns /\ PastKept
    /\ ScanHolds /\ CopiesHold /\ MoveHolds
    /\ OwnFilesReadable
    /\ OnlyExposedLost

-----------------------------------------------------------------------------
(* Facts about the operators.                                              *)

(* The data of a lake is a function from its tables to sets of chunks.     *)
LEMMA LakeDataFacts ==
    ASSUME NEW f
    PROVE  f \in LakeData <=> DOMAIN f \subseteq Names /\ f \in [DOMAIN f -> SUBSET Chunk]
BY DEF LakeData

(* Tables are added to a lake, replacing those of the same name.           *)
LEMMA MergedFacts ==
    ASSUME NEW f \in LakeData, NEW g \in LakeData
    PROVE  /\ Merged(f, g) \in LakeData
           /\ DOMAIN Merged(f, g) = DOMAIN f \union DOMAIN g
           /\ \A n \in DOMAIN g : Merged(f, g)[n] = g[n]
           /\ \A n \in DOMAIN f \ DOMAIN g : Merged(f, g)[n] = f[n]
<1>1. /\ DOMAIN f \subseteq Names /\ f \in [DOMAIN f -> SUBSET Chunk]
      /\ DOMAIN g \subseteq Names /\ g \in [DOMAIN g -> SUBSET Chunk]
  BY LakeDataFacts
<1>2. /\ DOMAIN Merged(f, g) = DOMAIN f \union DOMAIN g
      /\ \A n \in DOMAIN g : Merged(f, g)[n] = g[n]
      /\ \A n \in DOMAIN f \ DOMAIN g : Merged(f, g)[n] = f[n]
  BY DEF Merged
<1>3. Merged(f, g) \in [DOMAIN Merged(f, g) -> SUBSET Chunk]
  BY <1>1 DEF Merged
<1>. QED
  BY <1>1, <1>2, <1>3, LakeDataFacts

(* Tables are dropped from a lake.                                         *)
LEMMA DroppingFacts ==
    ASSUME NEW f \in LakeData, NEW S
    PROVE  /\ Dropping(f, S) \in LakeData
           /\ DOMAIN Dropping(f, S) = DOMAIN f \ S
           /\ \A n \in DOMAIN f \ S : Dropping(f, S)[n] = f[n]
<1>1. DOMAIN f \subseteq Names /\ f \in [DOMAIN f -> SUBSET Chunk]
  BY LakeDataFacts
<1>2. /\ DOMAIN Dropping(f, S) = DOMAIN f \ S
      /\ \A n \in DOMAIN f \ S : Dropping(f, S)[n] = f[n]
      /\ Dropping(f, S) \in [DOMAIN Dropping(f, S) -> SUBSET Chunk]
  BY <1>1 DEF Dropping
<1>. QED
  BY <1>1, <1>2, LakeDataFacts

(* A commit to the source adds one version to its history.                 *)
LEMMA SourceCommitFacts ==
    ASSUME IndInv, NEW data \in LakeData, NEW retired \in SUBSET Chunk,
           SourceCommit(data, retired)
    PROVE  /\ source' \in LakeState
           /\ source'.head = source.head + 1 /\ source'.data = data /\ source'.retired = retired
           /\ past' \in Seq(LakeData)
           /\ Len(past') = source'.head + 1 /\ past'[source'.head + 1] = data
           /\ \A i \in 1 .. source.head + 1 : past'[i] = past[i]
           /\ source.head \in Nat /\ source.oldest \in Nat /\ source'.oldest = source.oldest
<1>2. source.head \in Nat /\ source.oldest \in Nat /\ source \in LakeState
  BY DEF IndInv, Typed, LakeState
<1>1. /\ source' = [head |-> source.head + 1, oldest |-> source.oldest, data |-> data,
                     retired |-> retired]
      /\ past' = Append(past, data)
  BY <1>2 DEF SourceCommit, LakeState
<1>3. source' \in LakeState /\ source'.head = source.head + 1 /\ source'.data = data
      /\ source'.retired = retired /\ source'.oldest = source.oldest
  BY <1>1, <1>2 DEF LakeState
<1>4. past \in Seq(LakeData) /\ Len(past) = source.head + 1
  BY DEF IndInv, Typed
<1>5. /\ past' \in Seq(LakeData) /\ Len(past') = Len(past) + 1 /\ past'[Len(past) + 1] = data
      /\ \A i \in 1 .. Len(past) : past'[i] = past[i]
  BY <1>1, <1>4, AppendProperties
<1>. QED
  BY <1>2, <1>3, <1>4, <1>5

(* What the job looks like in its phases.                                  *)
LEMMA JobPhases ==
    ASSUME IndInv
    PROVE  /\ job.pc = "scan" => job \in Scanning
           /\ job.pc = "copy" => job \in Copying
           /\ job.pc \in {"check", "drop", "drop_commit"} => job \in Moving
           /\ job.pc \in {"idle", "scan", "copy", "check", "drop", "drop_commit"}
<1>1. job \in {NoJob} \union Scanning \union Copying \union Moving
  BY DEF IndInv, Typed
<1>2. NoJob.pc = "idle"
  BY DEF NoJob
<1>3. /\ \A j \in Scanning : j.pc = "scan"
      /\ \A j \in Copying : j.pc = "copy"
      /\ \A j \in Moving : j.pc \in {"check", "drop", "drop_commit"}
  BY DEF Scanning, Copying, Moving
<1>. QED
  BY <1>1, <1>2, <1>3

(* The tables of both lakes hold chunks of data.                           *)
LEMMA SourceFacts ==
    ASSUME IndInv
    PROVE  /\ source.head \in Nat /\ source.oldest \in Nat /\ source.retired \subseteq Chunk
           /\ source.data \in LakeData /\ target.data \in LakeData
           /\ Tables(source) \subseteq Names /\ Tables(target) \subseteq Names
           /\ Contents(source) \subseteq Chunk /\ Contents(target) \subseteq Chunk
           /\ \A n \in Tables(source) : source.data[n] \subseteq Chunk
<1>1. source.data \in LakeData /\ target.data \in LakeData
  BY DEF IndInv, Typed, LakeState
<1>2. /\ DOMAIN source.data \subseteq Names /\ source.data \in [DOMAIN source.data -> SUBSET Chunk]
      /\ DOMAIN target.data \subseteq Names /\ target.data \in [DOMAIN target.data -> SUBSET Chunk]
  BY <1>1, LakeDataFacts
<1>3. Contents(source) \subseteq Chunk /\ Contents(target) \subseteq Chunk
  BY <1>2 DEF Contents, Tables
<1>. QED
  BY <1>1, <1>2, <1>3 DEF IndInv, Typed, LakeState, Tables

(* The chunks of a lake are the chunks of its tables.                      *)
LEMMA ContentsOf ==
    ASSUME NEW lake, NEW c
    PROVE  c \in Contents(lake) <=> \E n \in Tables(lake) : c \in lake.data[n]
BY DEF Contents

-----------------------------------------------------------------------------
(* The invariant holds initially, and every step preserves it.             *)

(* Empty tables in the source, nothing in the target.                      *)
LEMMA InitEstablishes == Init => IndInv
<1> SUFFICES ASSUME Init PROVE IndInv
  OBVIOUS
<1> DEFINE data == [n \in Names |-> {}]
<1>1. /\ source.head = 0 /\ source.data = data /\ source.retired = {}
      /\ target.head = 0 /\ target.data = <<>> /\ target.retired = {}
  BY DEF Init, Lake
<1>2. data \in LakeData
  <2>1. DOMAIN data \subseteq Names /\ data \in [DOMAIN data -> SUBSET Chunk]
    OBVIOUS
  <2>. QED
    BY <2>1, LakeDataFacts
<1>3. <<>> \in LakeData
  <2>1. DOMAIN <<>> = {} /\ <<>> \in [{} -> SUBSET Chunk]
    OBVIOUS
  <2>. QED
    BY <2>1, LakeDataFacts
<1>4. Contents(source) = {} /\ Contents(target) = {}
  <2>1. \A n \in DOMAIN source.data : source.data[n] = {}
    BY <1>1
  <2>2. DOMAIN target.data = {}
    BY <1>1
  <2>. QED
    BY <2>1, <2>2, ContentsOf DEF Tables
<1>. HIDE DEF data
<1>5. Typed
  <2>1. source \in LakeState
    BY <1>2 DEF Init, Lake, LakeState, data
  <2>2. target \in LakeState
    BY <1>3 DEF Init, Lake, LakeState
  <2>3. past \in Seq(LakeData) /\ Len(past) = source.head + 1 /\ past[source.head + 1] = source.data
    <3>1. past = <<data>> /\ source.head + 1 = 1
      BY <1>1 DEF Init
    <3>2. <<data>> \in Seq(LakeData) /\ Len(<<data>>) = 1 /\ <<data>>[1] = data
      BY <1>2
    <3>. QED
      BY <1>1, <3>1, <3>2
  <2>. QED
    BY <2>1, <2>2, <2>3, TransferAssumption DEF Init, Typed
<1>past. PastKept
  <2>1. past = <<source.data>>
    BY DEF Init
  <2>2. Len(past) = 1 /\ past[1] = source.data
    BY <2>1
  <2>3. \A i \in 1 .. 1 : i = 1
    OBVIOUS
  <2>. QED
    BY <2>2, <2>3 DEF PastKept
<1>6. SourceOwns
  BY <1>1, <1>4 DEF SourceOwns, data, Tables
<1>7. ScanHolds /\ CopiesHold /\ MoveHolds
  BY DEF Init, NoJob, ScanHolds, CopiesHold, MoveHolds
<1>8. OwnFilesReadable /\ OnlyExposedLost
  <2>1. writes = 0
    BY DEF Init
  <2>. QED
    BY <1>4, <2>1 DEF OwnFilesReadable, OnlyExposedLost, Files
<1>. QED
  BY <1>5, <1>6, <1>7, <1>8, <1>past DEF IndInv

(* A step of the transfer that changes no lake has to be looked at for     *)
(* what the transfer holds.                                                *)
LEMMA JobStep ==
    ASSUME IndInv, UNCHANGED <<source, target, store, writes, dropped, exposed, past>>,
           job' \in {NoJob} \union Scanning \union Copying \union Moving,
           ScanHolds', CopiesHold', MoveHolds'
    PROVE  IndInv'
<1>1. (Typed /\ SourceOwns /\ PastKept)'
  BY DEF IndInv, Typed, SourceOwns, PastKept, Contents, Tables
<1>2. OwnFilesReadable' /\ OnlyExposedLost'
  BY DEF IndInv, OwnFilesReadable, OnlyExposedLost, Contents, Tables, Files, Writes
<1>. QED
  BY <1>1, <1>2 DEF IndInv

(* A transfer that is given up leaves what it committed.                   *)
LEMMA FinishStep ==
    ASSUME IndInv, UNCHANGED <<source, target, store, writes, dropped, exposed, past>>, job' = NoJob
    PROVE  IndInv'
<1>1. (ScanHolds /\ CopiesHold /\ MoveHolds)'
  BY DEF NoJob, ScanHolds, CopiesHold, MoveHolds
<1>. QED
  BY <1>1, JobStep

(* Another client commits to the source: what a transfer concludes from an *)
(* unmoved head is void, and what it has checked stays true.               *)
LEMMA OthersCommit ==
    ASSUME IndInv, UNCHANGED <<target, job>>, store \subseteq store', exposed \subseteq exposed',
           source'.head = source.head + 1,
           \A i \in 1 .. source.head + 1 : past'[i] = past[i],
           Tables(source') \subseteq Tables(source),
           job.pc \in {"drop", "drop_commit"} =>
               \A n \in job.names \intersect Tables(source') :
                   \A c \in source'.data[n] : c \in source.data[n] \/ c.write \in exposed'
    PROVE  (ScanHolds /\ CopiesHold /\ MoveHolds)'
<1>1. source.head \in Nat
  BY SourceFacts
<1>0. ASSUME job.pc \in {"scan", "copy", "check", "drop", "drop_commit"}
      PROVE  /\ job.head \in Nat /\ job.head <= source.head
             /\ \A n \in DOMAIN job.pins : job.pins[n] \in Nat /\ job.pins[n] <= job.head
  <2>1. job.head \in Nat /\ job.pins \in PinData
    BY <1>0, JobPhases DEF Scanning, Copying, Moving
  <2>2. \A n \in DOMAIN job.pins : job.pins[n] \in Nat
    BY <2>1 DEF PinData
  <2>. QED
    BY <1>0, <2>1, <2>2 DEF IndInv, ScanHolds, MoveHolds
<1>h. ASSUME job.pc \in {"scan", "copy", "check", "drop", "drop_commit"}
      PROVE  /\ job.head <= source'.head /\ source'.head # job.head
             /\ past'[job.head + 1] = past[job.head + 1]
             /\ \A n \in DOMAIN job.pins : past'[job.pins[n] + 1] = past[job.pins[n] + 1]
  <2>1. job.head + 1 \in 1 .. source.head + 1
    BY <1>0, <1>1, <1>h
  <2>2. ASSUME NEW n \in DOMAIN job.pins
        PROVE  job.pins[n] + 1 \in 1 .. source.head + 1
    BY <1>0, <1>1, <1>h
  <2>. QED
    BY <1>0, <1>1, <1>h, <2>1, <2>2
<1>2. ScanHolds'
  <2>1. SUFFICES ASSUME job.pc \in {"scan", "copy"} PROVE ScanHolds'
    BY DEF ScanHolds
  <2>. QED
    BY <1>h, <2>1 DEF IndInv, ScanHolds
<1>3. CopiesHold'
  BY DEF IndInv, CopiesHold
<1>4. MoveHolds'
  <2>1. SUFFICES ASSUME job.pc \in {"check", "drop", "drop_commit"} PROVE MoveHolds'
    BY DEF MoveHolds
  <2>2. /\ job.head <= source'.head /\ job.names \subseteq Tables(target)
        /\ \A n \in DOMAIN job.pins : n \in job.names /\ job.pins[n] <= job.head
        /\ \A n \in DOMAIN job.pins \intersect Tables(source') :
              target.data[n] = past'[job.pins[n] + 1][n]
    BY <1>h, <2>1 DEF IndInv, MoveHolds
  <2>3. ASSUME job.pc \in {"drop", "drop_commit"}
        PROVE  /\ \A n \in job.names \ DOMAIN job.pins : target.data[n] = past'[job.head + 1][n]
               /\ \A n \in job.names \intersect Tables(source') :
                     \A c \in source'.data[n] : c \in target.data[n] \/ c.write \in exposed'
    BY <1>h, <2>1, <2>3 DEF IndInv, MoveHolds
  <2>. QED
    BY <1>h, <2>1, <2>2, <2>3 DEF MoveHolds, Tables
<1>. QED
  BY <1>2, <1>3, <1>4

(* A write to a table of the source.                                       *)
LEMMA WriteStep ==
    ASSUME IndInv, NEW n \in Names, NEW kind \in {"file", "inline"}, Write(n, kind)
    PROVE  IndInv'
<1> DEFINE c == [write |-> writes + 1, kind |-> kind, home |-> "source"]
           data == [source.data EXCEPT ![n] = @ \union {c}]
<1>1. /\ writes < MaxWrites /\ n \in Tables(source) /\ writes' = writes + 1
      /\ SourceCommit(data, source.retired) /\ store' = store \union Files({c})
      /\ exposed' = exposed \union {w \in {writes + 1} : Unnoticed(n)}
      /\ UNCHANGED <<target, dropped, job>>
  BY DEF Write
<1>2. writes \in Nat /\ writes + 1 \in 1 .. MaxWrites
  BY <1>1, TransferAssumption DEF IndInv, Typed
<1>3. c \in Chunk /\ c.home = "source" /\ c.write = writes + 1
  BY <1>2 DEF Chunk, Lakes
<1>. HIDE DEF c
<1>4. /\ source.data \in [Tables(source) -> SUBSET Chunk] /\ Tables(source) \subseteq Names
      /\ source.data \in LakeData
  BY SourceFacts, LakeDataFacts DEF Tables
<1>5. /\ DOMAIN data = Tables(source) /\ data[n] = source.data[n] \union {c}
      /\ \A m \in Tables(source) : m # n => data[m] = source.data[m]
      /\ data \in [DOMAIN data -> SUBSET Chunk]
  BY <1>1, <1>3, <1>4 DEF Tables
<1>6. data \in LakeData
  BY <1>4, <1>5, LakeDataFacts
<1>. HIDE DEF data
<1>7. /\ source' \in LakeState /\ source.head \in Nat
      /\ source'.head = source.head + 1 /\ source'.data = data /\ source'.retired = source.retired
      /\ past' \in Seq(LakeData)
      /\ Len(past') = source'.head + 1 /\ past'[source'.head + 1] = data
      /\ \A i \in 1 .. source.head + 1 : past'[i] = past[i]
  BY <1>1, <1>6, SourceCommitFacts, SourceFacts
<1>8. Tables(source') = Tables(source) /\ Contents(source') = Contents(source) \union {c}
  <2>1. Tables(source') = Tables(source)
    BY <1>5, <1>7 DEF Tables
  <2>2. ASSUME NEW x \in Contents(source')
        PROVE  x \in Contents(source) \union {c}
    <3>1. PICK m \in Tables(source) : x \in data[m]
      BY <1>7, <2>1, ContentsOf
    <3>2. x \in source.data[m] \/ x = c
      BY <1>5, <3>1
    <3>. QED
      BY <3>2, ContentsOf
  <2>3. ASSUME NEW x \in Contents(source)
        PROVE  x \in Contents(source')
    <3>1. PICK m \in Tables(source) : x \in source.data[m]
      BY ContentsOf
    <3>2. x \in source'.data[m]
      BY <1>5, <1>7, <3>1
    <3>. QED
      BY <2>1, <3>2, ContentsOf
  <2>4. c \in Contents(source')
    <3>1. c \in source'.data[n]
      BY <1>5, <1>7
    <3>. QED
      BY <1>1, <2>1, <3>1, ContentsOf
  <2>. QED
    BY <2>1, <2>2, <2>3, <2>4
<1>9. c \notin Contents(source) \union source.retired
      /\ \A x \in Contents(source) \union source.retired : x.write <= writes + 1
  <2>1. \A x \in Contents(source) \union source.retired : x.write \in Int /\ x.write <= writes
    BY SourceFacts DEF IndInv, SourceOwns, Chunk
  <2>. QED
    BY <1>2, <1>3, <2>1
<1>10. Files({c}) \subseteq Files(Chunk) /\ \A x \in Files({c}) : x = c
  BY <1>3 DEF Files
<1>11. Typed'
  <2>1. writes' \in 0 .. MaxWrites
    BY <1>1, <1>2
  <2>2. store' \subseteq Files(Chunk)
    BY <1>1, <1>10 DEF IndInv, Typed
  <2>. QED
    BY <1>1, <1>7, <2>1, <2>2 DEF IndInv, Typed
<1>12. SourceOwns'
  <2>1. \A x \in Contents(source') \union source'.retired : x.home = "source" /\ x.write <= writes'
    BY <1>1, <1>2, <1>3, <1>7, <1>8, <1>9 DEF IndInv, SourceOwns
  <2>2. ASSUME NEW l \in Tables(source'), NEW m \in Tables(source'), l # m
        PROVE  source'.data[l] \intersect source'.data[m] = {}
    <3>1. l \in Tables(source) /\ m \in Tables(source)
      BY <1>8
    <3>2. source.data[l] \intersect source.data[m] = {}
      BY <2>2, <3>1 DEF IndInv, SourceOwns
    <3>3. c \notin source.data[l] /\ c \notin source.data[m]
      BY <1>9, <3>1, ContentsOf
    <3>. QED
      BY <1>5, <1>7, <2>2, <3>1, <3>2, <3>3
  <2>3. Contents(source') \intersect source'.retired = {}
    BY <1>7, <1>8, <1>9 DEF IndInv, SourceOwns
  <2>. QED
    BY <2>1, <2>2, <2>3 DEF SourceOwns
<1>past. PastKept'
  <2>1. ASSUME NEW i \in 1 .. Len(past'), NEW m \in DOMAIN past'[i] \intersect Tables(source')
        PROVE  past'[i][m] \subseteq source'.data[m]
    <3>1. CASE i = source.head + 2
      BY <1>7, <3>1
    <3>2. CASE i # source.head + 2
      <4>1. i \in 1 .. source.head + 1
        BY <1>7, <2>1, <3>2
      <4>2. past'[i] = past[i] /\ i \in 1 .. Len(past)
        BY <1>7, <4>1 DEF IndInv, Typed
      <4>3. past[i][m] \subseteq source.data[m] /\ m \in Tables(source)
        BY <1>8, <2>1, <4>2 DEF IndInv, PastKept
      <4>. QED
        BY <1>5, <1>7, <4>2, <4>3
    <3>. QED
      BY <3>1, <3>2
  <2>. QED
    BY <2>1 DEF PastKept
<1>13. (ScanHolds /\ CopiesHold /\ MoveHolds)'
  <2>1. ASSUME job.pc \in {"drop", "drop_commit"}, NEW m \in job.names \intersect Tables(source'),
               NEW x \in source'.data[m]
        PROVE  x \in source.data[m] \/ x.write \in exposed'
    <3>1. CASE m # n
      BY <1>5, <1>7, <1>8, <2>1, <3>1
    <3>2. CASE m = n
      <4>1. x \in source.data[m] \/ x = c
        BY <1>5, <1>7, <2>1, <3>2
      <4>2. Unnoticed(n)
        BY <2>1, <3>2 DEF Unnoticed
      <4>. QED
        BY <1>1, <1>3, <4>1, <4>2
    <3>. QED
      BY <3>1, <3>2
  <2>. QED
    BY <1>1, <1>7, <1>8, <2>1, OthersCommit
<1>14. OwnFilesReadable'
  BY <1>1, <1>8 DEF IndInv, OwnFilesReadable, Files, Contents, Tables
<1>15. OnlyExposedLost'
  <2>1. SUFFICES ASSUME NEW w \in 1 .. writes'
                 PROVE  w \in dropped' \union exposed' \union Writes(Contents(source')) \union Writes(Contents(target'))
    BY DEF OnlyExposedLost
  <2>2. CASE w = writes + 1
    BY <1>3, <1>8, <2>2 DEF Writes
  <2>3. CASE w \in 1 .. writes
    <3>1. w \in dropped \union exposed \union Writes(Contents(source)) \union Writes(Contents(target))
      BY <2>1, <2>3 DEF IndInv, OnlyExposedLost
    <3>2. Writes(Contents(source)) \subseteq Writes(Contents(source'))
      BY <1>8 DEF Writes
    <3>. QED
      BY <1>1, <3>1, <3>2
  <2>. QED
    BY <1>1, <1>2, <2>1, <2>2, <2>3
<1>. QED
  BY <1>11, <1>12, <1>13, <1>14, <1>15, <1>past DEF IndInv

(* Tables are dropped in the source; some of their rows are kept as        *)
(* retired ones, and nothing else changes.                                 *)
LEMMA TablesGo ==
    ASSUME IndInv, NEW S \in SUBSET Names, NEW gone,
           gone \subseteq UNION {source.data[n] : n \in S \intersect Tables(source)},
           SourceCommit(Dropping(source.data, S), source.retired \union gone),
           UNCHANGED <<target, store, writes>>,
           job' \in {NoJob} \union Scanning \union Copying \union Moving
    PROVE  /\ Typed' /\ SourceOwns' /\ PastKept' /\ OwnFilesReadable'
           /\ source'.head = source.head + 1
           /\ \A i \in 1 .. source.head + 1 : past'[i] = past[i]
           /\ Tables(source') = Tables(source) \ S
           /\ \A n \in Tables(source') : source'.data[n] = source.data[n]
<1> DEFINE data == Dropping(source.data, S)
<1>1. /\ data \in LakeData /\ DOMAIN data = Tables(source) \ S
      /\ \A n \in Tables(source) \ S : data[n] = source.data[n]
  BY SourceFacts, DroppingFacts DEF Tables
<1>2. source.retired \union gone \subseteq Chunk
  BY SourceFacts
<1>. HIDE DEF data
<1>3. /\ source' \in LakeState /\ source.head \in Nat
      /\ source'.head = source.head + 1 /\ source'.data = data
      /\ source'.retired = source.retired \union gone
      /\ past' \in Seq(LakeData)
      /\ Len(past') = source'.head + 1 /\ past'[source'.head + 1] = data
      /\ \A i \in 1 .. source.head + 1 : past'[i] = past[i]
  <2>1. SourceCommit(data, source.retired \union gone)
    BY DEF data
  <2>. QED
    BY <1>1, <1>2, <2>1, SourceCommitFacts
<1>4. /\ Tables(source') = Tables(source) \ S
      /\ \A n \in Tables(source') : source'.data[n] = source.data[n]
  BY <1>1, <1>3 DEF Tables
<1>5. ASSUME NEW x \in Contents(source')
      PROVE  \E n \in Tables(source) \ S : x \in source.data[n]
  BY <1>4, ContentsOf
<1>6. Contents(source') \subseteq Contents(source)
  BY <1>5, ContentsOf
<1>7. ASSUME NEW x \in gone
      PROVE  \E n \in S \intersect Tables(source) : x \in source.data[n]
  OBVIOUS
<1>8. gone \subseteq Contents(source)
  BY <1>7, ContentsOf
<1>9. gone \intersect Contents(source') = {}
  BY <1>5, <1>7 DEF IndInv, SourceOwns
<1>10. Typed'
  BY <1>3 DEF IndInv, Typed
<1>11. SourceOwns'
  <2>1. \A c \in Contents(source') \union source'.retired : c.home = "source" /\ c.write <= writes'
    BY <1>3, <1>6, <1>8 DEF IndInv, SourceOwns
  <2>2. \A n, m \in Tables(source') : n # m => source'.data[n] \intersect source'.data[m] = {}
    BY <1>4 DEF IndInv, SourceOwns
  <2>3. Contents(source') \intersect source'.retired = {}
    BY <1>3, <1>6, <1>9 DEF IndInv, SourceOwns
  <2>. QED
    BY <2>1, <2>2, <2>3 DEF SourceOwns
<1>12. OwnFilesReadable'
  BY <1>6 DEF IndInv, OwnFilesReadable, Files, Contents, Tables
<1>13. PastKept'
  <2>1. ASSUME NEW i \in 1 .. Len(past'), NEW m \in DOMAIN past'[i] \intersect Tables(source')
        PROVE  past'[i][m] \subseteq source'.data[m]
    <3>1. CASE i = source.head + 2
      BY <1>3, <3>1
    <3>2. CASE i # source.head + 2
      <4>1. i \in 1 .. source.head + 1
        BY <1>3, <2>1, <3>2
      <4>2. past'[i] = past[i] /\ i \in 1 .. Len(past)
        BY <1>3, <4>1 DEF IndInv, Typed
      <4>. QED
        BY <1>4, <2>1, <4>2 DEF IndInv, PastKept
    <3>. QED
      BY <3>1, <3>2
  <2>. QED
    BY <2>1 DEF PastKept
<1>. QED
  BY <1>3, <1>4, <1>10, <1>11, <1>12, <1>13

(* Another client drops a table of the source.                             *)
LEMMA DropTableStep ==
    ASSUME IndInv, NEW n \in Names, DropTable(n)
    PROVE  IndInv'
<1> DEFINE gone == source.data[n]
<1>1. /\ n \in Tables(source)
      /\ SourceCommit(Dropping(source.data, {n}), source.retired \union gone)
      /\ dropped' = dropped \union Writes(source.data[n])
      /\ UNCHANGED <<target, store, writes, exposed, job>>
  BY DEF DropTable
<1>2. gone \subseteq UNION {source.data[m] : m \in {n} \intersect Tables(source)}
  BY <1>1
<1>3. job' \in {NoJob} \union Scanning \union Copying \union Moving
  BY <1>1 DEF IndInv, Typed
<1>. HIDE DEF gone
<1>4. /\ Typed' /\ SourceOwns' /\ PastKept' /\ OwnFilesReadable'
      /\ source'.head = source.head + 1
      /\ \A i \in 1 .. source.head + 1 : past'[i] = past[i]
      /\ Tables(source') = Tables(source) \ {n}
      /\ \A m \in Tables(source') : source'.data[m] = source.data[m]
  BY <1>1, <1>2, <1>3, TablesGo
<1>5. (ScanHolds /\ CopiesHold /\ MoveHolds)'
  BY <1>1, <1>4, OthersCommit
<1>6. OnlyExposedLost'
  <2>1. SUFFICES ASSUME NEW w \in 1 .. writes
                 PROVE  w \in dropped' \union exposed' \union Writes(Contents(source')) \union Writes(Contents(target))
    BY <1>1 DEF OnlyExposedLost, Contents, Tables
  <2>2. w \in dropped \union exposed \union Writes(Contents(source)) \union Writes(Contents(target))
    BY <2>1 DEF IndInv, OnlyExposedLost
  <2>3. ASSUME w \in Writes(Contents(source))
        PROVE  w \in dropped' \union Writes(Contents(source'))
    <3>0. PICK c \in Contents(source) : w = c.write
      BY <2>3 DEF Writes
    <3>1. PICK m \in Tables(source) : c \in source.data[m]
      BY ContentsOf
    <3>2. CASE m = n
      BY <1>1, <3>0, <3>1, <3>2 DEF Writes
    <3>3. CASE m # n
      <4>1. m \in Tables(source') /\ c \in source'.data[m]
        BY <1>4, <3>1, <3>3
      <4>2. c \in Contents(source')
        BY <4>1, ContentsOf
      <4>. QED
        BY <3>0, <4>2 DEF Writes
    <3>. QED
      BY <3>2, <3>3
  <2>. QED
    BY <1>1, <2>2, <2>3
<1>. QED
  BY <1>4, <1>5, <1>6 DEF IndInv

(* Tables appear in the target under names that were free: what it had it  *)
(* still has.                                                              *)
LEMMA TargetGrows ==
    ASSUME IndInv, NEW new \in LakeData, DOMAIN new \intersect Tables(target) = {},
           target' = [target EXCEPT !.head = @ + 1, !.data = Merged(@, new)]
    PROVE  /\ target' \in LakeState
           /\ Tables(target') = Tables(target) \union DOMAIN new
           /\ \A n \in DOMAIN new : target'.data[n] = new[n]
           /\ \A n \in Tables(target) : target'.data[n] = target.data[n]
           /\ \A c \in Contents(target') :
                 c \in Contents(target) \/ \E n \in DOMAIN new : c \in new[n]
           /\ Contents(target) \subseteq Contents(target')
<1>1. target \in LakeState /\ target.data \in LakeData
  BY DEF IndInv, Typed, LakeState
<1>2. target' = [head |-> target.head + 1, oldest |-> target.oldest,
                 data |-> Merged(target.data, new), retired |-> target.retired]
  BY <1>1 DEF LakeState
<1>3. /\ Merged(target.data, new) \in LakeData
      /\ DOMAIN Merged(target.data, new) = Tables(target) \union DOMAIN new
      /\ \A n \in DOMAIN new : Merged(target.data, new)[n] = new[n]
      /\ \A n \in Tables(target) : Merged(target.data, new)[n] = target.data[n]
  BY <1>1, MergedFacts DEF Tables
<1>4. target' \in LakeState
  BY <1>1, <1>2, <1>3 DEF LakeState
<1>5. target'.data = Merged(target.data, new)
  BY <1>2
<1>6. /\ Tables(target') = Tables(target) \union DOMAIN new
      /\ \A n \in DOMAIN new : target'.data[n] = new[n]
      /\ \A n \in Tables(target) : target'.data[n] = target.data[n]
  BY <1>3, <1>5 DEF Tables
<1>7. \A c \in Contents(target') : c \in Contents(target) \/ \E n \in DOMAIN new : c \in new[n]
  BY <1>6, ContentsOf
<1>8. Contents(target) \subseteq Contents(target')
  BY <1>6, ContentsOf
<1>. QED
  BY <1>4, <1>6, <1>7, <1>8

(* Another client creates a table in the target.                           *)
LEMMA CreateInTargetStep ==
    ASSUME IndInv, NEW n \in Names, CreateInTarget(n)
    PROVE  IndInv'
<1> DEFINE new == [m \in {n} |-> {}]
<1>1. /\ n \notin Tables(target)
      /\ target' = [target EXCEPT !.head = @ + 1, !.data = Merged(@, new)]
      /\ UNCHANGED <<source, store, writes, dropped, exposed, job, past>>
  BY DEF CreateInTarget
<1>2. DOMAIN new = {n} /\ new \in LakeData /\ new[n] = {}
  BY LakeDataFacts
<1>. HIDE DEF new
<1>3. /\ target' \in LakeState
      /\ Tables(target') = Tables(target) \union {n}
      /\ \A m \in Tables(target) : target'.data[m] = target.data[m]
      /\ \A c \in Contents(target') : c \in Contents(target) \/ \E m \in {n} : c \in new[m]
      /\ Contents(target) \subseteq Contents(target')
  BY <1>1, <1>2, TargetGrows
<1>4. Contents(target') = Contents(target)
  BY <1>2, <1>3
<1>5. Typed'
  BY <1>1, <1>3 DEF IndInv, Typed
<1>6. (SourceOwns /\ PastKept /\ ScanHolds /\ CopiesHold)'
  BY <1>1 DEF IndInv, SourceOwns, PastKept, ScanHolds, HiddenNoted, CopiesHold, Contents, Tables
<1>7. MoveHolds'
  BY <1>1, <1>3 DEF IndInv, MoveHolds, HiddenNoted, Tables
<1>8. OwnFilesReadable'
  BY <1>1, <1>4 DEF IndInv, OwnFilesReadable, Contents, Tables, Files
<1>9. OnlyExposedLost'
  BY <1>1, <1>4 DEF IndInv, OnlyExposedLost, Contents, Tables, Writes
<1>. QED
  BY <1>5, <1>6, <1>7, <1>8, <1>9 DEF IndInv

(* A transfer begins with nothing scanned, and with what the handles of a  *)
(* move hide noted.                                                        *)
LEMMA StartStep ==
    ASSUME IndInv, NEW move \in BOOLEAN, NEW names \in SUBSET Names, NEW pins \in Pins(names),
           Start(move, names, pins)
    PROVE  IndInv'
<1>1. /\ UNCHANGED <<source, target, store, writes, dropped, past>>
      /\ job' = [pc |-> "scan", move |-> move, names |-> names, pins |-> pins, scan |-> <<>>,
                 head |-> source.head]
      /\ exposed' = exposed \union
            UNION {IF move THEN Hidden(n, pins[n]) ELSE {} : n \in DOMAIN pins}
  BY DEF Start
<1>2. <<>> \in LakeData /\ DOMAIN <<>> = {}
  <2>1. DOMAIN <<>> = {} /\ <<>> \in [{} -> SUBSET Chunk]
    OBVIOUS
  <2>. QED
    BY <2>1, LakeDataFacts
<1>3. source.head \in Nat /\ source.oldest \in Nat
  BY SourceFacts
<1>4. /\ pins \in PinData /\ DOMAIN pins \subseteq names
      /\ \A n \in DOMAIN pins : pins[n] \in Nat /\ pins[n] <= source.head
  <2>1. PICK S \in SUBSET names : pins \in [S -> source.oldest .. source.head]
    BY DEF Pins
  <2>2. \A n \in S : pins[n] \in Nat /\ pins[n] <= source.head
    BY <1>3, <2>1
  <2>3. pins \in [S -> Nat] /\ S \in SUBSET Names
    BY <2>1, <2>2
  <2>. QED
    BY <2>1, <2>2, <2>3 DEF PinData
<1>5. job' \in Scanning
  BY <1>1, <1>2, <1>3, <1>4 DEF Scanning
<1>6. exposed \subseteq exposed'
  BY <1>1
<1>7. ASSUME move, NEW n \in DOMAIN pins, n \in Tables(source), NEW c \in source.data[n]
      PROVE  c \in past[pins[n] + 1][n] \/ c.write \in exposed'
  <2>1. SUFFICES ASSUME c \notin past[pins[n] + 1][n] PROVE c.write \in exposed'
    OBVIOUS
  <2>2. c.write \in Hidden(n, pins[n])
    BY <1>7, <2>1 DEF Hidden, Writes
  <2>. QED
    BY <1>1, <1>7, <2>2
<1>8. (ScanHolds /\ CopiesHold /\ MoveHolds)'
  BY <1>1, <1>2, <1>3, <1>4, <1>7 DEF ScanHolds, HiddenNoted, CopiesHold, MoveHolds, Tables
<1>9. (Typed /\ SourceOwns /\ PastKept)'
  BY <1>1, <1>5 DEF IndInv, Typed, SourceOwns, PastKept, Contents, Tables
<1>10. OwnFilesReadable' /\ OnlyExposedLost'
  BY <1>1, <1>6 DEF IndInv, OwnFilesReadable, OnlyExposedLost, Contents, Tables, Files, Writes
<1>. QED
  BY <1>8, <1>9, <1>10 DEF IndInv

(* A table is scanned at the snapshot of its handle: nothing of a table    *)
(* the source still has is missing there.                                  *)
LEMMA ScanStep ==
    ASSUME IndInv, NEW n \in Names, Scan(n)
    PROVE  IndInv'
<1> DEFINE rows == RowsAt(n, SnapshotOf(n))
           one == [m \in {n} |-> rows]
<1>1. /\ job.pc = "scan" /\ n \in job.names \ DOMAIN job.scan
      /\ n \in DOMAIN past[SnapshotOf(n) + 1]
      /\ job' = [job EXCEPT !.scan = Merged(@, one)]
      /\ UNCHANGED <<source, target, store, writes, dropped, exposed, past>>
  BY DEF Scan
<1>2. job \in Scanning
  BY <1>1, JobPhases
<1>3. job.scan \in LakeData /\ job.head \in Nat /\ job.names \subseteq Names
      /\ job.pins \in PinData
  BY <1>2 DEF Scanning
<1>r. /\ rows \subseteq Chunk /\ \A c \in rows : c.home = "source"
      /\ n \in Tables(source) => rows = past[SnapshotOf(n) + 1][n]
      /\ n \notin DOMAIN job.pins => n \in Tables(source) /\ rows = source.data[n]
  <2>1. rows \subseteq Contents(source) \union source.retired
    BY DEF RowsAt
  <2>2. rows \subseteq Chunk /\ \A c \in rows : c.home = "source"
    BY <2>1, SourceFacts DEF IndInv, SourceOwns
  <2>3. SnapshotOf(n) \in Nat /\ SnapshotOf(n) <= source.head
    <3>1. source.head \in Nat
      BY SourceFacts
    <3>2. CASE n \notin DOMAIN job.pins
      BY <3>1, <3>2 DEF SnapshotOf
    <3>3. CASE n \in DOMAIN job.pins
      <4>1. job.pins[n] \in Nat
        BY <1>3, <3>3 DEF PinData
      <4>2. job.pins[n] <= job.head /\ job.head <= source.head
        BY <1>1, <3>3 DEF IndInv, ScanHolds
      <4>. QED
        BY <1>3, <3>1, <3>3, <4>1, <4>2 DEF SnapshotOf
    <3>. QED
      BY <3>2, <3>3
  <2>4. ASSUME n \in Tables(source)
        PROVE  rows = past[SnapshotOf(n) + 1][n]
    <3>1. SnapshotOf(n) + 1 \in 1 .. Len(past)
      BY <2>3, SourceFacts DEF IndInv, Typed
    <3>2. past[SnapshotOf(n) + 1][n] \subseteq source.data[n]
      BY <1>1, <2>4, <3>1 DEF IndInv, PastKept
    <3>3. source.data[n] \subseteq Contents(source)
      BY <2>4, ContentsOf
    <3>. QED
      BY <3>2, <3>3 DEF RowsAt
  <2>5. ASSUME n \notin DOMAIN job.pins
        PROVE  n \in Tables(source) /\ rows = source.data[n]
    <3>1. SnapshotOf(n) = source.head
      BY <2>5 DEF SnapshotOf
    <3>2. past[SnapshotOf(n) + 1] = source.data
      BY <3>1 DEF IndInv, Typed
    <3>3. n \in Tables(source)
      BY <1>1, <3>2 DEF Tables
    <3>. QED
      BY <2>4, <3>2, <3>3
  <2>. QED
    BY <2>2, <2>4, <2>5
<1>. HIDE DEF rows
<1>4. one \in LakeData /\ DOMAIN one = {n} /\ one[n] = rows
  <2>1. DOMAIN one = {n} /\ one \in [{n} -> SUBSET Chunk] /\ one[n] = rows
    BY <1>r
  <2>. QED
    BY <2>1, LakeDataFacts
<1>. HIDE DEF one
<1>5. /\ Merged(job.scan, one) \in LakeData
      /\ DOMAIN Merged(job.scan, one) = DOMAIN job.scan \union {n}
      /\ Merged(job.scan, one)[n] = rows
      /\ \A m \in DOMAIN job.scan : Merged(job.scan, one)[m] = job.scan[m]
  <2> DEFINE merged == Merged(job.scan, one)
  <2>1. /\ merged \in LakeData /\ DOMAIN merged = DOMAIN job.scan \union DOMAIN one
        /\ \A m \in DOMAIN one : merged[m] = one[m]
        /\ \A m \in DOMAIN job.scan \ DOMAIN one : merged[m] = job.scan[m]
    BY <1>3, <1>4, MergedFacts
  <2>. HIDE DEF merged
  <2>2. n \notin DOMAIN job.scan
    BY <1>1
  <2>3. /\ merged \in LakeData /\ DOMAIN merged = DOMAIN job.scan \union {n}
        /\ merged[n] = rows
        /\ \A m \in DOMAIN job.scan : merged[m] = job.scan[m]
    BY <1>4, <2>1, <2>2
  <2>. QED
    BY <2>3 DEF merged
<1>6. job' = [pc |-> "scan", move |-> job.move, names |-> job.names, pins |-> job.pins,
              scan |-> Merged(job.scan, one), head |-> job.head]
  BY <1>1, <1>2 DEF Scanning
<1>7. job' \in Scanning
  BY <1>2, <1>5, <1>6 DEF Scanning
<1>8. n \in DOMAIN job.pins => SnapshotOf(n) = job.pins[n]
  BY DEF SnapshotOf
<1>9. ScanHolds'
  <2> DEFINE merged == Merged(job.scan, one)
  <2>. HIDE DEF merged
  <2>1. /\ DOMAIN merged = DOMAIN job.scan \union {n} /\ merged[n] = rows
        /\ \A m \in DOMAIN job.scan : merged[m] = job.scan[m]
    BY <1>5 DEF merged
  <2>2. /\ job'.pc = "scan" /\ job'.head = job.head /\ job'.names = job.names
        /\ job'.pins = job.pins /\ job'.move = job.move /\ job'.scan = merged
    BY <1>6 DEF merged
  <2>3. /\ job.head <= source.head /\ DOMAIN merged \subseteq job.names
        /\ \A m \in DOMAIN job.pins : m \in job.names /\ job.pins[m] <= job.head
        /\ \A m \in DOMAIN merged : \A c \in merged[m] : c.home = "source"
    BY <1>1, <1>r, <2>1 DEF IndInv, ScanHolds
  <2>4. ASSUME NEW m \in DOMAIN merged \intersect Tables(source), m \in DOMAIN job.pins
        PROVE  merged[m] = past[job.pins[m] + 1][m]
    <3>1. CASE m = n
      BY <1>8, <1>r, <2>1, <2>4, <3>1
    <3>2. CASE m # n
      BY <1>1, <2>1, <2>4, <3>2 DEF IndInv, ScanHolds
    <3>. QED
      BY <3>1, <3>2
  <2>5. ASSUME source.head = job.head
        PROVE  /\ \A m \in DOMAIN merged \ DOMAIN job.pins :
                     m \in Tables(source) /\ merged[m] = source.data[m]
               /\ job.move => HiddenNoted
    BY <1>1, <1>r, <2>1, <2>5 DEF IndInv, ScanHolds
  <2>6. HiddenNoted' <=> HiddenNoted
    BY <1>1, <2>2 DEF HiddenNoted, Tables
  <2>. QED
    BY <1>1, <2>2, <2>3, <2>4, <2>5, <2>6 DEF ScanHolds, Tables
<1>10. (CopiesHold /\ MoveHolds)'
  BY <1>6 DEF CopiesHold, MoveHolds
<1>. QED
  BY <1>1, <1>7, <1>9, <1>10, JobStep

(* The target transaction begins.                                          *)
LEMMA TargetBeginStep ==
    ASSUME IndInv, TargetBegin
    PROVE  IndInv'
<1>1. /\ job.pc = "scan" /\ DOMAIN job.scan = job.names
      /\ UNCHANGED <<source, target, store, writes, dropped, exposed, past>>
  BY DEF TargetBegin
<1>2. CASE job' = NoJob
  BY <1>1, <1>2, FinishStep
<1>3. CASE job' # NoJob
  <2>1. job' = [pc |-> "copy", move |-> job.move, names |-> job.names, pins |-> job.pins,
                scan |-> job.scan, head |-> job.head, copied |-> {}]
    BY <1>3 DEF TargetBegin, Finish
  <2>2. job' \in Copying
    BY <1>1, <2>1, JobPhases DEF Scanning, Copying
  <2>3. (ScanHolds /\ CopiesHold /\ MoveHolds)'
    BY <1>1, <2>1 DEF IndInv, ScanHolds, HiddenNoted, CopiesHold, MoveHolds, Tables
  <2>. QED
    BY <1>1, <2>2, <2>3, JobStep
<1>. QED
  BY <1>2, <1>3

(* A copy of a chunk differs from it in its home alone.                    *)
LEMMA CopyOf ==
    ASSUME NEW c \in Chunk
    PROVE  /\ At("target", c) \in Chunk /\ At("target", c).kind = c.kind
           /\ At("target", c).write = c.write
           /\ c.kind = "file" => At("target", c).home = "target"
           /\ c.kind # "file" => At("target", c) = c
BY DEF At, Chunk, Lakes

(* A file is copied below the data path of the target.                     *)
LEMMA CopyFileStep ==
    ASSUME IndInv, NEW c \in Chunk, CopyFile(c)
    PROVE  IndInv'
<1> DEFINE d == At("target", c)
<1>1. /\ job.pc = "copy" /\ c \in FilesToCopy
      /\ store' = store \union {d} /\ job' = [job EXCEPT !.copied = @ \union {d}]
      /\ UNCHANGED <<source, target, writes, dropped, exposed, past>>
  BY DEF CopyFile
<1>2. job \in Copying
  BY <1>1, JobPhases
<1>3. c.kind = "file"
  BY <1>1 DEF FilesToCopy, Files
<1>4. d \in Chunk /\ d.home = "target" /\ d \in Files(Chunk)
  BY <1>3, CopyOf DEF Files
<1>. HIDE DEF d
<1>5. job' = [pc |-> "copy", move |-> job.move, names |-> job.names, pins |-> job.pins,
              scan |-> job.scan, head |-> job.head, copied |-> job.copied \union {d}]
  BY <1>1, <1>2 DEF Copying
<1>6. job' \in Copying
  BY <1>2, <1>4, <1>5 DEF Copying
<1>7. Typed'
  BY <1>1, <1>4, <1>6 DEF IndInv, Typed
<1>8. SourceOwns' /\ PastKept'
  BY <1>1 DEF IndInv, SourceOwns, PastKept, Contents, Tables
<1>9. ScanHolds'
  BY <1>1, <1>5 DEF IndInv, ScanHolds, HiddenNoted, Tables
<1>10. CopiesHold'
  BY <1>1, <1>4, <1>5 DEF IndInv, CopiesHold
<1>11. MoveHolds'
  BY <1>5 DEF MoveHolds
<1>12. OwnFilesReadable' /\ OnlyExposedLost'
  BY <1>1 DEF IndInv, OwnFilesReadable, OnlyExposedLost, Contents, Tables, Files, Writes
<1>. QED
  BY <1>7, <1>8, <1>9, <1>10, <1>11, <1>12 DEF IndInv

(* The target commits: a copied table has copied files, which are there; a *)
(* moved table has what was scanned.                                       *)
LEMMA TargetCommitStep ==
    ASSUME IndInv, TargetCommit
    PROVE  IndInv'
<1> DEFINE new == [n \in job.names |-> Transferred(n)]
<1>1. /\ job.pc = "copy" /\ CopiesDone
      /\ UNCHANGED <<source, store, writes, dropped, exposed, past>>
  BY DEF TargetCommit
<1>2. CASE TargetConflict
  BY <1>1, <1>2, FinishStep DEF TargetCommit, Finish
<1>3. CASE ~ TargetConflict
  <2>1. /\ target' = [target EXCEPT !.head = @ + 1, !.data = Merged(@, new)]
        /\ job' = AfterTarget
    BY <1>3 DEF TargetCommit
  <2>2. job.names \intersect Tables(target) = {}
    BY <1>3 DEF TargetConflict
  <2>3. job \in Copying
    BY <1>1, JobPhases
  <2>4. /\ job.move \in BOOLEAN /\ job.names \subseteq Names /\ job.head \in Nat
        /\ job.pins \in PinData
        /\ job.scan \in LakeData /\ DOMAIN job.scan = job.names
    BY <1>1, <2>3 DEF Copying, IndInv, CopiesHold
  <2>5. \A n \in job.names : job.scan[n] \subseteq Chunk
    BY <2>4, LakeDataFacts
  <2>6. \A n \in job.names : Transferred(n) \subseteq Chunk
    BY <2>5, CopyOf DEF Transferred
  <2>7. DOMAIN new = job.names /\ new \in LakeData
        /\ \A n \in job.names : new[n] = Transferred(n)
    <3>1. DOMAIN new = job.names /\ new \in [job.names -> SUBSET Chunk]
      BY <2>6
    <3>. QED
      BY <2>4, <3>1, LakeDataFacts
  <2>. HIDE DEF new
  <2>8. /\ target' \in LakeState
        /\ Tables(target') = Tables(target) \union job.names
        /\ \A n \in job.names : target'.data[n] = Transferred(n)
        /\ \A n \in Tables(target) : target'.data[n] = target.data[n]
        /\ \A c \in Contents(target') :
              c \in Contents(target) \/ \E n \in job.names : c \in Transferred(n)
        /\ Contents(target) \subseteq Contents(target')
    <3>1. DOMAIN new \intersect Tables(target) = {}
      BY <2>2, <2>7
    <3>2. /\ target' \in LakeState
          /\ Tables(target') = Tables(target) \union DOMAIN new
          /\ \A n \in DOMAIN new : target'.data[n] = new[n]
          /\ \A n \in Tables(target) : target'.data[n] = target.data[n]
          /\ \A c \in Contents(target') :
                c \in Contents(target) \/ \E n \in DOMAIN new : c \in new[n]
          /\ Contents(target) \subseteq Contents(target')
      BY <2>1, <2>7, <3>1, TargetGrows
    <3>. QED
      BY <2>7, <3>2
  <2>9. job' \in {NoJob} \union Scanning \union Copying \union Moving
    BY <2>1, <2>4 DEF AfterTarget, Moving
  <2>10. Typed'
    BY <1>1, <2>8, <2>9 DEF IndInv, Typed
  <2>11. SourceOwns' /\ PastKept'
    BY <1>1 DEF IndInv, SourceOwns, PastKept, Contents, Tables
  <2>12. (ScanHolds /\ CopiesHold)'
    BY <2>1 DEF AfterTarget, NoJob, ScanHolds, CopiesHold
  <2>13. MoveHolds'
    <3>1. CASE ~ job.move
      BY <2>1, <3>1 DEF AfterTarget, NoJob, MoveHolds
    <3>2. CASE job.move
      <4>1. job' = [pc |-> "check", move |-> TRUE, names |-> job.names, pins |-> job.pins,
                    head |-> job.head]
        BY <2>1, <3>2 DEF AfterTarget
      <4>2. \A n \in job.names : target'.data[n] = job.scan[n]
        BY <2>8, <3>2 DEF Transferred
      <4>3. /\ job.head <= source.head
            /\ \A n \in DOMAIN job.pins : n \in job.names /\ job.pins[n] <= job.head
            /\ \A n \in DOMAIN job.pins \intersect Tables(source) :
                  job.scan[n] = past[job.pins[n] + 1][n]
            /\ source.head = job.head =>
                  /\ \A n \in job.names \ DOMAIN job.pins :
                        n \in Tables(source) /\ job.scan[n] = source.data[n]
                  /\ HiddenNoted
        BY <1>1, <2>4, <3>2 DEF IndInv, ScanHolds
      <4>4. job.names \subseteq Tables(target')
        BY <2>8
      <4>5. HiddenNoted' <=> HiddenNoted
        BY <1>1, <4>1 DEF HiddenNoted, Tables
      <4>6. job'.pc = "check" /\ job'.names = job.names /\ job'.pins = job.pins /\ job'.head = job.head
        BY <4>1
      <4>. QED
        BY <1>1, <4>2, <4>3, <4>4, <4>5, <4>6 DEF MoveHolds, Tables
    <3>. QED
      BY <3>1, <3>2
  <2>14. OwnFilesReadable'
    <3>1. ASSUME NEW n \in job.names, NEW c \in Transferred(n), c.kind = "file", c.home = "target"
          PROVE  c \in store
      <4>1. CASE job.move
        BY <1>1, <2>4, <3>1, <4>1 DEF Transferred, IndInv, ScanHolds
      <4>2. CASE ~ job.move
        <5>1. PICK x \in job.scan[n] : c = At("target", x)
          BY <4>2 DEF Transferred
        <5>2. x \in Chunk /\ x.kind = "file"
          BY <2>5, <3>1, <5>1, CopyOf
        <5>3. x \in FilesToCopy
          BY <4>2, <5>2 DEF FilesToCopy, Files
        <5>. QED
          BY <1>1, <5>1, <5>3 DEF CopiesDone, IndInv, CopiesHold
      <4>. QED
        BY <4>1, <4>2
    <3>2. \A c \in Files(Contents(target')) : c.home = "target" => c \in store
      BY <2>8, <3>1 DEF IndInv, OwnFilesReadable, Files
    <3>. QED
      BY <1>1, <3>2 DEF IndInv, OwnFilesReadable, Contents, Tables
  <2>15. OnlyExposedLost'
    <3>1. Writes(Contents(target)) \subseteq Writes(Contents(target'))
      BY <2>8 DEF Writes
    <3>2. Contents(source') = Contents(source)
      BY <1>1
    <3>. QED
      BY <1>1, <3>1, <3>2 DEF IndInv, OnlyExposedLost
  <2>. QED
    BY <2>10, <2>11, <2>12, <2>13, <2>14, <2>15 DEF IndInv
<1>. QED
  BY <1>2, <1>3

(* The head of the source has not moved: the target has what the source    *)
(* had when the move began.                                                *)
LEMMA CheckHeadStep ==
    ASSUME IndInv, CheckHead
    PROVE  IndInv'
<1>1. /\ job.pc = "check" /\ UNCHANGED <<source, target, store, writes, dropped, exposed, past>>
      /\ job' = IF source.head = job.head THEN [job EXCEPT !.pc = "drop"] ELSE NoJob
  BY DEF CheckHead, HeadUnchanged
<1>2. CASE source.head # job.head
  BY <1>1, <1>2, FinishStep
<1>3. CASE source.head = job.head
  <2>1. job \in Moving
    BY <1>1, JobPhases
  <2>2. job' = [pc |-> "drop", move |-> TRUE, names |-> job.names, pins |-> job.pins,
                head |-> job.head]
    BY <1>1, <1>3, <2>1 DEF Moving
  <2>3. job' \in Moving
    BY <2>1, <2>2 DEF Moving
  <2>4. /\ past[job.head + 1] = source.data /\ job.names \subseteq Tables(target)
        /\ job.head <= source.head
        /\ \A n \in DOMAIN job.pins : n \in job.names /\ job.pins[n] <= job.head
        /\ \A n \in DOMAIN job.pins \intersect Tables(source) :
              target.data[n] = past[job.pins[n] + 1][n]
        /\ \A n \in job.names \ DOMAIN job.pins :
              n \in Tables(source) /\ target.data[n] = source.data[n]
        /\ HiddenNoted
    BY <1>1, <1>3 DEF IndInv, Typed, MoveHolds
  <2>x. \A n \in job.names \intersect Tables(source) :
           \A c \in source.data[n] : c \in target.data[n] \/ c.write \in exposed
    BY <2>4 DEF HiddenNoted
  <2>y. job'.pc = "drop" /\ job'.names = job.names /\ job'.pins = job.pins /\ job'.head = job.head
    BY <2>2
  <2>5. MoveHolds'
    BY <1>1, <2>x, <2>y, <2>4 DEF MoveHolds, Tables
  <2>6. (ScanHolds /\ CopiesHold)'
    BY <2>2 DEF ScanHolds, CopiesHold
  <2>. QED
    BY <1>1, <2>3, <2>5, <2>6, JobStep
<1>. QED
  BY <1>2, <1>3

(* The transaction that drops the sources begins.                          *)
LEMMA SourceBeginStep ==
    ASSUME IndInv, SourceBegin
    PROVE  IndInv'
<1>1. /\ job.pc = "drop" /\ UNCHANGED <<source, target, store, writes, dropped, exposed, past>>
      /\ job' = IF job.names \subseteq Tables(source)
                THEN [job EXCEPT !.pc = "drop_commit"] ELSE NoJob
  BY DEF SourceBegin
<1>2. CASE ~ (job.names \subseteq Tables(source))
  BY <1>1, <1>2, FinishStep
<1>3. CASE job.names \subseteq Tables(source)
  <2>1. job \in Moving
    BY <1>1, JobPhases
  <2>2. job' = [pc |-> "drop_commit", move |-> TRUE, names |-> job.names, pins |-> job.pins,
                head |-> job.head]
    BY <1>1, <1>3, <2>1 DEF Moving
  <2>3. job' \in Moving
    BY <2>1, <2>2 DEF Moving
  <2>4. MoveHolds'
    BY <1>1, <2>2 DEF IndInv, MoveHolds, Tables
  <2>5. (ScanHolds /\ CopiesHold)'
    BY <2>2 DEF ScanHolds, CopiesHold
  <2>. QED
    BY <1>1, <2>3, <2>4, <2>5, JobStep
<1>. QED
  BY <1>2, <1>3

(* The sources go: the target has all they held, except what was written   *)
(* since the head was compared or hidden by a pinned handle.               *)
LEMMA DropSourcesStep ==
    ASSUME IndInv, DropSources
    PROVE  IndInv'
<1>1. /\ job.pc = "drop_commit" /\ job' = NoJob
      /\ UNCHANGED <<target, store, writes, dropped, exposed>>
  BY DEF DropSources, Finish
<1>2. CASE ~ (job.names \subseteq Tables(source))
  BY <1>1, <1>2, FinishStep DEF DropSources
<1>3. CASE job.names \subseteq Tables(source)
  <2> DEFINE kept == UNION {source.data[n] \ Files(source.data[n]) : n \in job.names}
  <2>1. /\ SourceCommit(Dropping(source.data, job.names), source.retired \union kept)
        /\ kept \subseteq UNION {source.data[n] : n \in job.names \intersect Tables(source)}
    BY <1>3 DEF DropSources, RetiredByMove
  <2>. HIDE DEF kept
  <2>2. job.names \in SUBSET Names
    BY <1>1, JobPhases DEF Moving
  <2>3. /\ Typed' /\ SourceOwns' /\ PastKept' /\ OwnFilesReadable'
        /\ Tables(source') = Tables(source) \ job.names
        /\ \A n \in Tables(source') : source'.data[n] = source.data[n]
    BY <1>1, <2>1, <2>2, TablesGo
  <2>4. (ScanHolds /\ CopiesHold /\ MoveHolds)'
    BY <1>1 DEF NoJob, ScanHolds, CopiesHold, MoveHolds
  <2>5. OnlyExposedLost'
    <3>1. SUFFICES ASSUME NEW w \in 1 .. writes
                   PROVE  w \in dropped \union exposed \union Writes(Contents(source')) \union Writes(Contents(target))
      BY <1>1 DEF OnlyExposedLost, Contents, Tables
    <3>2. w \in dropped \union exposed \union Writes(Contents(source)) \union Writes(Contents(target))
      BY <3>1 DEF IndInv, OnlyExposedLost
    <3>3. ASSUME w \in Writes(Contents(source))
          PROVE  w \in exposed \union Writes(Contents(source')) \union Writes(Contents(target))
      <4>1. PICK c \in Contents(source) : w = c.write
        BY <3>3 DEF Writes
      <4>2. PICK n \in Tables(source) : c \in source.data[n]
        BY ContentsOf
      <4>3. CASE n \in job.names
        <5>1. n \in Tables(target) /\ (c \in target.data[n] \/ c.write \in exposed)
          BY <1>1, <1>3, <4>2, <4>3 DEF IndInv, MoveHolds
        <5>2. c \in Contents(target) \/ c.write \in exposed
          BY <5>1, ContentsOf
        <5>. QED
          BY <4>1, <5>2 DEF Writes
      <4>4. CASE n \notin job.names
        <5>1. n \in Tables(source') /\ c \in source'.data[n]
          BY <2>3, <4>2, <4>4
        <5>2. c \in Contents(source')
          BY <5>1, ContentsOf
        <5>. QED
          BY <4>1, <5>2 DEF Writes
      <4>. QED
        BY <4>3, <4>4
    <3>. QED
      BY <3>2, <3>3
  <2>. QED
    BY <2>3, <2>4, <2>5 DEF IndInv
<1>. QED
  BY <1>2, <1>3

(* Maintenance deletes objects below the data path of a lake that the lake *)
(* does not mention.                                                       *)
LEMMA MaintenanceStep ==
    ASSUME IndInv, (\E l \in Lakes : DeleteOrphans(l)) \/ CleanUp
    PROVE  IndInv'
<1>1. /\ UNCHANGED <<target, writes, dropped, exposed, job, past>>
      /\ source' = source \/ source' = [source EXCEPT !.retired = {}, !.oldest = source.head]
      /\ store' \subseteq store
  BY DEF DeleteOrphans, CleanUp
<1>2. /\ source' \in LakeState
      /\ source'.head = source.head /\ source'.data = source.data
      /\ source'.retired \subseteq source.retired
  BY <1>1 DEF IndInv, Typed, LakeState
<1>3. Contents(source') = Contents(source) /\ Tables(source') = Tables(source)
  BY <1>2 DEF Contents, Tables
<1>4. ASSUME NEW c \in store \ store'
      PROVE  \/ c.home = "source" /\ c \notin Contents(source)
             \/ c.home = "target" /\ c \notin Contents(target) \union Copied
  <2>1. CASE CleanUp
    BY <2>1 DEF CleanUp, IndInv, SourceOwns
  <2>2. CASE DeleteOrphans("source")
    BY <2>2 DEF DeleteOrphans, Here
  <2>3. CASE DeleteOrphans("target")
    BY <2>3 DEF DeleteOrphans, Here
  <2>. QED
    BY <2>1, <2>2, <2>3 DEF Lakes
<1>5. Typed'
  BY <1>1, <1>2 DEF IndInv, Typed
<1>6. SourceOwns' /\ PastKept'
  BY <1>1, <1>2, <1>3 DEF IndInv, SourceOwns, PastKept
<1>7. (ScanHolds /\ MoveHolds)'
  BY <1>1, <1>2, <1>3 DEF IndInv, ScanHolds, MoveHolds, HiddenNoted
<1>8. CopiesHold'
  <2>1. ASSUME job.pc = "copy"
        PROVE  job.copied \subseteq store'
    BY <1>4, <2>1 DEF IndInv, CopiesHold, Copied
  <2>. QED
    BY <1>1, <2>1 DEF IndInv, CopiesHold
<1>9. OwnFilesReadable'
  BY <1>1, <1>3, <1>4 DEF IndInv, OwnFilesReadable, Files
<1>10. OnlyExposedLost'
  BY <1>1, <1>3 DEF IndInv, OnlyExposedLost
<1>. QED
  BY <1>5, <1>6, <1>7, <1>8, <1>9, <1>10 DEF IndInv

(* One lemma per operation, put together.                                  *)
LEMMA NextPreserves ==
    ASSUME IndInv, [Next]_vars
    PROVE  IndInv'
<1>1. ASSUME NEW n \in Names, NEW kind \in {"file", "inline"}, Write(n, kind)
      PROVE  IndInv'
  BY <1>1, WriteStep
<1>2. ASSUME NEW n \in Names, DropTable(n) \/ CreateInTarget(n)
      PROVE  IndInv'
  BY <1>2, DropTableStep, CreateInTargetStep
<1>3. ASSUME NEW move \in BOOLEAN, NEW names \in SUBSET Names, NEW pins \in Pins(names),
             Start(move, names, pins)
      PROVE  IndInv'
  BY <1>3, StartStep
<1>4. ASSUME NEW n \in Names, Scan(n) \/ ScanNotFound(n)
      PROVE  IndInv'
  BY <1>4, ScanStep, FinishStep DEF ScanNotFound, Finish
<1>5. ASSUME NEW c \in Chunk, CopyFile(c) \/ CopyFails(c)
      PROVE  IndInv'
  BY <1>5, CopyFileStep, FinishStep DEF CopyFails, Finish
<1>6. CASE TargetBegin \/ TargetCommit \/ CheckHead \/ SourceBegin \/ DropSources
  BY <1>6, TargetBeginStep, TargetCommitStep, CheckHeadStep, SourceBeginStep, DropSourcesStep
<1>7. CASE Crash
  BY <1>7, FinishStep DEF Crash, Finish
<1>8. CASE (\E l \in Lakes : DeleteOrphans(l)) \/ CleanUp
  BY <1>8, MaintenanceStep
<1>9. CASE UNCHANGED vars
  <2>1. UNCHANGED <<source, target, store, writes, dropped, exposed, past, job>>
    BY <1>9 DEF vars
  <2>2. job' \in {NoJob} \union Scanning \union Copying \union Moving
    BY <2>1 DEF IndInv, Typed
  <2>3. (ScanHolds /\ CopiesHold /\ MoveHolds)'
    BY <2>1 DEF IndInv, ScanHolds, CopiesHold, MoveHolds, HiddenNoted, Tables
  <2>. QED
    BY <2>1, <2>2, <2>3, JobStep
<1>. QED
  BY <1>1, <1>2, <1>3, <1>4, <1>5, <1>6, <1>7, <1>8, <1>9 DEF Next, Transfer

-----------------------------------------------------------------------------
(* The results.                                                            *)

(* The invariant of transfers: what was scanned, and then what the target  *)
(* has, is the snapshot of a pinned handle or, while the head of the       *)
(* source has not moved, what the source has.                              *)
THEOREM Invariance == Spec => []IndInv
<1>1. Init => IndInv
  BY InitEstablishes
<1>2. IndInv /\ [Next]_vars => IndInv'
  BY NextPreserves
<1>. QED
  BY <1>1, <1>2, PTL DEF Spec

(* Lakes hold chunks of data, and the history of the source has one        *)
(* version per snapshot.                                                   *)
THEOREM TypeCorrect == Spec => []TypeOK
<1>1. IndInv => TypeOK
  <2> SUFFICES ASSUME IndInv PROVE TypeOK
    OBVIOUS
  <2>1. job.pc \in {"idle", "scan", "copy", "check", "drop", "drop_commit"}
    BY JobPhases
  <2>2. target.retired \subseteq Chunk
    BY DEF IndInv, Typed, LakeState
  <2>. QED
    BY <2>1, <2>2, SourceFacts DEF IndInv, Typed, TypeOK
<1>. QED
  BY <1>1, Invariance, PTL

(* Wherever a transfer fails, crashes or meets other clients and jobs, a   *)
(* write is lost only if it was committed after the move had compared the  *)
(* head, or if its table was moved through a handle of a snapshot that is  *)
(* older than the write.                                                   *)
THEOREM OnlyExposedWritesLost == Spec => []OnlyExposedLost
<1>1. IndInv => OnlyExposedLost
  BY DEF IndInv
<1>. QED
  BY <1>1, Invariance, PTL

(* The files a lake keeps below its own data path are there: a copied      *)
(* table survives whatever happens to the source.                          *)
THEOREM FilesStayReadable == Spec => []OwnFilesReadable
<1>1. IndInv => OwnFilesReadable
  BY DEF IndInv
<1>. QED
  BY <1>1, Invariance, PTL

(* A move drops the sources only if the target has exactly what their      *)
(* handles showed when the move began: the snapshot a handle is pinned to, *)
(* or else the head of the source.                                         *)
THEOREM MovesAreConsistent == Spec => MoveIsConsistent
<1>1. ASSUME IndInv, DropSources, source' # source, NEW n \in job.names
      PROVE  n \in Tables(target) /\ target.data[n] = past[ShownAtStart(n) + 1][n]
  <2>1. job.pc = "drop_commit" /\ job.names \subseteq Tables(source)
    BY <1>1 DEF DropSources
  <2>. QED
    BY <1>1, <2>1 DEF IndInv, MoveHolds, ShownAtStart
<1>2. IndInv /\ [Next]_vars =>
         [DropSources /\ source' # source =>
            \A n \in job.names :
                n \in Tables(target) /\ target.data[n] = past[ShownAtStart(n) + 1][n]]_vars
  BY <1>1
<1>. QED
  BY <1>2, Invariance, PTL DEF Spec, MoveIsConsistent

=============================================================================
