--------------------------- MODULE SessionProofs ---------------------------
(***************************************************************************)
(* Creating, upgrading and using a catalog, for any number of clients,     *)
(* options and crashes, on databases with and without transactional DDL.   *)
(***************************************************************************)
EXTENDS Session, FiniteSetTheorems, TLAPS

-----------------------------------------------------------------------------
(* The inductive invariant.                                                *)

MetaRow == [id : Nat, key : Keys, scope : Scopes, value : Values \union Int]
OptionRow == [id : Nat, key : {"option"}, scope : Scopes, value : Values \union {NULL}]
UpdateTyped(u) ==
    /\ u = [client |-> u.client, row |-> u.row, seen |-> u.seen, done |-> u.done,
            after |-> u.after, shown |-> u.shown]
    /\ u.client \in Clients /\ u.row \in OptionRow /\ u.done \in BOOLEAN
    /\ \A r \in u.seen : r.key = "option"

Creating == [pc : {"create", "populate", "populateRest", "load"}]
Upgrading == [pc : {"upgrade", "upgradeData", "upgradeVersion"}, at : 1 .. Latest + 1]
InSession == [pc : {"connected"}, readonly : BOOLEAN]

Partitions == {NULL, PartitionIndex} \union {Columns[i] : i \in DOMAIN Columns}

Typed ==
    /\ ddl \in BOOLEAN /\ exists \in BOOLEAN
    /\ layout \subseteq Upgrades
    /\ metadata \subseteq MetaRow
    /\ partition \in Partitions
    /\ client \in [Clients -> {Off} \union Creating \union Upgrading \union InSession]
    /\ \A u \in running : UpdateTyped(u)
    /\ updates \in 0 .. MaxUpdates /\ crashes \in 0 .. MaxCrashes

\* The version the catalog says it has.
VersionIs(v) == VersionRows = {Row(0, "version", "global", v)}
UpTo(v) == {u \in Upgrades : u <= v}

\* An upgrade leaves its columns and tables before its version, and at most one
\* upgrade is under way.
CatalogHolds ==
    /\ (VersionRows = {} /\ ~ IsLegacy) \/ \E v \in 0 .. Latest + 1 : VersionIs(v)
    /\ \A v \in 0 .. Latest + 1 :
          VersionIs(v) => UpTo(v) \subseteq layout /\ layout \subseteq UpTo(v + 1)
    /\ ddl /\ exists =>
          \E v \in 0 .. Latest + 1 :
              VersionIs(v) /\ layout = UpTo(v) /\ DOMAIN snapshots # {}
    /\ ~ exists =>
          /\ metadata = {} /\ DOMAIN snapshots = {}
          /\ \A c \in Clients : client[c].pc \in {"off", "create"}

\* What a client has read or done is not undone by others.
ClientHolds(c) ==
    /\ client[c].pc = "populate" =>
          ~ ddl /\ layout = Upgrades /\ (VersionRows = {} \/ VersionIs(Latest))
    /\ client[c].pc = "populateRest" => ~ ddl /\ layout = Upgrades /\ VersionIs(Latest)
    /\ client[c].pc \in {"load", "connected"} => layout = Upgrades /\ VersionIs(Latest)
    /\ client[c].pc = "upgrade" => \E v \in 0 .. Latest : VersionIs(v) /\ client[c].at <= v + 1
    /\ client[c].pc \in {"upgradeData", "upgradeVersion"} =>
          /\ ~ ddl /\ client[c].at \in layout
          /\ \E v \in 0 .. Latest :
                /\ VersionIs(v) /\ client[c].at <= v + 1
                /\ client[c].at # Latest => client[c].at = v + 1

InUpgrade(c) == client[c].pc \in {"upgradeData", "upgradeVersion"} /\ client[c].at # Latest
OneUpgrade == \A c, d \in Clients : InUpgrade(c) /\ InUpgrade(d) => c = d

\* The data of a legacy catalog: untouched before an upgrade, or upgraded.
AllVersions == {[table |-> NULL, begin |-> b, version |-> LegacySnapshots[b]] : b \in {0, 1, 3, 4}}

UpgradedBy(u, c) == client[c].pc = "upgradeVersion" /\ client[c].at = u
NotYet(u) == u \notin layout \/ \E c \in Clients : client[c].pc = "upgradeData" /\ client[c].at = u

DataHolds ==
    IsLegacy => \A v \in 0 .. Latest + 1 : VersionIs(v) =>
        /\ v >= V0_2 \/ (\E c \in Clients : UpgradedBy(V0_2, c)) => partition = TheColumn
        /\ v < V0_2 /\ (NotYet(V0_2) \/ ddl) => partition = PartitionIndex
        /\ v < V0_3 /\ NotYet(V0_3) => schema_versions = {}
        /\ v < V0_3 /\ (\E c \in Clients : UpgradedBy(V0_3, c)) => schema_versions = AllVersions
        /\ v = V0_3 /\ NotYet(V0_4) => schema_versions = AllVersions
        /\ v >= V0_4 \/ (\E c \in Clients : UpgradedBy(V0_4, c)) =>
              schema_versions = FirstVersions

\* An update that has begun: it belongs to a session, nobody has seen its row,
\* and it will delete what of the earlier rows is left.
UpdateHolds(u) ==
    /\ Connected(u.client) /\ u.row.id <= updates
    /\ u.after \subseteq committed
    /\ ~ u.done => u.row \notin committed /\ metadata \intersect u.after \subseteq u.seen
    /\ u.shown \subseteq MetaRow
    /\ \A r \in u.shown : r.key = "option" /\ r.scope = u.row.scope /\ r.id <= updates
    /\ u.row \notin memory[u.client] /\ u.row \notin outdated[u.client]
    /\ \A w \in running : /\ w.row = u.row => w = u
                          /\ w.client = u.client => w.row \notin u.shown

\* Options in the database and in memory.
OptInv ==
    /\ memory \in [Clients -> SUBSET MetaRow] /\ outdated \in [Clients -> SUBSET MetaRow]
    /\ committed \subseteq OptionRow /\ replaced \subseteq committed
    /\ \A r \in committed : r.id <= updates
    /\ \A r \in metadata : r.key = "option" => r \in committed
    /\ metadata \intersect replaced = {}
    /\ \A c \in Clients :
          /\ memory[c] \intersect outdated[c] = {}
          /\ \A r \in memory[c] \union outdated[c] : r.id <= updates
          /\ ~ Connected(c) => memory[c] = {} /\ outdated[c] = {}
    /\ \A u \in running : UpdateHolds(u)

\* The catalog and the clients.
IndInv ==
    /\ Typed /\ CatalogHolds /\ OneUpgrade /\ DataHolds
    /\ \A c \in Clients : ClientHolds(c)

-----------------------------------------------------------------------------
(* Facts about the operators.                                              *)

(* The constants of the legacy catalog, computed.                          *)
LEMMA LegacyFacts ==
    /\ DOMAIN LegacySnapshots = 0 .. 4
    /\ LegacySnapshots[0] = 0 /\ LegacySnapshots[1] = 1 /\ LegacySnapshots[2] = 1
    /\ LegacySnapshots[3] = 2 /\ LegacySnapshots[4] = 3
    /\ DOMAIN FirstSnapshot = {0}
    /\ DOMAIN Columns = {1, 2, 3}
    /\ Columns[1] = 2 /\ Columns[2] = 3 /\ Columns[3] = 1
    /\ TheColumn = 2 /\ PartitionIndex = 0
<1>1. DOMAIN Columns = 1 .. 3 /\ Columns[1] = 2 /\ Columns[2] = 3 /\ Columns[3] = 1
  BY DEF Columns
<1>2. 1 .. 3 = {1, 2, 3}
  OBVIOUS
<1>3. TheColumn = 2 /\ PartitionIndex = 0
  BY <1>1 DEF TheColumn, PartitionIndex
<1>4. DOMAIN FirstSnapshot = {0} /\ DOMAIN LegacySnapshots = 0 .. 4
  BY DEF FirstSnapshot, LegacySnapshots
<1>5. /\ LegacySnapshots[0] = 0 /\ LegacySnapshots[1] = 1 /\ LegacySnapshots[2] = 1
      /\ LegacySnapshots[3] = 2 /\ LegacySnapshots[4] = 3
  BY DEF LegacySnapshots
<1>. QED
  BY <1>1, <1>2, <1>3, <1>4, <1>5

(* v0_3 writes one row per schema version, for the first snapshot with it. *)
LEMMA CollectedIsAll ==
    ASSUME IsLegacy
    PROVE  CollectedVersions = AllVersions
<1>1. snapshots = LegacySnapshots
  BY DEF IsLegacy
<1> DEFINE first(v) == Min({b \in DOMAIN LegacySnapshots : LegacySnapshots[b] = v})
<1>2. ASSUME NEW v, NEW m \in 0 .. 4, LegacySnapshots[m] = v,
             \A b \in 0 .. 4 : LegacySnapshots[b] = v => m <= b
      PROVE  first(v) = m
  <2> DEFINE S == {b \in DOMAIN LegacySnapshots : LegacySnapshots[b] = v}
  <2>1. m \in S /\ (\A b \in S : m <= b) /\ S \subseteq Int
    BY <1>2, LegacyFacts
  <2>. HIDE DEF S
  <2>2. \E x \in S : \A b \in S : x <= b
    BY <2>1
  <2>3. Min(S) \in S /\ \A b \in S : Min(S) <= b
    BY <2>2, Zenon DEF Min
  <2> DEFINE n == Min(S)
  <2>. HIDE DEF n
  <2>4. n \in Int /\ m \in Int /\ n <= m /\ m <= n
    BY <2>1, <2>3 DEF n
  <2>5. Min(S) = m
    BY <2>4 DEF n
  <2>. QED
    BY <2>5 DEF S
<1>3. \A b \in 0 .. 4 : b = 0 \/ b = 1 \/ b = 2 \/ b = 3 \/ b = 4
  OBVIOUS
<1>4. first(0) = 0
  BY <1>2, <1>3, LegacyFacts
<1>5. first(1) = 1
  BY <1>2, <1>3, LegacyFacts
<1>6. first(2) = 3
  BY <1>2, <1>3, LegacyFacts
<1>7. first(3) = 4
  BY <1>2, <1>3, LegacyFacts
<1>8. {LegacySnapshots[b] : b \in DOMAIN LegacySnapshots} = {0, 1, 2, 3}
  BY <1>3, LegacyFacts
<1>. HIDE DEF first
<1>9. CollectedVersions = {[table |-> NULL, begin |-> first(v), version |-> v] : v \in {0, 1, 2, 3}}
  <2>1. CollectedVersions =
          {[table |-> NULL, begin |-> first(v), version |-> v]
            : v \in {LegacySnapshots[b] : b \in DOMAIN LegacySnapshots}}
    BY <1>1, Zenon DEF CollectedVersions, first
  <2>. QED
    BY <1>8, <2>1, Zenon
<1>10. {[table |-> NULL, begin |-> first(v), version |-> v] : v \in {0, 1, 2, 3}} =
         {[table |-> NULL, begin |-> 0, version |-> 0], [table |-> NULL, begin |-> 1, version |-> 1],
          [table |-> NULL, begin |-> 3, version |-> 2], [table |-> NULL, begin |-> 4, version |-> 3]}
  BY <1>4, <1>5, <1>6, <1>7
<1>11. AllVersions =
         {[table |-> NULL, begin |-> 0, version |-> 0], [table |-> NULL, begin |-> 1, version |-> 1],
          [table |-> NULL, begin |-> 3, version |-> 2], [table |-> NULL, begin |-> 4, version |-> 3]}
  BY LegacyFacts DEF AllVersions
<1>. QED
  BY <1>9, <1>10, <1>11

(* v0_4 keeps the rows of the snapshots in which tables were created.      *)
LEMMA TableVersionsAreFirst ==
    ASSUME schema_versions = AllVersions
    PROVE  TableVersions = FirstVersions
<1>1. \A s \in AllVersions : s.table = NULL /\ s.begin \in {0, 1, 3, 4}
                             /\ s.version = LegacySnapshots[s.begin]
  BY DEF AllVersions
<1>2. \A t \in LegacyTables : t.begin \in {1, 4}
  BY DEF LegacyTables
<1>3. ASSUME NEW x \in TableVersions
      PROVE  x \in FirstVersions
  <2>1. PICK s \in AllVersions, t \in LegacyTables :
           s.begin = t.begin /\ x = [table |-> t.id, begin |-> t.begin, version |-> s.version]
    BY <1>1 DEF TableVersions
  <2>. QED
    BY <1>1, <2>1 DEF FirstVersions
<1>4. ASSUME NEW x \in FirstVersions
      PROVE  x \in TableVersions
  <2>1. PICK t \in LegacyTables :
           x = [table |-> t.id, begin |-> t.begin, version |-> LegacySnapshots[t.begin]]
    BY DEF FirstVersions
  <2> DEFINE s == [table |-> NULL, begin |-> t.begin, version |-> LegacySnapshots[t.begin]]
  <2>2. s \in AllVersions
    BY <1>2 DEF AllVersions
  <2>. QED
    BY <2>1, <2>2 DEF TableVersions
<1>. QED
  BY <1>3, <1>4

(* The version of a catalog that has one row for it.                       *)
LEMMA VersionFacts ==
    /\ \A v, w : VersionIs(v) /\ VersionIs(w) => v = w
    /\ \A v : VersionIs(v) => VersionRows # {} /\ Version = v
    /\ VersionRows = {} => Version = NULL
<1>1. \A v, w : Row(0, "version", "global", v) = Row(0, "version", "global", w) => v = w
  BY DEF Row
<1>2. \A v : Row(0, "version", "global", v).value = v
  BY DEF Row
<1>3. ASSUME NEW v, VersionIs(v)
      PROVE  VersionRows # {} /\ Version = v
  <2>1. VersionRows = {Row(0, "version", "global", v)}
    BY <1>3 DEF VersionIs
  <2>2. (CHOOSE r \in VersionRows : TRUE) = Row(0, "version", "global", v)
    BY <2>1
  <2>. QED
    BY <1>2, <2>1, <2>2 DEF Version
<1>. QED
  BY <1>1, <1>3 DEF VersionIs, Version

(* The same after a step.                                                  *)
LEMMA NextVersion ==
    /\ \A v, w : VersionIs(v)' /\ VersionIs(w)' => v = w
    /\ \A v : VersionIs(v)' => VersionRows' # {}
<1>1. \A v, w : Row(0, "version", "global", v) = Row(0, "version", "global", w) => v = w
  BY DEF Row
<1>. QED
  BY <1>1 DEF VersionIs

(* UPDATE of the version: one row for the version again.                   *)
LEMMA SetVersionFacts ==
    ASSUME IndInv, NEW v, VersionIs(v), NEW u \in Int, metadata' = SetVersion(u)
    PROVE  /\ metadata' \subseteq MetaRow
           /\ VersionIs(u)'
<1> DEFINE row == Row(0, "version", "global", u)
<1>1. [Row(0, "version", "global", v) EXCEPT !.value = u] = row
  BY DEF Row
<1>2. metadata' = {r \in metadata : r.key # "version"} \union {row}
  BY <1>1 DEF SetVersion, VersionIs
<1>3. row.key = "version" /\ row \in MetaRow
  BY SessionAssumption DEF Row, MetaRow, Keys
<1>. HIDE DEF row
<1>4. metadata' \subseteq MetaRow
  BY <1>2, <1>3 DEF IndInv, Typed
<1>5. {r \in metadata' : r.key = "version"} = {row}
  BY <1>2, <1>3
<1>6. VersionIs(u)'
  BY <1>5 DEF VersionIs, VersionRows, row
<1>. QED
  BY <1>4, <1>6

(* What a client relies on survives the upgrades of others.                *)
LEMMA ClientUndisturbed ==
    ASSUME IndInv, NEW v \in 0 .. Latest, NEW u \in 0 .. Latest,
           VersionIs(v), VersionIs(u)', v <= u,
           ddl' = ddl, layout \subseteq layout', layout' \subseteq Upgrades,
           NEW d \in Clients, client'[d] = client[d], InUpgrade(d) => u = v
    PROVE  ClientHolds(d)'
<1>1. Latest = 4
  BY DEF Latest
<1>2. \A w : VersionIs(w) => w = v
  BY VersionFacts
<1>3. VersionRows # {}
  BY VersionFacts
<1>4. ClientHolds(d)
  BY DEF IndInv
<1>5. client[d].pc \in {"populate", "populateRest", "load", "connected"} =>
         layout = Upgrades /\ v = Latest /\ u = Latest
  BY <1>1, <1>2, <1>3, <1>4 DEF ClientHolds
<1>6. client[d].pc \in {"upgrade", "upgradeData", "upgradeVersion"} =>
         client[d].at \in Int /\ client[d].at <= u + 1
  <2>1. client[d].pc \in {"upgrade", "upgradeData", "upgradeVersion"} =>
           client[d] \in Upgrading
    BY DEF IndInv, Typed, Off, Creating, Upgrading, InSession
  <2>2. client[d].pc \in {"upgrade", "upgradeData", "upgradeVersion"} => client[d].at <= v + 1
    BY <1>2, <1>4 DEF ClientHolds
  <2>. QED
    BY <1>1, <2>1, <2>2 DEF Upgrading
<1>7. client[d].pc \in {"upgradeData", "upgradeVersion"} =>
         ~ ddl /\ client[d].at \in layout /\ (client[d].at # Latest => client[d].at = u + 1)
  BY <1>2, <1>4 DEF ClientHolds, InUpgrade
<1>. QED
  BY <1>4, <1>5, <1>6, <1>7 DEF ClientHolds

(* The same where the catalog does not change at all.                      *)
LEMMA ClientUnchanged ==
    ASSUME IndInv, UNCHANGED <<ddl, layout, metadata>>, NEW d \in Clients,
           client'[d] = client[d]
    PROVE  ClientHolds(d)'
BY DEF IndInv, ClientHolds, VersionIs, VersionRows

(* A client that is not in a session goes on to a state in which it is not *)
(* in the middle of an upgrade; the catalog does not change.               *)
LEMMA LocalStep ==
    ASSUME IndInv, NEW c \in Clients, NEW state \in {Off} \union Creating \union Upgrading,
           Become(c, state), UNCHANGED <<ddl, tables, metadata>>,
           running' \subseteq running,
           updates' \in 0 .. MaxUpdates, crashes' \in 0 .. MaxCrashes,
           state.pc \notin {"upgradeData", "upgradeVersion"},
           ~ exists => state.pc \in {"off", "create"},
           ClientHolds(c)'
    PROVE  IndInv'
<1>1. UNCHANGED <<exists, layout, snapshots, partition, schema_versions>>
  BY DEF tables
<1>2. /\ client'[c] = state /\ \A d \in Clients : d # c => client'[d] = client[d]
      /\ client' \in [Clients -> {Off} \union Creating \union Upgrading \union InSession]
  BY DEF Become, IndInv, Typed
<1>3. state.pc # "connected"
  BY DEF Off, Creating, Upgrading
<1>4. Typed'
  BY <1>1, <1>2 DEF IndInv, Typed
<1>5. CatalogHolds'
  BY <1>1, <1>2 DEF IndInv, CatalogHolds, VersionIs, VersionRows, IsLegacy
<1>6. OneUpgrade'
  BY <1>2 DEF IndInv, OneUpgrade, InUpgrade
<1>7. DataHolds'
  <2>1. \A u, d : d \in Clients /\ UpgradedBy(u, d)' => UpgradedBy(u, d)
    BY <1>2 DEF UpgradedBy
  <2>2. \A u : NotYet(u)' => NotYet(u)
    BY <1>1, <1>2 DEF NotYet
  <2>. QED
    BY <1>1, <2>1, <2>2 DEF IndInv, DataHolds, IsLegacy, VersionIs, VersionRows
<1>8. \A d \in Clients : ClientHolds(d)'
  BY <1>1, <1>2, ClientUnchanged
<1>. QED
  BY <1>4, <1>5, <1>6, <1>7, <1>8 DEF IndInv

-----------------------------------------------------------------------------
(* The invariant holds initially, and every step preserves it.             *)

(* The constants, computed.                                                *)
LEMMA ConstantFacts ==
    /\ MaxUpdates \in Nat /\ MaxCrashes \in Nat
    /\ "global" \in Scopes /\ Latest = 4 /\ Upgrades = 1 .. 4 /\ NULL = -1
    /\ V0_2 = 1 /\ V0_3 = 2 /\ V0_4 = 3 /\ V1_0 = 4
BY SessionAssumption DEF Latest, Upgrades, NULL, V0_2, V0_3, V0_4, V1_0

(* A database without a catalog, or with one of any version.               *)
LEMMA InitEstablishes == Init => IndInv
<1> SUFFICES ASSUME Init PROVE IndInv
  OBVIOUS
<1>1. /\ ddl \in BOOLEAN /\ client = [c \in Clients |-> Off] /\ running = {}
      /\ updates = 0 /\ crashes = 0
  BY DEF Init
<1>2. Off.pc = "off"
  BY DEF Off
<1>3. /\ client \in [Clients -> {Off} \union Creating \union Upgrading \union InSession]
      /\ \A c \in Clients : client[c].pc = "off"
  BY <1>1, <1>2
<1>4. OneUpgrade /\ \A c \in Clients : ClientHolds(c)
  BY <1>3 DEF OneUpgrade, InUpgrade, ClientHolds
<1>5. CASE Empty
  <2>1. /\ exists = FALSE /\ layout = {} /\ metadata = {} /\ snapshots = <<>> /\ partition = NULL
    BY <1>5 DEF Empty
  <2>2. VersionRows = {} /\ DOMAIN snapshots = {}
    BY <2>1 DEF VersionRows
  <2>3. Typed
    <3>1. partition \in Partitions
      BY <2>1 DEF Partitions
    <3>2. layout \subseteq Upgrades /\ metadata \subseteq MetaRow
      BY <2>1
    <3>3. updates \in 0 .. MaxUpdates /\ crashes \in 0 .. MaxCrashes
      BY <1>1, ConstantFacts
    <3>. QED
      BY <1>1, <1>3, <2>1, <3>1, <3>2, <3>3 DEF Typed
  <2>4. CatalogHolds
    <3>1. ~ IsLegacy
      BY <2>2, LegacyFacts DEF IsLegacy
    <3>2. \A v : ~ VersionIs(v)
      BY <2>2, VersionFacts
    <3>. QED
      BY <1>3, <2>1, <2>2, <3>1, <3>2 DEF CatalogHolds
  <2>5. DataHolds
    BY <2>2, LegacyFacts DEF DataHolds, IsLegacy
  <2>. QED
    BY <1>4, <2>3, <2>4, <2>5 DEF IndInv
<1>6. ASSUME NEW v \in 0 .. Latest + 1, Legacy(v)
      PROVE  IndInv
  <2>1. /\ exists = TRUE /\ layout = UpTo(v) /\ metadata = {Row(0, "version", "global", v)}
        /\ snapshots = LegacySnapshots
        /\ partition = IF v >= V0_2 THEN Columns[PartitionIndex + 1] ELSE PartitionIndex
    BY <1>6 DEF Legacy, UpTo
  <2>2. Row(0, "version", "global", v) \in MetaRow /\ Row(0, "version", "global", v).key = "version"
    BY ConstantFacts DEF Row, MetaRow, Keys
  <2>3. VersionIs(v)
    BY <2>1, <2>2 DEF VersionIs, VersionRows
  <2>4. v \in Int
    BY ConstantFacts
  <2>5. Typed
    <3>1. partition \in Partitions
      BY <2>1, LegacyFacts DEF Partitions
    <3>2. layout \subseteq Upgrades
      BY <2>1 DEF UpTo
    <3>. QED
      BY <1>1, <1>3, <2>1, <2>2, <3>1, <3>2, ConstantFacts DEF Typed
  <2>6. CatalogHolds
    <3>1. \A w : VersionIs(w) => w = v
      BY <2>3, VersionFacts
    <3>2. UpTo(v) \subseteq UpTo(v + 1)
      BY <2>4, ConstantFacts DEF UpTo
    <3>3. DOMAIN snapshots # {}
      BY <2>1, LegacyFacts
    <3>. QED
      BY <2>1, <2>3, <3>1, <3>2, <3>3 DEF CatalogHolds
  <2>7. DataHolds
    <3>1. \A w : VersionIs(w) => w = v
      BY <2>3, VersionFacts
    <3>2. \A u : ~ \E c \in Clients : UpgradedBy(u, c)
      BY <1>3 DEF UpgradedBy
    <3>3. /\ v >= V0_2 => partition = TheColumn
          /\ v < V0_2 => partition = PartitionIndex
      BY <2>1, <2>4, ConstantFacts DEF TheColumn
    <3>4. /\ v < V0_3 => schema_versions = {}
          /\ v = V0_3 => schema_versions = AllVersions
          /\ v >= V0_4 => schema_versions = FirstVersions
      BY <1>6, <2>4, ConstantFacts DEF Legacy, AllVersions, FirstVersions
    <3>. QED
      BY <3>1, <3>2, <3>3, <3>4 DEF DataHolds
  <2>. QED
    BY <1>4, <2>5, <2>6, <2>7 DEF IndInv
<1>. QED
  BY <1>5, <1>6 DEF Init

(* Checks, errors and crashes: the client is off again or about to create  *)
(* or upgrade.                                                             *)
LEMMA GiveUpStep ==
    ASSUME IndInv, NEW c \in Clients, Become(c, Off), UNCHANGED <<ddl, tables, metadata>>,
           running' \subseteq running,
           updates' \in 0 .. MaxUpdates, crashes' \in 0 .. MaxCrashes
    PROVE  IndInv'
<1>1. Off.pc = "off"
  BY DEF Off
<1>2. client'[c] = Off
  BY DEF Become, IndInv, Typed
<1>3. ClientHolds(c)'
  BY <1>1, <1>2 DEF ClientHolds
<1>. QED
  BY <1>1, <1>3, LocalStep

(* Ducklake::create finds no catalog.                                      *)
LEMMA CreateCheckStep ==
    ASSUME IndInv, NEW c \in Clients, CreateCheck(c)
    PROVE  IndInv'
<1> DEFINE state == [pc |-> "create"]
<1>1. /\ client[c].pc = "off" /\ Become(c, state)
      /\ UNCHANGED <<ddl, tables, metadata, options, updates, crashes>>
  BY DEF CreateCheck
<1>2. running' \subseteq running
  BY <1>1 DEF options
<1>3. state \in Creating /\ state.pc = "create"
  BY DEF Creating
<1>. HIDE DEF state
<1>4. ClientHolds(c)'
  <2>1. client'[c] = state
    BY <1>1 DEF Become, IndInv, Typed
  <2>. QED
    BY <1>3, <2>1 DEF ClientHolds
<1>5. updates' \in 0 .. MaxUpdates /\ crashes' \in 0 .. MaxCrashes
  BY <1>1 DEF IndInv, Typed
<1>. QED
  BY <1>1, <1>2, <1>3, <1>4, <1>5, LocalStep

(* Ducklake::connect reads the version.                                    *)
LEMMA ReadVersionStep ==
    ASSUME IndInv, NEW c \in Clients, ReadVersion(c)
    PROVE  IndInv'
<1>1. /\ client[c].pc = "off"
      /\ UNCHANGED <<ddl, tables, metadata, options, updates, crashes>>
  BY DEF ReadVersion
<1>2. PICK r \in VersionRows :
         r.value \in SUPPORTED_VERSIONS /\ Become(c, [pc |-> "upgrade", at |-> r.value + 1])
  BY DEF ReadVersion
<1>3. PICK v \in 0 .. Latest + 1 : VersionIs(v)
  BY DEF IndInv, CatalogHolds
<1>4. r.value = v
  BY <1>3 DEF VersionIs, Row
<1> DEFINE state == [pc |-> "upgrade", at |-> v + 1]
<1>5. v \in 0 .. Latest
  BY <1>2, <1>4 DEF SUPPORTED_VERSIONS
<1>6. state \in Upgrading /\ state.pc = "upgrade" /\ state.at = v + 1
  BY <1>5, ConstantFacts DEF Upgrading
<1>7. Become(c, state)
  BY <1>2, <1>4
<1>. HIDE DEF state
<1>8. running' \subseteq running
  BY <1>1 DEF options
<1>9. VersionIs(v)'
  BY <1>1, <1>3 DEF VersionIs, VersionRows
<1>10. ClientHolds(c)'
  <2>1. client'[c] = state
    BY <1>7 DEF Become, IndInv, Typed
  <2>2. state.at <= v + 1
    BY <1>5, <1>6, ConstantFacts
  <2>. QED
    BY <1>5, <1>6, <1>9, <2>1, <2>2 DEF ClientHolds
<1>11. updates' \in 0 .. MaxUpdates /\ crashes' \in 0 .. MaxCrashes
  BY <1>1 DEF IndInv, Typed
<1>12. exists
  BY <1>2 DEF IndInv, Typed, CatalogHolds, VersionRows
<1>. QED
  BY <1>1, <1>6, <1>7, <1>8, <1>10, <1>11, <1>12, LocalStep

(* The steps of creating a catalog: the tables exist with the latest       *)
(* layout, and others are off, or are creating it as well.                 *)
LEMMA CreateStep ==
    ASSUME IndInv, NEW c \in Clients, NEW state \in Creating, ~ Connected(c), Become(c, state),
           UNCHANGED <<ddl, partition, schema_versions, options, updates, crashes>>,
           exists' = TRUE, layout' = Upgrades, metadata' \subseteq MetaRow,
           (VersionRows = {} /\ ~ IsLegacy)' \/ VersionIs(Latest)',
           ddl => VersionIs(Latest)' /\ DOMAIN snapshots' # {},
           IsLegacy' => UNCHANGED <<layout, VersionRows, snapshots>>,
           \A d \in Clients : d # c => ClientHolds(d)', ClientHolds(c)'
    PROVE  IndInv'
<1>1. /\ client'[c] = state /\ \A d \in Clients : d # c => client'[d] = client[d]
      /\ client' \in [Clients -> {Off} \union Creating \union Upgrading \union InSession]
  BY DEF Become, IndInv, Typed
<1>2. state.pc \in {"create", "populate", "populateRest", "load"}
  BY DEF Creating
<1>3. Typed'
  BY <1>1 DEF IndInv, Typed, options
<1>4. CatalogHolds'
  <2>1. UpTo(Latest) = Upgrades /\ UpTo(Latest + 1) = Upgrades /\ Latest \in 0 .. Latest + 1
    BY ConstantFacts DEF UpTo
  <2>2. \A v : VersionIs(v)' => v = Latest
    BY NextVersion
  <2>. QED
    BY <2>1, <2>2 DEF CatalogHolds
<1>5. OneUpgrade'
  BY <1>1, <1>2 DEF IndInv, OneUpgrade, InUpgrade
<1>6. DataHolds'
  <2>1. \A u, d : d \in Clients /\ UpgradedBy(u, d)' => UpgradedBy(u, d)
    BY <1>1, <1>2 DEF UpgradedBy
  <2>2. IsLegacy' => IsLegacy /\ \A u : NotYet(u)' => NotYet(u)
    BY <1>1, <1>2 DEF NotYet, IsLegacy
  <2>3. IsLegacy' => \A v : VersionIs(v)' => VersionIs(v)
    BY DEF VersionIs
  <2>. QED
    BY <2>1, <2>2, <2>3 DEF IndInv, DataHolds
<1>. QED
  BY <1>3, <1>4, <1>5, <1>6 DEF IndInv

(* init_catalog: all of it, or, where DDL is not rolled back, its tables.  *)
LEMMA InitCatalogStep ==
    ASSUME IndInv, NEW c \in Clients, InitCatalog(c)
    PROVE  IndInv'
<1>1. client[c].pc = "create" /\ UNCHANGED <<ddl, options, updates, crashes>> /\ ~ Connected(c)
  BY DEF InitCatalog, Connected
<1>2. CASE exists
  <2>1. Become(c, Off) /\ UNCHANGED <<tables, metadata>>
    BY <1>2 DEF InitCatalog
  <2>2. running' \subseteq running
    BY <1>1 DEF options
  <2>3. updates' \in 0 .. MaxUpdates /\ crashes' \in 0 .. MaxCrashes
    BY <1>1 DEF IndInv, Typed
  <2>. QED
    BY <1>1, <2>1, <2>2, <2>3, GiveUpStep
<1>3. CASE ~ exists
  <2>1. exists' = TRUE /\ layout' = Upgrades /\ UNCHANGED <<partition, schema_versions>>
    BY <1>3 DEF InitCatalog
  <2>2. /\ metadata = {} /\ DOMAIN snapshots = {}
        /\ \A d \in Clients : client[d].pc \in {"off", "create"}
    BY <1>3 DEF IndInv, CatalogHolds
  <2> DEFINE state == IF ddl THEN [pc |-> "load"] ELSE [pc |-> "populate"]
  <2>3. Become(c, state) /\ state \in Creating /\ state.pc = IF ddl THEN "load" ELSE "populate"
    BY <1>3 DEF InitCatalog, Creating
  <2>. HIDE DEF state
  <2>4. /\ client'[c] = state /\ \A d \in Clients : d # c => client'[d] = client[d]
    BY <2>3 DEF Become, IndInv, Typed
  <2>5. \A d \in Clients : d # c => ClientHolds(d)'
    BY <2>2, <2>4 DEF ClientHolds
  <2>6. ~ IsLegacy'
    BY <1>3, <2>2, LegacyFacts DEF InitCatalog, IsLegacy
  <2>7. CASE ddl
    <3>1. metadata' = Populated /\ snapshots' = FirstSnapshot
      BY <1>3, <2>7 DEF InitCatalog
    <3>2. /\ Row(0, "version", "global", Latest) \in MetaRow
          /\ Row(0, "version", "global", Latest).key = "version"
      BY ConstantFacts DEF Row, MetaRow, Keys
    <3>3. metadata' \subseteq MetaRow /\ VersionIs(Latest)'
      BY <3>1, <3>2 DEF Populated, VersionIs, VersionRows
    <3>5. ClientHolds(c)'
      BY <2>1, <2>3, <2>4, <2>7, <3>3 DEF ClientHolds
    <3>6. DOMAIN snapshots' # {}
      BY <3>1, LegacyFacts
    <3>. QED
      BY <1>1, <2>1, <2>3, <2>5, <2>6, <3>3, <3>5, <3>6, CreateStep
  <2>8. CASE ~ ddl
    <3>1. UNCHANGED <<metadata, snapshots>>
      BY <1>3, <2>8 DEF InitCatalog
    <3>2. VersionRows' = {} /\ metadata' \subseteq MetaRow
      BY <2>2, <3>1 DEF VersionRows
    <3>3. ClientHolds(c)'
      BY <1>1, <2>1, <2>3, <2>4, <2>8, <3>2 DEF ClientHolds
    <3>. QED
      BY <1>1, <2>1, <2>3, <2>5, <2>6, <2>8, <3>1, <3>2, <3>3, CreateStep
  <2>. QED
    BY <2>7, <2>8
<1>. QED
  BY <1>2, <1>3

(* Where every statement commits: the version is written, and then the     *)
(* first snapshot.                                                         *)
LEMMA PopulateMetadataStep ==
    ASSUME IndInv, NEW c \in Clients, PopulateMetadata(c)
    PROVE  IndInv'
<1> DEFINE state == [pc |-> "populateRest"]
<1>1. /\ client[c].pc = "populate" /\ ~ Connected(c) /\ Become(c, state)
      /\ metadata' = metadata \union Populated
      /\ UNCHANGED <<ddl, exists, layout, snapshots, partition, schema_versions>>
      /\ UNCHANGED <<options, updates, crashes>>
  BY DEF PopulateMetadata, Connected, tables
<1>2. state \in Creating /\ state.pc = "populateRest"
  BY DEF Creating
<1>. HIDE DEF state
<1>3. ~ ddl /\ layout = Upgrades /\ (VersionRows = {} \/ VersionIs(Latest))
  BY <1>1 DEF IndInv, ClientHolds
<1>4. exists = TRUE
  BY <1>1 DEF IndInv, Typed, CatalogHolds
<1>5. /\ Row(0, "version", "global", Latest) \in MetaRow
      /\ Row(0, "version", "global", Latest).key = "version"
  BY ConstantFacts DEF Row, MetaRow, Keys
<1>6. VersionRows' = VersionRows \union Populated
  BY <1>1, <1>5 DEF VersionRows, Populated
<1>7. VersionIs(Latest)' /\ (VersionIs(Latest) => VersionRows' = VersionRows)
  BY <1>3, <1>6 DEF VersionIs, Populated
<1>9. metadata' \subseteq MetaRow
  BY <1>1, <1>5 DEF IndInv, Typed, Populated
<1>10. /\ client'[c] = state /\ \A d \in Clients : d # c => client'[d] = client[d]
  BY <1>1 DEF Become, IndInv, Typed
<1>11. \A d \in Clients : d # c => ClientHolds(d)'
  <2>1. ASSUME NEW d \in Clients, d # c
        PROVE  ClientHolds(d)'
    <3>1. ClientHolds(d)
      BY DEF IndInv
    <3>2. CASE VersionRows = {}
      <4>1. \A v : ~ VersionIs(v)
        BY <3>2, VersionFacts
      <4>2. client[d].pc \notin {"populateRest", "load", "connected", "upgrade", "upgradeData",
                                 "upgradeVersion"}
        BY <3>1, <4>1 DEF ClientHolds
      <4>. QED
        BY <1>1, <1>3, <1>7, <1>10, <2>1, <4>2 DEF ClientHolds
    <3>3. CASE VersionIs(Latest)
      BY <1>1, <1>7, <1>10, <2>1, <3>1, <3>3 DEF ClientHolds, VersionIs
    <3>. QED
      BY <1>3, <3>2, <3>3
  <2>. QED
    BY <2>1
<1>12. ClientHolds(c)'
  BY <1>1, <1>2, <1>3, <1>7, <1>10 DEF ClientHolds
<1>13. IsLegacy' => VersionIs(Latest)
  BY <1>1, <1>3, VersionFacts DEF IndInv, CatalogHolds, IsLegacy
<1>. QED
  BY <1>1, <1>2, <1>3, <1>4, <1>7, <1>9, <1>11, <1>12, <1>13, CreateStep

(* The rest of a new catalog is written, where DDL is not transactional.   *)
LEMMA PopulateRestStep ==
    ASSUME IndInv, NEW c \in Clients, PopulateRest(c)
    PROVE  IndInv'
<1> DEFINE state == [pc |-> "load"]
<1>1. /\ client[c].pc = "populateRest" /\ ~ Connected(c) /\ Become(c, state)
      /\ snapshots' = FirstSnapshot
      /\ UNCHANGED <<ddl, exists, layout, partition, schema_versions, metadata>>
      /\ UNCHANGED <<options, updates, crashes>>
  BY DEF PopulateRest, Connected
<1>2. state \in Creating /\ state.pc = "load"
  BY DEF Creating
<1>. HIDE DEF state
<1>3. ~ ddl /\ layout = Upgrades /\ VersionIs(Latest)
  BY <1>1 DEF IndInv, ClientHolds
<1>4. exists = TRUE
  BY <1>1 DEF IndInv, Typed, CatalogHolds
<1>5. VersionIs(Latest)'
  BY <1>1, <1>3 DEF VersionIs, VersionRows
<1>6. metadata' \subseteq MetaRow
  BY <1>1 DEF IndInv, Typed
<1>7. /\ client'[c] = state /\ \A d \in Clients : d # c => client'[d] = client[d]
  BY <1>1 DEF Become, IndInv, Typed
<1>8. \A d \in Clients : d # c => ClientHolds(d)'
  BY <1>1, <1>7, ClientUnchanged
<1>9. ClientHolds(c)'
  BY <1>1, <1>2, <1>3, <1>5, <1>7 DEF ClientHolds
<1>10. ~ IsLegacy'
  BY <1>1, LegacyFacts DEF IsLegacy
<1>. QED
  BY <1>1, <1>2, <1>3, <1>4, <1>5, <1>6, <1>8, <1>9, <1>10, CreateStep

(* A client that upgrades: it has read a version the catalog has reached.  *)
LEMMA UpgradeFacts ==
    ASSUME IndInv, NEW c \in Clients,
           client[c].pc \in {"upgrade", "upgradeData", "upgradeVersion"}
    PROVE  /\ client[c] \in Upgrading /\ client[c].at \in 1 .. 5
           /\ exists = TRUE /\ ~ Connected(c)
           /\ \E v \in 0 .. Latest :
                 /\ VersionIs(v) /\ client[c].at <= v + 1
                 /\ UpTo(v) \subseteq layout /\ layout \subseteq UpTo(v + 1)
                 /\ ddl => layout = UpTo(v) /\ DOMAIN snapshots # {}
<1>1. client[c] \in Upgrading
  BY DEF IndInv, Typed, Off, Creating, Upgrading, InSession
<1>2. client[c].at \in 1 .. 5
  BY <1>1, ConstantFacts DEF Upgrading
<1>3. exists = TRUE
  BY DEF IndInv, Typed, CatalogHolds
<1>4. PICK v \in 0 .. Latest : VersionIs(v) /\ client[c].at <= v + 1
  BY DEF IndInv, ClientHolds
<1>5. v \in 0 .. Latest + 1
  BY ConstantFacts
<1>6. UpTo(v) \subseteq layout /\ layout \subseteq UpTo(v + 1)
  BY <1>4, <1>5 DEF IndInv, CatalogHolds
<1>7. ddl => layout = UpTo(v) /\ DOMAIN snapshots # {}
  BY <1>3, <1>4, VersionFacts DEF IndInv, CatalogHolds
<1>. QED
  BY <1>1, <1>2, <1>3, <1>4, <1>6, <1>7 DEF Connected

(* A step of an upgrade: the version does not decrease, the layout follows *)
(* it, and nobody else is in the middle of an upgrade that it would end.   *)
LEMMA UpgradeStep ==
    ASSUME IndInv, NEW c \in Clients, NEW state \in Upgrading, ~ Connected(c), Become(c, state),
           UNCHANGED <<ddl, exists, snapshots, options, updates, crashes>>, exists = TRUE,
           NEW v \in 0 .. Latest, NEW u \in 0 .. Latest, VersionIs(v), VersionIs(u)', v <= u,
           layout \subseteq layout', UpTo(u) \subseteq layout', layout' \subseteq UpTo(u + 1),
           ddl => layout' = UpTo(u) /\ DOMAIN snapshots # {},
           partition' \in Partitions, metadata' \subseteq MetaRow,
           \A d \in Clients : d # c /\ InUpgrade(d) => u = v /\ ~ InUpgrade(c)',
           ClientHolds(c)', DataHolds'
    PROVE  IndInv'
<1>1. /\ client'[c] = state /\ \A d \in Clients : d # c => client'[d] = client[d]
      /\ client' \in [Clients -> {Off} \union Creating \union Upgrading \union InSession]
  BY DEF Become, IndInv, Typed
<1>2. state.pc # "connected"
  BY DEF Upgrading
<1>3. layout' \subseteq Upgrades
  BY DEF UpTo
<1>4. Typed'
  BY <1>1, <1>3 DEF IndInv, Typed, options
<1>5. CatalogHolds'
  <2>1. u \in 0 .. Latest + 1
    BY ConstantFacts
  <2>2. \A w : VersionIs(w)' => w = u
    BY NextVersion
  <2>. QED
    BY <2>1, <2>2 DEF CatalogHolds
<1>6. OneUpgrade'
  <2>1. ASSUME NEW d \in Clients, NEW e \in Clients, InUpgrade(d)', InUpgrade(e)'
        PROVE  d = e
    <3>1. \A f \in Clients : f # c /\ InUpgrade(f)' => InUpgrade(f)
      BY <1>1 DEF InUpgrade
    <3>. QED
      BY <2>1, <3>1 DEF IndInv, OneUpgrade
  <2>. QED
    BY <2>1 DEF OneUpgrade
<1>7. \A d \in Clients : ClientHolds(d)'
  <2>1. ASSUME NEW d \in Clients, d # c
        PROVE  ClientHolds(d)'
    <3>1. client'[d] = client[d] /\ (InUpgrade(d) => u = v)
      BY <1>1, <2>1
    <3>. QED
      BY <1>3, <3>1, ClientUndisturbed
  <2>. QED
    BY <2>1
<1>. QED
  BY <1>4, <1>5, <1>6, <1>7 DEF IndInv

(* The data upgrades keep the partition a column or a position.            *)
LEMMA PartitionsClosed ==
    ASSUME IndInv, NEW u, UpgradeData(u)
    PROVE  partition' \in Partitions
<1>1. Partitions = {-1, 0, 1, 2, 3}
  BY LegacyFacts, ConstantFacts DEF Partitions
<1>2. partition \in {-1, 0, 1, 2, 3}
  BY <1>1 DEF IndInv, Typed
<1>3. Remapped(partition) \in {-1, 0, 1, 2, 3}
  BY <1>2, LegacyFacts DEF Remapped
<1>. QED
  BY <1>1, <1>2, <1>3 DEF UpgradeData

(* Errors of an upgrade leave the catalog as it was.                       *)
LEMMA ClashStep ==
    ASSUME IndInv, NEW c \in Clients, ~ Connected(c), Become(c, Off),
           UNCHANGED <<ddl, tables, metadata, options, updates, crashes>>
    PROVE  IndInv'
<1>1. running' \subseteq running
  BY DEF options
<1>2. updates' \in 0 .. MaxUpdates /\ crashes' \in 0 .. MaxCrashes
  BY DEF IndInv, Typed
<1>. QED
  BY <1>1, <1>2, GiveUpStep

(* Upgrades::upgrade in one transaction: it is the upgrade to the next     *)
(* version, or the last one, which changes no data, once more.             *)
LEMMA AtomicUpgradeStep ==
    ASSUME IndInv, NEW c \in Clients, Upgrade(c)
    PROVE  IndInv'
<1>0. PICK u : u = client[c].at
  OBVIOUS
<1> DEFINE state == NextUpgrade(c)
<1>1. /\ client[c].pc = "upgrade" /\ u \in Upgrades /\ ddl
      /\ UNCHANGED <<ddl, options, updates, crashes>>
  BY <1>0 DEF Upgrade
<1>2. PICK v \in 0 .. Latest :
         /\ VersionIs(v) /\ u <= v + 1
         /\ ddl => layout = UpTo(v) /\ DOMAIN snapshots # {}
  BY <1>0, <1>1, UpgradeFacts
<1>3. exists = TRUE /\ ~ Connected(c) /\ u \in 1 .. 4 /\ v \in 0 .. 4
  BY <1>0, <1>1, UpgradeFacts, ConstantFacts
<1>4. CASE Clashes(u)
  <2>1. Become(c, Off) /\ UNCHANGED <<tables, metadata>>
    BY <1>0, <1>4 DEF Upgrade
  <2>. QED
    BY <1>1, <1>3, <2>1, ClashStep
<1>5. CASE ~ Clashes(u)
  <2>1. /\ layout' = layout \union {u} /\ UpgradeData(u) /\ metadata' = SetVersion(u)
        /\ Become(c, state) /\ UNCHANGED <<exists, snapshots>>
    BY <1>0, <1>5 DEF Upgrade
  <2>2. state = [pc |-> "upgrade", at |-> u + 1]
    BY <1>0 DEF NextUpgrade
  <2>3. state \in Upgrading /\ state.pc = "upgrade" /\ state.at = u + 1
    BY <1>3, <2>2, ConstantFacts DEF Upgrading
  <2>. HIDE DEF state
  <2>4. u = v + 1 \/ (u = 4 /\ v = 4)
    <3>1. u = 4 \/ u \notin UpTo(v)
      BY <1>1, <1>2, <1>5, ConstantFacts DEF Clashes
    <3>2. u = 4 \/ u > v
      BY <1>1, <1>3, <3>1 DEF UpTo
    <3>. QED
      BY <1>2, <1>3, <3>2
  <2>5. v <= u /\ u \in 0 .. Latest /\ u \in Int
    BY <1>3, <2>4, ConstantFacts
  <2>6. /\ metadata' \subseteq MetaRow /\ VersionIs(u)'
    BY <1>2, <2>1, <2>5, SetVersionFacts
  <2>7. layout = UpTo(v) /\ DOMAIN snapshots # {} /\ layout' = UpTo(u)
    <3>1. UpTo(v) \union {u} = UpTo(u)
      BY <1>3, <2>4, ConstantFacts DEF UpTo
    <3>. QED
      BY <1>1, <1>2, <2>1, <3>1
  <2>8. UpTo(u) \subseteq UpTo(u + 1)
    BY <2>5, ConstantFacts DEF UpTo
  <2>9. \A d \in Clients : client[d].pc \notin {"upgradeData", "upgradeVersion"}
    BY <1>1 DEF IndInv, ClientHolds
  <2>10. /\ client'[c] = state /\ \A d \in Clients : d # c => client'[d] = client[d]
    BY <2>1 DEF Become, IndInv, Typed
  <2>11. ClientHolds(c)'
    BY <2>3, <2>5, <2>6, <2>10 DEF ClientHolds
  <2>12. partition' \in Partitions
    BY <2>1, PartitionsClosed
  <2>13. DataHolds'
    <3> SUFFICES ASSUME IsLegacy'
                 PROVE  \A w \in 0 .. Latest + 1 : VersionIs(w)' =>
                            /\ w >= V0_2 => partition' = TheColumn
                            /\ w < V0_2 => partition' = PartitionIndex
                            /\ w < V0_3 => schema_versions' = {}
                            /\ w = V0_3 => schema_versions' = AllVersions
                            /\ w >= V0_4 => schema_versions' = FirstVersions
      <4>1. \A w, d : d \in Clients => ~ UpgradedBy(w, d)'
        BY <2>3, <2>9, <2>10 DEF UpgradedBy
      <4>. QED
        BY <4>1 DEF DataHolds
    <3>1. /\ v >= V0_2 => partition = TheColumn
          /\ v < V0_2 => partition = PartitionIndex
          /\ v < V0_3 => schema_versions = {}
          /\ v = V0_3 => schema_versions = AllVersions
          /\ v >= V0_4 => schema_versions = FirstVersions
      <4>1. IsLegacy /\ v \in 0 .. Latest + 1
        BY <2>1, ConstantFacts DEF IsLegacy
      <4>2. \A w \in Int : w > v => w \notin layout
        BY <1>3, <2>7 DEF UpTo
      <4>3. (v < V0_3 => NotYet(V0_3)) /\ (v = V0_3 => NotYet(V0_4))
        BY <1>3, <4>2, ConstantFacts DEF NotYet
      <4>. QED
        BY <1>1, <1>2, <4>1, <4>3 DEF IndInv, DataHolds
    <3>2. \A w : VersionIs(w)' => w = u
      BY <2>6, NextVersion
    <3>3. /\ partition' = IF u = 1 THEN Remapped(partition) ELSE partition
          /\ schema_versions' = CASE u = 2 -> schema_versions \union CollectedVersions
                                  [] u = 3 -> TableVersions
                                  [] OTHER -> schema_versions
      BY <2>1, ConstantFacts DEF UpgradeData
    <3>4. Remapped(0) = 2
      BY LegacyFacts DEF Remapped
    <3>5. CollectedVersions = AllVersions
      <4>1. IsLegacy
        BY <2>1 DEF IsLegacy
      <4>. QED
        BY <4>1, CollectedIsAll
    <3>6. CASE u = 1
      <4>1. v = 0
        BY <1>3, <2>4, <3>6
      <4>. QED
        BY <3>1, <3>2, <3>3, <3>4, <3>6, <4>1, LegacyFacts, ConstantFacts
    <3>7. CASE u = 2
      <4>1. v = 1
        BY <1>3, <2>4, <3>7
      <4>. QED
        BY <3>1, <3>2, <3>3, <3>5, <3>7, <4>1, ConstantFacts
    <3>8. CASE u = 3
      <4>1. v = 2
        BY <1>3, <2>4, <3>8
      <4>2. TableVersions = FirstVersions
        BY <3>1, <4>1, TableVersionsAreFirst, ConstantFacts
      <4>. QED
        BY <3>1, <3>2, <3>3, <3>8, <4>1, <4>2, ConstantFacts
    <3>9. CASE u = 4
      <4>1. v \in {3, 4}
        BY <1>3, <2>4, <3>9
      <4>. QED
        BY <3>1, <3>2, <3>3, <3>9, <4>1, ConstantFacts
    <3>. QED
      BY <1>3, <3>6, <3>7, <3>8, <3>9
  <2>14. \A d \in Clients : d # c /\ InUpgrade(d) => u = v /\ ~ InUpgrade(c)'
    BY <2>9 DEF InUpgrade
  <2>15. UpTo(u) \subseteq layout' /\ layout' \subseteq UpTo(u + 1) /\ layout \subseteq layout'
    BY <2>1, <2>7, <2>8
  <2>. QED
    BY <1>1, <1>2, <1>3, <2>1, <2>3, <2>5, <2>6, <2>7, <2>11, <2>12, <2>13, <2>14, <2>15,
       UpgradeStep
<1>. QED
  BY <1>4, <1>5

(* Upgrades::upgrade where ALTER TABLE commits: the first of two clients   *)
(* that start the same upgrade adds its columns, the other one fails.      *)
LEMMA UpgradeSchemaStep ==
    ASSUME IndInv, NEW c \in Clients, UpgradeSchema(c)
    PROVE  IndInv'
<1>0. PICK u : u = client[c].at
  OBVIOUS
<1> DEFINE state == [client[c] EXCEPT !.pc = "upgradeData"]
<1>1. /\ client[c].pc = "upgrade" /\ u \in Upgrades /\ ~ ddl
      /\ UNCHANGED <<ddl, exists, snapshots, partition, schema_versions, metadata>>
      /\ UNCHANGED <<options, updates, crashes>>
  BY <1>0 DEF UpgradeSchema
<1>2. PICK v \in 0 .. Latest :
         /\ VersionIs(v) /\ u <= v + 1
         /\ UpTo(v) \subseteq layout /\ layout \subseteq UpTo(v + 1)
  BY <1>0, <1>1, UpgradeFacts
<1>3. exists = TRUE /\ ~ Connected(c) /\ u \in 1 .. 4 /\ v \in 0 .. 4 /\ client[c] \in Upgrading
  BY <1>0, <1>1, UpgradeFacts, ConstantFacts
<1>4. CASE Clashes(u)
  <2>1. Become(c, Off) /\ UNCHANGED <<layout>>
    BY <1>0, <1>4 DEF UpgradeSchema
  <2>. QED
    BY <1>1, <1>3, <2>1, ClashStep DEF tables
<1>5. CASE ~ Clashes(u)
  <2>1. layout' = layout \union {u} /\ Become(c, state)
    BY <1>0, <1>5 DEF UpgradeSchema
  <2>2. state \in Upgrading /\ state.pc = "upgradeData" /\ state.at = u
    BY <1>0, <1>3 DEF Upgrading
  <2>. HIDE DEF state
  <2>3. u = 4 \/ (u = v + 1 /\ u \notin layout)
    <3>1. u = 4 \/ (u \notin layout /\ u \notin UpTo(v))
      BY <1>1, <1>2, <1>5, ConstantFacts DEF Clashes
    <3>2. u = 4 \/ (u \notin layout /\ u > v)
      BY <1>1, <1>3, <3>1 DEF UpTo
    <3>. QED
      BY <1>2, <1>3, <3>2
  <2>4. VersionIs(v)'
    BY <1>1, <1>2 DEF VersionIs, VersionRows
  <2>5. layout' \subseteq UpTo(v + 1)
    <3>1. u \in UpTo(v + 1)
      BY <1>1, <1>2 DEF UpTo
    <3>. QED
      BY <1>2, <2>1, <3>1
  <2>6. /\ client'[c] = state /\ \A d \in Clients : d # c => client'[d] = client[d]
    BY <2>1 DEF Become, IndInv, Typed
  <2>7. u # Latest => u = v + 1
    BY <2>3, ConstantFacts
  <2>8. ClientHolds(c)'
    <3>1. client'[c].pc = "upgradeData" /\ client'[c].at = u /\ ~ ddl' /\ u \in layout'
      BY <1>1, <2>1, <2>2, <2>6
    <3>. QED
      BY <1>2, <2>4, <2>7, <3>1 DEF ClientHolds
  <2>9. \A d \in Clients : InUpgrade(d) => u = 4
    <3>1. ASSUME NEW d \in Clients, InUpgrade(d)
          PROVE  client[d].at \in layout /\ client[d].at = v + 1
      BY <1>2, <3>1, VersionFacts DEF IndInv, ClientHolds, InUpgrade
    <3>. QED
      BY <2>3, <3>1
  <2>10. \A d \in Clients : d # c /\ InUpgrade(d) => v = v /\ ~ InUpgrade(c)'
    BY <2>2, <2>6, <2>9, ConstantFacts DEF InUpgrade
  <2>11. DataHolds'
    <3>1. \A w, d : d \in Clients /\ UpgradedBy(w, d)' => UpgradedBy(w, d)
      BY <2>2, <2>6 DEF UpgradedBy
    <3>2. \A w \in {V0_2, V0_3, V0_4} : NotYet(w)' => NotYet(w)
      <4>1. ASSUME NEW w \in {1, 2, 3}, NotYet(w)'
            PROVE  NotYet(w)
        <5>1. CASE w = u
          BY <2>3, <5>1 DEF NotYet
        <5>2. CASE w # u
          <6>1. w \notin layout' => w \notin layout
            BY <2>1
          <6>2. ASSUME NEW d \in Clients, client'[d].pc = "upgradeData", client'[d].at = w
                PROVE  client[d].pc = "upgradeData" /\ client[d].at = w
            BY <2>2, <2>6, <5>2, <6>2
          <6>. QED
            BY <4>1, <6>1, <6>2 DEF NotYet
        <5>. QED
          BY <5>1, <5>2
      <4>. QED
        BY <4>1, ConstantFacts
    <3>3. \A w : VersionIs(w)' => VersionIs(w)
      BY <1>1 DEF VersionIs, VersionRows
    <3>4. IsLegacy' => IsLegacy
      BY <1>1 DEF IsLegacy
    <3>. QED
      BY <1>1, <3>1, <3>2, <3>3, <3>4 DEF IndInv, DataHolds
  <2>12. /\ partition' \in Partitions /\ metadata' \subseteq MetaRow /\ v <= v
         /\ layout \subseteq layout' /\ UpTo(v) \subseteq layout'
    BY <1>1, <1>2, <1>3, <2>1 DEF IndInv, Typed
  <2>. QED
    BY <1>1, <1>2, <1>3, <2>1, <2>2, <2>4, <2>5, <2>8, <2>10, <2>11, <2>12, UpgradeStep
<1>. QED
  BY <1>4, <1>5

(* The rows of an upgrade: the client is the only one at it, and the data  *)
(* is not upgraded yet.                                                    *)
LEMMA UpgradeRowsStep ==
    ASSUME IndInv, NEW c \in Clients, UpgradeRows(c)
    PROVE  IndInv'
<1>0. PICK u : u = client[c].at
  OBVIOUS
<1> DEFINE state == [client[c] EXCEPT !.pc = "upgradeVersion"]
<1>1. /\ client[c].pc = "upgradeData" /\ UpgradeData(u) /\ Become(c, state)
      /\ UNCHANGED <<ddl, exists, layout, snapshots, metadata>>
      /\ UNCHANGED <<options, updates, crashes>>
  BY <1>0 DEF UpgradeRows
<1>2. PICK v \in 0 .. Latest :
         /\ VersionIs(v) /\ u <= v + 1
         /\ UpTo(v) \subseteq layout /\ layout \subseteq UpTo(v + 1)
  BY <1>0, <1>1, UpgradeFacts
<1>3. ~ ddl /\ u \in layout /\ (u # 4 => u = v + 1)
  BY <1>0, <1>1, <1>2, VersionFacts, ConstantFacts DEF IndInv, ClientHolds
<1>4. exists = TRUE /\ ~ Connected(c) /\ u \in 1 .. 4 /\ v \in 0 .. 4 /\ client[c] \in Upgrading
  <2>1. layout \subseteq 1 .. 4
    BY ConstantFacts DEF IndInv, Typed
  <2>. QED
    BY <1>0, <1>1, <1>3, <2>1, UpgradeFacts, ConstantFacts
<1>5. state \in Upgrading /\ state.pc = "upgradeVersion" /\ state.at = u
  BY <1>0, <1>4 DEF Upgrading
<1>. HIDE DEF state
<1>6. /\ client'[c] = state /\ \A d \in Clients : d # c => client'[d] = client[d]
  BY <1>1 DEF Become, IndInv, Typed
<1>7. VersionIs(v)'
  BY <1>1, <1>2 DEF VersionIs, VersionRows
<1>8. ClientHolds(c)'
  <2>1. client'[c].pc = "upgradeVersion" /\ client'[c].at = u /\ ~ ddl' /\ u \in layout'
    BY <1>1, <1>3, <1>5, <1>6
  <2>2. u # Latest => u = v + 1
    BY <1>3, ConstantFacts
  <2>. QED
    BY <1>2, <1>7, <2>1, <2>2 DEF ClientHolds
<1>9. \A d \in Clients : d # c /\ client[d].pc \in {"upgradeData", "upgradeVersion"} /\ client[d].at # 4
                           => u = 4
  BY <1>0, <1>1, ConstantFacts DEF IndInv, OneUpgrade, InUpgrade
<1>10. \A d \in Clients : d # c /\ InUpgrade(d) => v = v /\ ~ InUpgrade(c)'
  BY <1>5, <1>6, <1>9, ConstantFacts DEF InUpgrade
<1>11. DataHolds'
  <2> SUFFICES ASSUME IsLegacy'
               PROVE  \A w \in 0 .. Latest + 1 : VersionIs(w)' =>
        /\ w >= V0_2 \/ (\E d \in Clients : UpgradedBy(V0_2, d)') => partition' = TheColumn
        /\ w < V0_2 /\ (NotYet(V0_2)' \/ ddl') => partition' = PartitionIndex
        /\ w < V0_3 /\ NotYet(V0_3)' => schema_versions' = {}
        /\ w < V0_3 /\ (\E d \in Clients : UpgradedBy(V0_3, d)') => schema_versions' = AllVersions
        /\ w = V0_3 /\ NotYet(V0_4)' => schema_versions' = AllVersions
        /\ w >= V0_4 \/ (\E d \in Clients : UpgradedBy(V0_4, d)') =>
              schema_versions' = FirstVersions
    BY DEF DataHolds
  <2>1. \A w : VersionIs(w)' => w = v
    BY <1>7, NextVersion
  <2>2. IsLegacy /\ v \in 0 .. Latest + 1
    BY <1>1, ConstantFacts DEF IsLegacy
  <2>3. /\ v >= 1 \/ (\E d \in Clients : UpgradedBy(1, d)) => partition = TheColumn
        /\ v < 1 /\ NotYet(1) => partition = PartitionIndex
        /\ v < 2 /\ NotYet(2) => schema_versions = {}
        /\ v < 2 /\ (\E d \in Clients : UpgradedBy(2, d)) => schema_versions = AllVersions
        /\ v = 2 /\ NotYet(3) => schema_versions = AllVersions
        /\ v >= 3 \/ (\E d \in Clients : UpgradedBy(3, d)) => schema_versions = FirstVersions
    BY <1>2, <2>2, ConstantFacts DEF IndInv, DataHolds
  <2>4. NotYet(u)
    BY <1>0, <1>1 DEF NotYet
  <2>5. /\ partition' = IF u = 1 THEN Remapped(partition) ELSE partition
        /\ schema_versions' = CASE u = 2 -> schema_versions \union CollectedVersions
                                [] u = 3 -> TableVersions
                                [] OTHER -> schema_versions
    BY <1>1, ConstantFacts DEF UpgradeData
  <2>6. \A w \in {1, 2, 3} : w # u => /\ NotYet(w)' => NotYet(w)
                                     /\ \A d \in Clients : UpgradedBy(w, d)' => UpgradedBy(w, d)
    BY <1>1, <1>5, <1>6 DEF NotYet, UpgradedBy
  <2>7. u # 4 => /\ ~ NotYet(u)'
                 /\ \A w \in {1, 2, 3} : w # u => \A d \in Clients : ~ UpgradedBy(w, d)'
    BY <1>1, <1>3, <1>5, <1>6, <1>9 DEF NotYet, UpgradedBy
  <2>8. CASE u = 1
    <3>1. v = 0
      BY <1>3, <1>4, <2>8
    <3>2. partition' = 2
      BY <2>3, <2>4, <2>5, <2>8, <3>1, LegacyFacts DEF Remapped
    <3>3. schema_versions' = schema_versions
      BY <2>5, <2>8
    <3>. QED
      BY <1>1, <1>3, <2>1, <2>3, <2>6, <2>7, <2>8, <3>1, <3>2, <3>3, LegacyFacts, ConstantFacts
  <2>9. CASE u = 2
    <3>1. v = 1
      BY <1>3, <1>4, <2>9
    <3>2. schema_versions' = AllVersions
      BY <2>2, <2>3, <2>4, <2>5, <2>9, <3>1, CollectedIsAll
    <3>3. partition' = partition
      BY <2>5, <2>9
    <3>. QED
      BY <1>1, <1>3, <2>1, <2>3, <2>6, <2>7, <2>9, <3>1, <3>2, <3>3, ConstantFacts
  <2>10. CASE u = 3
    <3>1. v = 2
      BY <1>3, <1>4, <2>10
    <3>2. schema_versions' = FirstVersions
      BY <2>3, <2>4, <2>5, <2>10, <3>1, TableVersionsAreFirst
    <3>3. partition' = partition
      BY <2>5, <2>10
    <3>. QED
      BY <1>1, <1>3, <2>1, <2>3, <2>6, <2>7, <2>10, <3>1, <3>2, <3>3, ConstantFacts
  <2>11. CASE u = 4
    <3>1. partition' = partition /\ schema_versions' = schema_versions
      BY <2>5, <2>11
    <3>2. v \in {3, 4}
      BY <1>2, <1>4, <2>11
    <3>. QED
      BY <1>1, <1>3, <2>1, <2>3, <2>6, <2>11, <3>1, <3>2, ConstantFacts
  <2>. QED
    BY <1>4, <2>8, <2>9, <2>10, <2>11
<1>12. /\ partition' \in Partitions /\ metadata' \subseteq MetaRow /\ v <= v
       /\ layout \subseteq layout' /\ UpTo(v) \subseteq layout' /\ layout' \subseteq UpTo(v + 1)
  BY <1>1, <1>2, <1>4, PartitionsClosed DEF IndInv, Typed
<1>. QED
  BY <1>1, <1>2, <1>3, <1>4, <1>5, <1>7, <1>8, <1>10, <1>11, <1>12, UpgradeStep

(* The version of an upgrade is set last: its columns and data are there.  *)
LEMMA UpgradeVersionStep ==
    ASSUME IndInv, NEW c \in Clients, UpgradeVersion(c)
    PROVE  IndInv'
<1>0. PICK u : u = client[c].at
  OBVIOUS
<1> DEFINE state == NextUpgrade(c)
<1>1. /\ client[c].pc = "upgradeVersion" /\ metadata' = SetVersion(u) /\ Become(c, state)
      /\ UNCHANGED <<ddl, exists, layout, snapshots, partition, schema_versions>>
      /\ UNCHANGED <<options, updates, crashes>>
  BY <1>0 DEF UpgradeVersion, tables
<1>2. PICK v \in 0 .. Latest :
         /\ VersionIs(v) /\ u <= v + 1
         /\ UpTo(v) \subseteq layout /\ layout \subseteq UpTo(v + 1)
  BY <1>0, <1>1, UpgradeFacts
<1>3. ~ ddl /\ u \in layout /\ (u # 4 => u = v + 1)
  BY <1>0, <1>1, <1>2, VersionFacts, ConstantFacts DEF IndInv, ClientHolds
<1>4. exists = TRUE /\ ~ Connected(c) /\ u \in 1 .. 4 /\ v \in 0 .. 4
  <2>1. layout \subseteq 1 .. 4
    BY ConstantFacts DEF IndInv, Typed
  <2>. QED
    BY <1>0, <1>1, <1>3, <2>1, UpgradeFacts, ConstantFacts
<1>5. state \in Upgrading /\ state.pc = "upgrade" /\ state.at = u + 1
  BY <1>0, <1>4, ConstantFacts DEF NextUpgrade, Upgrading
<1>. HIDE DEF state
<1>6. /\ client'[c] = state /\ \A d \in Clients : d # c => client'[d] = client[d]
  BY <1>1 DEF Become, IndInv, Typed
<1>7. u = v + 1 \/ (u = 4 /\ v = 4)
  BY <1>2, <1>3, <1>4
<1>8. v <= u /\ u \in 0 .. Latest /\ u \in Int
  BY <1>4, <1>7, ConstantFacts
<1>9. /\ metadata' \subseteq MetaRow /\ VersionIs(u)'
  BY <1>1, <1>2, <1>8, SetVersionFacts
<1>10. UpTo(u) \subseteq layout' /\ layout' \subseteq UpTo(u + 1) /\ layout \subseteq layout'
  <2>1. UpTo(u) \subseteq UpTo(v) \union {u} /\ UpTo(v + 1) \subseteq UpTo(u + 1)
    BY <1>4, <1>7, ConstantFacts DEF UpTo
  <2>. QED
    BY <1>1, <1>2, <1>3, <2>1
<1>11. ClientHolds(c)'
  BY <1>5, <1>8, <1>9, <1>6 DEF ClientHolds
<1>12. ASSUME NEW d \in Clients, d # c, client[d].pc \in {"upgradeData", "upgradeVersion"},
              client[d].at # 4
       PROVE  FALSE
  <2>1. client[d].at \in layout /\ client[d].at = v + 1
    BY <1>2, <1>12, VersionFacts, ConstantFacts DEF IndInv, ClientHolds
  <2>2. u = 4
    BY <1>0, <1>1, <1>12, ConstantFacts DEF IndInv, OneUpgrade, InUpgrade
  <2>3. client[d].at \in 1 .. 4
    BY <2>1, ConstantFacts DEF IndInv, Typed
  <2>. QED
    BY <1>4, <1>7, <1>12, <2>1, <2>2, <2>3
<1>13. \A d \in Clients : d # c /\ InUpgrade(d) => u = v /\ ~ InUpgrade(c)'
  BY <1>12, ConstantFacts DEF InUpgrade
<1>14. DataHolds'
  <2> SUFFICES ASSUME IsLegacy'
               PROVE  \A w \in 0 .. Latest + 1 : VersionIs(w)' =>
        /\ w >= V0_2 \/ (\E d \in Clients : UpgradedBy(V0_2, d)') => partition' = TheColumn
        /\ w < V0_2 /\ (NotYet(V0_2)' \/ ddl') => partition' = PartitionIndex
        /\ w < V0_3 /\ NotYet(V0_3)' => schema_versions' = {}
        /\ w < V0_3 /\ (\E d \in Clients : UpgradedBy(V0_3, d)') => schema_versions' = AllVersions
        /\ w = V0_3 /\ NotYet(V0_4)' => schema_versions' = AllVersions
        /\ w >= V0_4 \/ (\E d \in Clients : UpgradedBy(V0_4, d)') =>
              schema_versions' = FirstVersions
    BY DEF DataHolds
  <2>1. \A w : VersionIs(w)' => w = u
    BY <1>9, NextVersion
  <2>2. IsLegacy /\ v \in 0 .. Latest + 1
    BY <1>1, ConstantFacts DEF IsLegacy
  <2>3. /\ v >= 1 \/ (\E d \in Clients : UpgradedBy(1, d)) => partition = TheColumn
        /\ v < 2 /\ NotYet(2) => schema_versions = {}
        /\ v < 2 /\ (\E d \in Clients : UpgradedBy(2, d)) => schema_versions = AllVersions
        /\ v = 2 /\ NotYet(3) => schema_versions = AllVersions
        /\ v >= 3 \/ (\E d \in Clients : UpgradedBy(3, d)) => schema_versions = FirstVersions
    BY <1>2, <2>2, ConstantFacts DEF IndInv, DataHolds
  <2>4. UpgradedBy(u, c)
    BY <1>0, <1>1 DEF UpgradedBy
  <2>5. \A w \in {1, 2, 3} : NotYet(w)' => w \notin layout
    BY <1>1, <1>5, <1>6, <1>12 DEF NotYet
  <2>6. \A w \in {1, 2, 3} : \A d \in Clients : ~ UpgradedBy(w, d)'
    BY <1>5, <1>6, <1>12 DEF UpgradedBy
  <2>7. \A w \in {1, 2, 3} : w \notin layout => NotYet(w)
    BY DEF NotYet
  <2>8. CASE u = 1
    <3>1. v = 0
      BY <1>4, <1>7, <2>8
    <3>. QED
      BY <1>1, <2>1, <2>3, <2>4, <2>5, <2>6, <2>7, <2>8, <3>1, ConstantFacts
  <2>9. CASE u = 2
    <3>1. v = 1
      BY <1>4, <1>7, <2>9
    <3>. QED
      BY <1>1, <2>1, <2>3, <2>4, <2>5, <2>6, <2>7, <2>9, <3>1, ConstantFacts
  <2>10. CASE u = 3
    <3>1. v = 2
      BY <1>4, <1>7, <2>10
    <3>. QED
      BY <1>1, <2>1, <2>3, <2>4, <2>5, <2>6, <2>7, <2>10, <3>1, ConstantFacts
  <2>11. CASE u = 4
    <3>1. v \in {3, 4}
      BY <1>4, <1>7, <2>11
    <3>. QED
      BY <1>1, <2>1, <2>3, <2>6, <2>11, <3>1, ConstantFacts
  <2>. QED
    BY <1>4, <2>8, <2>9, <2>10, <2>11
<1>15. partition' \in Partitions
  BY <1>1 DEF IndInv, Typed
<1>. QED
  BY <1>1, <1>2, <1>3, <1>4, <1>5, <1>8, <1>9, <1>10, <1>11, <1>13, <1>14, <1>15, UpgradeStep

(* Steps of a session, and its start: the catalog has the latest version,  *)
(* and keeps it.                                                           *)
LEMMA SessionStep ==
    ASSUME IndInv, NEW c \in Clients, NEW state \in InSession, Become(c, state),
           UNCHANGED <<ddl, tables, crashes>>, updates' \in 0 .. MaxUpdates,
           exists = TRUE, layout = Upgrades, VersionIs(Latest), VersionRows' = VersionRows,
           metadata' \subseteq MetaRow, \A u \in running' : UpdateTyped(u)
    PROVE  IndInv'
<1>1. UNCHANGED <<exists, layout, snapshots, partition, schema_versions>>
  BY DEF tables
<1>2. /\ client'[c] = state /\ \A d \in Clients : d # c => client'[d] = client[d]
      /\ client' \in [Clients -> {Off} \union Creating \union Upgrading \union InSession]
  BY DEF Become, IndInv, Typed
<1>3. state.pc = "connected"
  BY DEF InSession
<1>4. Typed'
  BY <1>1, <1>2 DEF IndInv, Typed
<1>5. \A v : VersionIs(v)' <=> VersionIs(v)
  BY DEF VersionIs
<1>6. CatalogHolds'
  BY <1>1, <1>5 DEF IndInv, CatalogHolds, IsLegacy
<1>7. OneUpgrade'
  BY <1>2, <1>3 DEF IndInv, OneUpgrade, InUpgrade
<1>8. DataHolds'
  <2>1. \A u, d : d \in Clients /\ UpgradedBy(u, d)' => UpgradedBy(u, d)
    BY <1>2, <1>3 DEF UpgradedBy
  <2>2. \A u : NotYet(u)' => NotYet(u)
    BY <1>1, <1>2, <1>3 DEF NotYet
  <2>. QED
    BY <1>1, <1>5, <2>1, <2>2 DEF IndInv, DataHolds, IsLegacy
<1>9. \A d \in Clients : ClientHolds(d)'
  <2>1. ASSUME NEW d \in Clients, d # c
        PROVE  ClientHolds(d)'
    BY <1>1, <1>2, <1>5, <2>1 DEF IndInv, ClientHolds
  <2>2. ClientHolds(c)'
    BY <1>1, <1>2, <1>3, <1>5 DEF ClientHolds
  <2>. QED
    BY <2>1, <2>2
<1>. QED
  BY <1>4, <1>6, <1>7, <1>8, <1>9 DEF IndInv

(* Ducklake::new loads the options of a catalog in the latest format.      *)
LEMMA LoadStep ==
    ASSUME IndInv, NEW c \in Clients, Load(c)
    PROVE  IndInv'
<1>1. /\ client[c].pc = "load" \/ (client[c].pc = "upgrade" /\ client[c].at > Latest)
      /\ UNCHANGED <<ddl, tables, metadata, updates, crashes>>
  BY DEF Load
<1>2. ~ Connected(c)
  BY <1>1 DEF Connected
<1>3. exists = TRUE
  BY <1>1 DEF IndInv, Typed, CatalogHolds
<1>4. layout = Upgrades /\ VersionIs(Latest)
  <2>1. CASE client[c].pc = "load"
    BY <2>1 DEF IndInv, ClientHolds
  <2>2. CASE client[c].pc = "upgrade" /\ client[c].at > Latest
    <3>1. client[c].at \in 1 .. 5
      BY <2>2, UpgradeFacts
    <3>2. PICK v \in 0 .. Latest : /\ VersionIs(v) /\ client[c].at <= v + 1
                                   /\ UpTo(v) \subseteq layout
      BY <2>2, UpgradeFacts
    <3>3. v = Latest
      BY <2>2, <3>1, <3>2, ConstantFacts
    <3>4. Upgrades \subseteq UpTo(Latest)
      BY ConstantFacts DEF UpTo
    <3>. QED
      BY <3>2, <3>3, <3>4 DEF IndInv, Typed
  <2>. QED
    BY <1>1, <2>1, <2>2
<1>5. CASE snapshots = <<>>
  <2>1. Become(c, Off) /\ UNCHANGED options
    BY <1>5 DEF Load, options
  <2>. QED
    BY <1>1, <1>2, <2>1, ClashStep
<1>6. CASE snapshots # <<>>
  <2>1. PICK readonly \in BOOLEAN : Become(c, [pc |-> "connected", readonly |-> readonly])
    BY <1>6 DEF Load
  <2>2. [pc |-> "connected", readonly |-> readonly] \in InSession
    BY DEF InSession
  <2>3. VersionRows' = VersionRows /\ updates' \in 0 .. MaxUpdates
    BY <1>1 DEF VersionRows, IndInv, Typed
  <2>4. metadata' \subseteq MetaRow /\ \A u \in running' : UpdateTyped(u)
    BY <1>1 DEF Load, IndInv, Typed
  <2>. QED
    BY <1>1, <1>3, <1>4, <2>1, <2>2, <2>3, <2>4, SessionStep
<1>. QED
  BY <1>5, <1>6

(* Closing a connection, and a crash.                                      *)
LEMMA LeaveStep ==
    ASSUME IndInv, NEW c \in Clients, Disconnect(c) \/ Crash(c)
    PROVE  IndInv'
<1>1. CASE Disconnect(c)
  <2>1. /\ updates' \in 0 .. MaxUpdates /\ crashes' \in 0 .. MaxCrashes
        /\ running' \subseteq running
    BY <1>1 DEF Disconnect, IndInv, Typed
  <2>. QED
    BY <1>1, <2>1, GiveUpStep DEF Disconnect
<1>2. CASE Crash(c)
  <2>1. updates' \in 0 .. MaxUpdates /\ crashes' \in 0 .. MaxCrashes
    BY <1>2, ConstantFacts DEF Crash, IndInv, Typed
  <2>2. running' \subseteq running
    BY <1>2 DEF Crash, options
  <2>. QED
    BY <1>2, <2>1, <2>2, GiveUpStep DEF Crash
<1>. QED
  BY <1>1, <1>2

(* A session: what it holds of the catalog.                                *)
LEMMA ConnectedFacts ==
    ASSUME IndInv, NEW c \in Clients, Connected(c)
    PROVE  /\ exists = TRUE /\ layout = Upgrades /\ VersionIs(Latest)
           /\ client[c] \in InSession
<1>1. exists = TRUE
  BY DEF IndInv, Typed, CatalogHolds, Connected
<1>2. layout = Upgrades /\ VersionIs(Latest)
  BY DEF IndInv, ClientHolds, Connected
<1>3. client[c] \in InSession
  BY DEF IndInv, Typed, Off, Creating, Upgrading, InSession, Connected
<1>. QED
  BY <1>1, <1>2, <1>3

(* MetadataCache::update begins: an update of an option, by a session.     *)
LEMMA BegunFacts ==
    ASSUME IndInv, NEW c \in Clients, BeginUpdate(c)
    PROVE  \E u :
              /\ UpdateTyped(u) /\ u.client = c /\ u.row.id = updates + 1 /\ u.done = FALSE
              /\ u.seen = RowsOf(metadata, "option", u.row.scope)
              /\ u.after = RowsOf(committed, "option", u.row.scope)
              /\ u.shown = RowsOf(memory[c], "option", u.row.scope)
              /\ running' = running \union {u}
<1>1. PICK key \in Keys, scope \in Scopes, value \in Values \union {NULL} :
         /\ MayUpdate(key)
         /\ running' = running \union
               {[client |-> c, row |-> Row(updates + 1, key, scope, value),
                 seen |-> Deleted(metadata, key, scope), done |-> FALSE,
                 after |-> RowsOf(committed, key, scope),
                 shown |-> RowsOf(memory[c], key, scope)]}
  BY DEF BeginUpdate
<1>2. key = "option"
  BY <1>1 DEF MayUpdate, READ_ONLY_KEYS, Keys
<1> DEFINE row == Row(updates + 1, key, scope, value)
           seen == RowsOf(metadata, key, scope)
           after == RowsOf(committed, key, scope)
           shown == RowsOf(memory[c], key, scope)
           u == [client |-> c, row |-> row, seen |-> seen, done |-> FALSE, after |-> after,
                 shown |-> shown]
<1>3. running' = running \union {u}
  BY <1>1 DEF Deleted
<1>4. updates + 1 \in Nat
  BY ConstantFacts DEF IndInv, Typed
<1>5. row \in OptionRow /\ row.id = updates + 1 /\ row.scope = scope
  BY <1>1, <1>2, <1>4 DEF Row, OptionRow
<1>6. \A r \in seen : r.key = "option"
  BY <1>2 DEF RowsOf
<1>. HIDE DEF row, seen, after, shown
<1>7. UpdateTyped(u)
  BY <1>5, <1>6 DEF UpdateTyped
<1>8. /\ u.client = c /\ u.row.id = updates + 1 /\ u.done = FALSE /\ u.row.scope = scope
      /\ u.seen = seen /\ u.after = after /\ u.shown = shown
  BY <1>5
<1>. HIDE DEF u
<1>. QED
  BY <1>2, <1>3, <1>7, <1>8 DEF seen, after, shown

LEMMA BeginUpdateStep ==
    ASSUME IndInv, NEW c \in Clients, BeginUpdate(c)
    PROVE  IndInv'
<1>1. /\ Connected(c) /\ updates < MaxUpdates /\ updates' = updates + 1
      /\ UNCHANGED <<ddl, tables, metadata, client, crashes>>
  BY DEF BeginUpdate
<1>2. updates' \in 0 .. MaxUpdates /\ metadata' \subseteq MetaRow /\ VersionRows' = VersionRows
  BY <1>1, ConstantFacts DEF IndInv, Typed, VersionRows
<1>3. client[c] \in InSession /\ exists = TRUE /\ layout = Upgrades /\ VersionIs(Latest)
  BY <1>1, ConnectedFacts
<1>4. Become(c, client[c])
  BY <1>1 DEF Become, IndInv, Typed
<1>5. \A u \in running' : UpdateTyped(u)
  <2>1. PICK new : UpdateTyped(new) /\ running' = running \union {new}
    BY BegunFacts
  <2>. QED
    BY <2>1 DEF IndInv, Typed
<1>. QED
  BY <1>1, <1>2, <1>3, <1>4, <1>5, SessionStep

(* An update that has committed is the same update.                        *)
LEMMA DoneFacts ==
    ASSUME NEW u, UpdateTyped(u), NEW done, done = [u EXCEPT !.done = TRUE]
    PROVE  /\ UpdateTyped(done) /\ done.done = TRUE
           /\ done.client = u.client /\ done.row = u.row /\ done.seen = u.seen
           /\ done.after = u.after /\ done.shown = u.shown
<1> DEFINE client_ == u.client
           row == u.row
           seen == u.seen
           after == u.after
           shown == u.shown
           undone == u.done
<1>1. u = [client |-> client_, row |-> row, seen |-> seen, done |-> undone, after |-> after,
           shown |-> shown]
  BY DEF UpdateTyped
<1>. HIDE DEF client_, row, seen, after, shown, undone
<1>2. done = [client |-> client_, row |-> row, seen |-> seen, done |-> TRUE, after |-> after,
              shown |-> shown]
  BY <1>1
<1>3. /\ done.client = client_ /\ done.row = row /\ done.seen = seen /\ done.done = TRUE
      /\ done.after = after /\ done.shown = shown
  BY <1>2
<1>4. client_ \in Clients /\ row \in OptionRow /\ \A r \in seen : r.key = "option"
  BY DEF UpdateTyped, client_, row, seen
<1>5. UpdateTyped(done)
  BY <1>2, <1>3, <1>4 DEF UpdateTyped
<1>. QED
  BY <1>3, <1>5 DEF client_, row, seen, after, shown

(* The transaction of an update leaves the version alone.                  *)
LEMMA CommitUpdateStep ==
    ASSUME IndInv, OptInv, NEW c \in Clients, CommitUpdate(c)
    PROVE  IndInv'
<1>1. PICK u \in running :
         /\ u.client = c /\ ~ u.done
         /\ \/ /\ metadata' = (metadata \ u.seen) \union Inserted(u.row)
               /\ running' = (running \ {u}) \union {[u EXCEPT !.done = TRUE]}
            \/ running' = running \ {u} /\ UNCHANGED metadata
  BY DEF CommitUpdate
<1>2. UNCHANGED <<ddl, tables, client, updates, crashes>>
  BY DEF CommitUpdate
<1>3. UpdateTyped(u) /\ Connected(c)
  BY <1>1 DEF IndInv, Typed, OptInv, UpdateHolds
<1>4. u.row \in MetaRow /\ u.row.key = "option" /\ \A r \in u.seen : r.key = "option"
  BY <1>3 DEF UpdateTyped, OptionRow, MetaRow, Keys, NULL
<1>5. metadata' \subseteq MetaRow /\ VersionRows' = VersionRows
  BY <1>1, <1>4 DEF IndInv, Typed, VersionRows, Inserted
<1>6. \A w \in running' : UpdateTyped(w)
  BY <1>1, <1>3, DoneFacts DEF IndInv, Typed
<1>7. client[c] \in InSession /\ exists = TRUE /\ layout = Upgrades /\ VersionIs(Latest)
  BY <1>3, ConnectedFacts
<1>8. Become(c, client[c]) /\ updates' \in 0 .. MaxUpdates
  BY <1>2 DEF Become, IndInv, Typed
<1>. QED
  BY <1>2, <1>5, <1>6, <1>7, <1>8, SessionStep

(* set_* and unset_* change memory only.                                   *)
LEMMA RememberStep ==
    ASSUME IndInv, OptInv, NEW c \in Clients, Remember(c)
    PROVE  IndInv'
<1>1. PICK u \in running : u.client = c /\ running' = running \ {u}
  BY DEF Remember
<1>2. UNCHANGED <<ddl, tables, metadata, client, updates, crashes>>
  BY DEF Remember
<1>3. Connected(c)
  BY <1>1 DEF OptInv, UpdateHolds
<1>4. client[c] \in InSession /\ exists = TRUE /\ layout = Upgrades /\ VersionIs(Latest)
  BY <1>3, ConnectedFacts
<1>5. /\ Become(c, client[c]) /\ updates' \in 0 .. MaxUpdates
      /\ metadata' \subseteq MetaRow /\ VersionRows' = VersionRows
      /\ \A w \in running' : UpdateTyped(w)
  BY <1>1, <1>2 DEF Become, IndInv, Typed, VersionRows
<1>. QED
  BY <1>2, <1>4, <1>5, SessionStep

-----------------------------------------------------------------------------
(* Options.                                                                *)

(* Steps that have nothing to do with options.                             *)
LEMMA OptionsUndisturbed ==
    ASSUME OptInv, UNCHANGED <<options, updates>>,
           \A d \in Clients : Connected(d)' <=> Connected(d),
           \A u \in running : u.client \in Clients,
           \A r \in metadata' : r.key = "option" => r \in metadata
    PROVE  OptInv'
<1>1. UNCHANGED <<memory, running, committed, replaced, outdated, updates>>
  BY DEF options
<1>2. \A r \in committed : r.key = "option"
  BY DEF OptInv, OptionRow
<1>3. metadata' \intersect replaced = {}
  BY <1>2 DEF OptInv
<1>4. ASSUME NEW u \in running
      PROVE  UpdateHolds(u)'
  <2>1. UpdateHolds(u) /\ u.client \in Clients
    BY DEF OptInv
  <2>2. ~ u.done => metadata' \intersect u.after \subseteq u.seen
    BY <1>2, <2>1 DEF UpdateHolds
  <2>3. Connected(u.client)'
    BY <2>1 DEF UpdateHolds
  <2>. QED
    BY <1>1, <2>1, <2>2, <2>3 DEF UpdateHolds
<1>5. \A c \in Clients : ~ Connected(c)' => ~ Connected(c)
  OBVIOUS
<1>. QED
  BY <1>1, <1>3, <1>4, <1>5 DEF OptInv

(* The steps of creating, connecting and upgrading are among them, and a   *)
(* crash is.                                                               *)
LEMMA QuietSteps ==
    ASSUME IndInv, OptInv, NEW c \in Clients,
           CreateSteps(c) \/ (ConnectSteps(c) /\ ~ Load(c)) \/ Crash(c)
    PROVE  OptInv'
<1>1. UNCHANGED <<options, updates>>
  BY DEF CreateSteps, CreateCheck, InitCatalog, PopulateMetadata, PopulateRest,
     ConnectSteps, ReadVersion, Upgrade, UpgradeSchema, UpgradeRows, UpgradeVersion, Crash
<1>2. /\ client[c].pc # "connected"
      /\ \E state : client' = [client EXCEPT ![c] = state] /\ state.pc # "connected"
  <2>1. CASE CreateSteps(c)
    BY <2>1 DEF CreateSteps, CreateCheck, InitCatalog, PopulateMetadata, PopulateRest,
       Become, Off
  <2>2. CASE ReadVersion(c) \/ Upgrade(c) \/ UpgradeVersion(c) \/ Crash(c)
    BY <2>2 DEF ReadVersion, Upgrade, UpgradeVersion, Crash, NextUpgrade, Become, Off
  <2>3. CASE UpgradeSchema(c) \/ UpgradeRows(c)
    <3>1. client[c].pc \in {"upgrade", "upgradeData"}
      BY <2>3 DEF UpgradeSchema, UpgradeRows
    <3>2. client[c] \in Upgrading
      BY <3>1, UpgradeFacts
    <3>3. \A q \in {"upgradeData", "upgradeVersion"} :
             [client[c] EXCEPT !.pc = q].pc # "connected"
      BY <3>2 DEF Upgrading
    <3>4. Off.pc # "connected"
      BY DEF Off
    <3>. QED
      BY <2>3, <3>1, <3>3, <3>4 DEF UpgradeSchema, UpgradeRows, Become
  <2>. QED
    BY <2>1, <2>2, <2>3 DEF ConnectSteps
<1>3. \A d \in Clients : Connected(d)' <=> Connected(d)
  BY <1>2 DEF IndInv, Typed, Connected
<1>4. \A r \in metadata' : r.key = "option" => r \in metadata
  <2>1. \A r \in Populated : r.key = "version"
    BY DEF Populated, Row
  <2>2. \A u : \A r \in SetVersion(u) : r.key = "option" => r \in metadata
    <3>1. \A r \in VersionRows : r \in MetaRow /\ r.key = "version"
      BY DEF IndInv, Typed, VersionRows
    <3>2. \A u : \A r \in VersionRows : [r EXCEPT !.value = u].key = "version"
      BY <3>1 DEF MetaRow
    <3>. QED
      BY <3>2 DEF SetVersion
  <2>3. \/ UNCHANGED metadata \/ metadata' = Populated \/ metadata' = metadata \union Populated
        \/ \E u : metadata' = SetVersion(u)
    BY DEF CreateSteps, CreateCheck, InitCatalog, PopulateMetadata, PopulateRest,
       ConnectSteps, ReadVersion, Upgrade, UpgradeSchema, UpgradeRows, UpgradeVersion, Crash
  <2>. QED
    BY <2>1, <2>2, <2>3
<1>5. \A u \in running : u.client \in Clients
  BY DEF IndInv, Typed, UpdateTyped
<1>. QED
  BY <1>1, <1>3, <1>4, <1>5, OptionsUndisturbed

(* A session starts with rows of the database and without updates.         *)
LEMMA LoadOptions ==
    ASSUME IndInv, OptInv, NEW c \in Clients, Load(c)
    PROVE  OptInv'
<1>1. /\ client[c].pc # "connected" /\ ~ Connected(c)
      /\ UNCHANGED <<metadata, running, committed, replaced, outdated, updates>>
  BY DEF Load, Connected
<1>2. \A u \in running : u.client \in Clients /\ u.client # c
  BY <1>1 DEF IndInv, Typed, UpdateTyped, OptInv, UpdateHolds
<1>3. CASE UNCHANGED memory /\ Become(c, Off)
  <2>1. \A d \in Clients : Connected(d)' <=> Connected(d)
    BY <1>1, <1>3 DEF IndInv, Typed, Connected, Become, Off
  <2>2. UNCHANGED <<options, updates>>
    BY <1>1, <1>3 DEF options
  <2>. QED
    BY <1>1, <1>2, <2>1, <2>2, OptionsUndisturbed
<1>4. CASE \E readonly \in BOOLEAN, m \in Loaded(metadata) :
              /\ Become(c, [pc |-> "connected", readonly |-> readonly])
              /\ memory' = [memory EXCEPT ![c] = m]
  <2>1. PICK readonly \in BOOLEAN, m \in SUBSET metadata :
           /\ Become(c, [pc |-> "connected", readonly |-> readonly])
           /\ memory' = [memory EXCEPT ![c] = m]
    BY <1>4 DEF Loaded
  <2>2. /\ Connected(c)' /\ \A d \in Clients : d # c => (Connected(d)' <=> Connected(d))
    BY <2>1 DEF IndInv, Typed, Connected, Become
  <2>3. /\ memory' \in [Clients -> SUBSET MetaRow] /\ memory'[c] = m
        /\ \A d \in Clients : d # c => memory'[d] = memory[d]
    BY <2>1 DEF IndInv, Typed, OptInv
  <2>4. \A r \in metadata : r.id <= updates
    <3>1. ASSUME NEW r \in metadata, r.key = "version"
          PROVE  r.id <= updates
      <4>1. PICK v : VersionIs(v)
        BY <3>1 DEF IndInv, CatalogHolds, VersionRows
      <4>2. r = Row(0, "version", "global", v)
        BY <3>1, <4>1 DEF VersionIs, VersionRows
      <4>3. r.id = 0
        BY <4>2 DEF Row
      <4>. QED
        BY <4>3, ConstantFacts DEF IndInv, Typed
    <3>2. \A r \in metadata : r.key \in {"version", "option"}
      BY DEF IndInv, Typed, MetaRow, Keys
    <3>. QED
      BY <3>1, <3>2 DEF OptInv
  <2>5. outdated[c] = {}
    BY <1>1 DEF OptInv
  <2>6. \A d \in Clients :
           /\ memory'[d] \intersect outdated'[d] = {}
           /\ \A r \in memory'[d] \union outdated'[d] : r.id <= updates'
           /\ ~ Connected(d)' => memory'[d] = {} /\ outdated'[d] = {}
    <3>1. ASSUME NEW d \in Clients, d # c
          PROVE  /\ memory'[d] \intersect outdated'[d] = {}
                 /\ \A r \in memory'[d] \union outdated'[d] : r.id <= updates'
                 /\ ~ Connected(d)' => memory'[d] = {} /\ outdated'[d] = {}
      <4>1. memory'[d] = memory[d] /\ outdated'[d] = outdated[d] /\ updates' = updates
        BY <1>1, <2>3, <3>1
      <4>. QED
        BY <2>2, <3>1, <4>1 DEF OptInv
    <3>2. /\ memory'[c] \intersect outdated'[c] = {}
          /\ \A r \in memory'[c] \union outdated'[c] : r.id <= updates'
          /\ ~ Connected(c)' => memory'[c] = {} /\ outdated'[c] = {}
      BY <1>1, <2>2, <2>3, <2>4, <2>5
    <3>. QED
      BY <3>1, <3>2
  <2>7. ASSUME NEW u \in running
        PROVE  UpdateHolds(u)'
    <3>1. UpdateHolds(u) /\ u.client \in Clients /\ u.client # c
      BY <1>2 DEF OptInv
    <3>2. Connected(u.client)' /\ memory'[u.client] = memory[u.client]
      BY <2>2, <2>3, <3>1 DEF UpdateHolds
    <3>. QED
      BY <1>1, <3>1, <3>2 DEF UpdateHolds
  <2>. QED
    BY <1>1, <2>3, <2>6, <2>7 DEF OptInv
<1>. QED
  BY <1>3, <1>4 DEF Load

(* A session ends, and its updates with it.                                *)
LEMMA DisconnectOptions ==
    ASSUME IndInv, OptInv, NEW c \in Clients, Disconnect(c)
    PROVE  OptInv'
<1>1. /\ Become(c, Off) /\ UNCHANGED <<metadata, committed, replaced, updates>>
      /\ memory' = [memory EXCEPT ![c] = {}] /\ outdated' = [outdated EXCEPT ![c] = {}]
      /\ running' = {u \in running : u.client # c}
  BY DEF Disconnect
<1>2. /\ ~ Connected(c)' /\ \A d \in Clients : d # c => (Connected(d)' <=> Connected(d))
  BY <1>1 DEF IndInv, Typed, Connected, Become, Off
<1>3. /\ memory' \in [Clients -> SUBSET MetaRow] /\ outdated' \in [Clients -> SUBSET MetaRow]
      /\ memory'[c] = {} /\ outdated'[c] = {}
      /\ \A d \in Clients : d # c => memory'[d] = memory[d] /\ outdated'[d] = outdated[d]
  BY <1>1 DEF OptInv
<1>4. ASSUME NEW d \in Clients
      PROVE  /\ memory'[d] \intersect outdated'[d] = {}
             /\ \A r \in memory'[d] \union outdated'[d] : r.id <= updates'
             /\ ~ Connected(d)' => memory'[d] = {} /\ outdated'[d] = {}
  BY <1>1, <1>2, <1>3 DEF OptInv
<1>5. ASSUME NEW u \in running'
      PROVE  UpdateHolds(u)'
  <2>1. UpdateHolds(u) /\ u \in running /\ u.client # c /\ u.client \in Clients
    BY <1>1 DEF OptInv, IndInv, Typed, UpdateTyped
  <2>2. Connected(u.client)' /\ memory'[u.client] = memory[u.client]
        /\ outdated'[u.client] = outdated[u.client]
    BY <1>2, <1>3, <2>1 DEF UpdateHolds
  <2>. QED
    BY <1>1, <2>1, <2>2 DEF UpdateHolds
<1>. QED
  BY <1>1, <1>3, <1>4, <1>5 DEF OptInv

(* A new update has a row that nobody has seen.                            *)
LEMMA BeginOptions ==
    ASSUME IndInv, OptInv, NEW c \in Clients, BeginUpdate(c)
    PROVE  OptInv'
<1>1. /\ Connected(c) /\ updates' = updates + 1
      /\ UNCHANGED <<client, metadata, memory, committed, replaced, outdated>>
  BY DEF BeginUpdate
<1>2. PICK new : /\ UpdateTyped(new) /\ new.client = c /\ new.row.id = updates + 1
                 /\ new.done = FALSE
                 /\ new.seen = RowsOf(metadata, "option", new.row.scope)
                 /\ new.after = RowsOf(committed, "option", new.row.scope)
                 /\ new.shown = RowsOf(memory[c], "option", new.row.scope)
                 /\ running' = running \union {new}
  BY BegunFacts
<1>3. updates \in Nat /\ updates' \in Nat
  BY <1>1, ConstantFacts DEF IndInv, Typed
<1>4. \A d \in Clients : Connected(d)' <=> Connected(d)
  BY <1>1 DEF Connected
<1>5. /\ \A r \in committed : r \in OptionRow /\ r.id \in Nat /\ r.id <= updates /\ r.id <= updates'
      /\ \A d \in Clients : \A r \in memory[d] \union outdated[d] :
            r \in MetaRow /\ r.id \in Nat /\ r.id <= updates /\ r.id <= updates'
  <2>1. /\ \A r \in committed : r \in OptionRow /\ r.id <= updates
        /\ \A d \in Clients : \A r \in memory[d] \union outdated[d] : r \in MetaRow /\ r.id <= updates
    BY DEF OptInv
  <2>2. (\A r \in OptionRow : r.id \in Nat) /\ (\A r \in MetaRow : r.id \in Nat)
    BY DEF OptionRow, MetaRow
  <2>3. \A n \in Nat : n <= updates => n <= updates'
    BY <1>1, <1>3
  <2>. QED
    BY <2>1, <2>2, <2>3
<1>6. \A u \in running : /\ UpdateHolds(u) /\ UpdateTyped(u) /\ u.client \in Clients
                         /\ u.row.id \in Nat /\ u.row.id <= updates
  BY DEF OptInv, IndInv, Typed, UpdateTyped, UpdateHolds, OptionRow
<1>7. ~ (new.row.id <= updates) /\ new.row.id <= updates'
  BY <1>1, <1>2, <1>3
<1>8. new \notin running /\ \A u \in running : u.row # new.row
  BY <1>6, <1>7
<1>9. UpdateHolds(new)'
  <2>1. new.row \notin committed /\ new.row \notin memory[c] /\ new.row \notin outdated[c]
    BY <1>5, <1>7
  <2>2. new.after \subseteq committed /\ metadata \intersect new.after \subseteq new.seen
    BY <1>2 DEF RowsOf
  <2>3. \A r \in new.shown : r \in memory[c] /\ r.key = "option" /\ r.scope = new.row.scope
    BY <1>2 DEF RowsOf
  <2>4. new.shown \subseteq MetaRow /\ \A r \in new.shown : r.id <= updates'
    BY <1>5, <2>3
  <2>5. \A w \in running' : w.row = new.row => w = new
    BY <1>2, <1>8
  <2>6. \A w \in running' : w.client = new.client => w.row \notin new.shown
    <3>1. \A w \in running : w.client = c => w.row \notin memory[c]
      BY <1>6 DEF UpdateHolds
    <3>. QED
      BY <1>2, <2>1, <2>3, <3>1
  <2>. QED
    BY <1>1, <1>2, <1>4, <1>7, <2>1, <2>2, <2>3, <2>4, <2>5, <2>6 DEF UpdateHolds
<1>10. ASSUME NEW u \in running
       PROVE  UpdateHolds(u)'
  <2>1. UpdateHolds(u) /\ u.client \in Clients
    BY <1>6
  <2>2. \A r \in u.shown : r.id <= updates
    BY <2>1 DEF UpdateHolds
  <2>3. u.row.id <= updates'
    BY <1>1, <1>3, <1>6
  <2>4. \A w \in running' : /\ w.row = u.row => w = u
                            /\ w.client = u.client => w.row \notin u.shown
    BY <1>2, <1>7, <1>8, <2>1, <2>2 DEF UpdateHolds
  <2>5. \A r \in u.shown : r.key = "option" /\ r.scope = u.row.scope /\ r.id <= updates'
    <3>1. \A r \in u.shown : r.id \in Nat
      BY <2>1 DEF UpdateHolds, MetaRow
    <3>. QED
      BY <1>1, <1>3, <2>1, <2>2, <3>1 DEF UpdateHolds
  <2>. QED
    BY <1>1, <1>4, <2>1, <2>3, <2>4, <2>5 DEF UpdateHolds
<1>11. \A d \in Clients :
          /\ memory'[d] \intersect outdated'[d] = {}
          /\ \A r \in memory'[d] \union outdated'[d] : r.id <= updates'
          /\ ~ Connected(d)' => memory'[d] = {} /\ outdated'[d] = {}
  BY <1>1, <1>4, <1>5 DEF OptInv
<1>12. \A r \in committed' : r.id <= updates'
  BY <1>1, <1>5
<1>. QED
  BY <1>1, <1>2, <1>9, <1>10, <1>11, <1>12 DEF OptInv

(* A commit deletes every row that was committed when the update began:    *)
(* what is left of them it has seen, or it fails.                          *)
LEMMA CommitOptions ==
    ASSUME IndInv, OptInv, NEW c \in Clients, CommitUpdate(c)
    PROVE  OptInv'
<1>1. PICK u \in running :
         /\ u.client = c /\ ~ u.done
         /\ \/ /\ metadata' = (metadata \ u.seen) \union Inserted(u.row)
               /\ running' = (running \ {u}) \union {[u EXCEPT !.done = TRUE]}
               /\ committed' = committed \union {u.row}
               /\ replaced' = replaced \union u.after
            \/ running' = running \ {u} /\ UNCHANGED <<metadata, committed, replaced>>
  BY DEF CommitUpdate
<1>2. UNCHANGED <<client, memory, outdated, updates>>
  BY DEF CommitUpdate
<1>3. \A d \in Clients : Connected(d)' <=> Connected(d)
  BY <1>2 DEF Connected
<1>4. \A w \in running : UpdateHolds(w) /\ UpdateTyped(w) /\ w.client \in Clients
  BY DEF OptInv, IndInv, Typed, UpdateTyped
<1>5. CASE running' = running \ {u} /\ UNCHANGED <<metadata, committed, replaced>>
  <2>1. ASSUME NEW w \in running'
        PROVE  UpdateHolds(w)'
    BY <1>2, <1>3, <1>4, <1>5 DEF UpdateHolds
  <2>2. \A d \in Clients :
           /\ memory'[d] \intersect outdated'[d] = {}
           /\ \A r \in memory'[d] \union outdated'[d] : r.id <= updates'
           /\ ~ Connected(d)' => memory'[d] = {} /\ outdated'[d] = {}
    BY <1>2, <1>3 DEF OptInv
  <2>. QED
    BY <1>2, <1>5, <2>1, <2>2 DEF OptInv
<1>6. CASE /\ metadata' = (metadata \ u.seen) \union Inserted(u.row)
           /\ running' = (running \ {u}) \union {[u EXCEPT !.done = TRUE]}
           /\ committed' = committed \union {u.row}
           /\ replaced' = replaced \union u.after
  <2>1. PICK done : done = [u EXCEPT !.done = TRUE]
    OBVIOUS
  <2>2. /\ UpdateTyped(done) /\ done.done = TRUE
        /\ done.client = u.client /\ done.row = u.row /\ done.seen = u.seen
        /\ done.after = u.after /\ done.shown = u.shown
    BY <1>4, <2>1, DoneFacts
  <2>3. running' = (running \ {u}) \union {done}
    BY <1>6, <2>1
  <2>4. /\ UpdateHolds(u) /\ u.row \notin committed /\ metadata \intersect u.after \subseteq u.seen
        /\ u.after \subseteq committed /\ u.row.id <= updates /\ u.row \in OptionRow
    BY <1>1, <1>4 DEF UpdateHolds, UpdateTyped
  <2>5. Inserted(u.row) \subseteq {u.row}
    BY DEF Inserted
  <2>6. /\ committed' \subseteq OptionRow /\ replaced' \subseteq committed'
        /\ \A r \in committed' : r.id <= updates'
        /\ \A r \in metadata' : r.key = "option" => r \in committed'
    BY <1>2, <1>6, <2>4, <2>5 DEF OptInv
  <2>7. metadata' \intersect replaced' = {}
    <3>1. u.row \notin replaced /\ u.row \notin u.after /\ metadata \intersect replaced = {}
      BY <2>4 DEF OptInv
    <3>. QED
      BY <1>6, <2>4, <2>5, <3>1
  <2>8. ASSUME NEW w \in running, w # u
        PROVE  UpdateHolds(w)'
    <3>1. UpdateHolds(w) /\ w.row # u.row
      BY <1>4, <2>8 DEF UpdateHolds
    <3>2. w.after \subseteq committed'
      BY <1>6, <3>1 DEF UpdateHolds
    <3>3. ~ w.done => w.row \notin committed' /\ metadata' \intersect w.after \subseteq w.seen
      BY <1>6, <2>4, <2>5, <3>1 DEF UpdateHolds
    <3>4. \A x \in running' : /\ x.row = w.row => x = w
                              /\ x.client = w.client => x.row \notin w.shown
      BY <2>2, <2>3, <2>8, <3>1 DEF UpdateHolds
    <3>5. Connected(w.client)'
      BY <1>3, <1>4, <3>1 DEF UpdateHolds
    <3>. QED
      BY <1>2, <3>1, <3>2, <3>3, <3>4, <3>5 DEF UpdateHolds
  <2>9. UpdateHolds(done)'
    <3>1. done.after \subseteq committed'
      BY <1>6, <2>2, <2>4
    <3>2. \A x \in running' : /\ x.row = done.row => x = done
                              /\ x.client = done.client => x.row \notin done.shown
      <4>1. \A x \in running : /\ x.row = u.row => x = u
                               /\ x.client = u.client => x.row \notin u.shown
        BY <2>4 DEF UpdateHolds
      <4>. QED
        BY <2>2, <2>3, <4>1
    <3>3. Connected(done.client)'
      BY <1>3, <1>4, <2>2, <2>4 DEF UpdateHolds
    <3>. QED
      BY <1>2, <2>2, <2>4, <3>1, <3>2, <3>3 DEF UpdateHolds
  <2>10. \A d \in Clients :
            /\ memory'[d] \intersect outdated'[d] = {}
            /\ \A r \in memory'[d] \union outdated'[d] : r.id <= updates'
            /\ ~ Connected(d)' => memory'[d] = {} /\ outdated'[d] = {}
    BY <1>2, <1>3 DEF OptInv
  <2>11. \A w \in running' : UpdateHolds(w)'
    BY <2>3, <2>8, <2>9
  <2>. QED
    BY <1>2, <2>6, <2>7, <2>10, <2>11 DEF OptInv
<1>. QED
  BY <1>1, <1>5, <1>6

(* Memory forgets what it showed when the update began.                    *)
LEMMA RememberOptions ==
    ASSUME IndInv, OptInv, NEW c \in Clients, Remember(c)
    PROVE  OptInv'
<1>1. PICK u \in running :
         /\ u.client = c
         /\ memory' = [memory EXCEPT ![c] = Remembered(memory[c], u.row)]
         /\ outdated' = [outdated EXCEPT ![c] = outdated[c] \union u.shown]
         /\ running' = running \ {u}
  BY DEF Remember
<1>2. UNCHANGED <<client, metadata, committed, replaced, updates>>
  BY DEF Remember
<1>3. \A d \in Clients : Connected(d)' <=> Connected(d)
  BY <1>2 DEF Connected
<1>4. \A w \in running : UpdateHolds(w) /\ UpdateTyped(w) /\ w.client \in Clients
  BY DEF OptInv, IndInv, Typed, UpdateTyped
<1>5. /\ UpdateHolds(u) /\ u.row \in OptionRow /\ u.row \in MetaRow /\ u.row.key = "option"
      /\ u.row.id <= updates
  BY <1>4 DEF UpdateTyped, OptionRow, MetaRow, Keys, NULL, UpdateHolds
<1> DEFINE new == Remembered(memory[c], u.row)
<1>6. /\ new \subseteq memory[c] \union {u.row}
      /\ \A r \in new : r = u.row \/ ~ (r.key = "option" /\ r.scope = u.row.scope)
  BY <1>5 DEF Remembered, Inserted, RowsOf
<1>. HIDE DEF new
<1>7. u.shown \subseteq MetaRow
  BY <1>5 DEF UpdateHolds
<1>8. /\ memory' \in [Clients -> SUBSET MetaRow] /\ outdated' \in [Clients -> SUBSET MetaRow]
      /\ memory'[c] = new /\ outdated'[c] = outdated[c] \union u.shown
      /\ \A d \in Clients : d # c => memory'[d] = memory[d] /\ outdated'[d] = outdated[d]
  <2>1. memory \in [Clients -> SUBSET MetaRow] /\ outdated \in [Clients -> SUBSET MetaRow]
    BY DEF OptInv
  <2>2. new \subseteq MetaRow /\ (outdated[c] \union u.shown) \subseteq MetaRow
    BY <1>5, <1>6, <1>7, <2>1
  <2>. QED
    BY <1>1, <2>1, <2>2 DEF new
<1>9. /\ new \intersect (outdated[c] \union u.shown) = {}
      /\ \A r \in new \union (outdated[c] \union u.shown) : r.id <= updates
  <2>1. u.row \notin outdated[c] /\ u.row \notin u.shown
    BY <1>1, <1>5 DEF UpdateHolds
  <2>2. memory[c] \intersect outdated[c] = {} /\ \A r \in memory[c] \union outdated[c] : r.id <= updates
    BY DEF OptInv
  <2>3. \A r \in u.shown : r.key = "option" /\ r.scope = u.row.scope /\ r.id <= updates
    BY <1>5 DEF UpdateHolds
  <2>. QED
    BY <1>5, <1>6, <2>1, <2>2, <2>3
<1>10. ASSUME NEW d \in Clients
       PROVE  /\ memory'[d] \intersect outdated'[d] = {}
              /\ \A r \in memory'[d] \union outdated'[d] : r.id <= updates'
              /\ ~ Connected(d)' => memory'[d] = {} /\ outdated'[d] = {}
  <2>1. CASE d = c
    <3>1. Connected(c)'
      BY <1>1, <1>3, <1>5 DEF UpdateHolds
    <3>. QED
      BY <1>2, <1>8, <1>9, <2>1, <3>1
  <2>2. CASE d # c
    <3>1. memory'[d] = memory[d] /\ outdated'[d] = outdated[d]
      BY <1>8, <2>2
    <3>. QED
      BY <1>2, <1>3, <3>1 DEF OptInv
  <2>. QED
    BY <2>1, <2>2
<1>11. ASSUME NEW w \in running'
       PROVE  UpdateHolds(w)'
  <2>1. w \in running /\ w # u /\ UpdateHolds(w) /\ w.client \in Clients
    BY <1>1, <1>4
  <2>2. w.row \notin memory'[w.client] /\ w.row \notin outdated'[w.client]
    <3>1. CASE w.client = c
      <4>1. w.row # u.row /\ w.row \notin u.shown /\ w.row \notin memory[c] /\ w.row \notin outdated[c]
        BY <1>1, <1>5, <2>1, <3>1 DEF UpdateHolds
      <4>. QED
        BY <1>6, <1>8, <3>1, <4>1
    <3>2. CASE w.client # c
      BY <1>8, <2>1, <3>2 DEF UpdateHolds
    <3>. QED
      BY <3>1, <3>2
  <2>3. \A x \in running' : x \in running
    BY <1>1
  <2>4. Connected(w.client)'
    BY <1>3, <2>1 DEF UpdateHolds
  <2>. QED
    BY <1>2, <2>1, <2>2, <2>3, <2>4 DEF UpdateHolds
<1>12. \A w \in running' : UpdateHolds(w)'
  BY <1>11
<1>. QED
  BY <1>2, <1>8, <1>10, <1>12 DEF OptInv

(* There are no options at first.                                          *)
LEMMA InitOptions == Init => OptInv
<1> SUFFICES ASSUME Init PROVE OptInv
  OBVIOUS
<1>1. /\ memory = [c \in Clients |-> {}] /\ outdated = [c \in Clients |-> {}]
      /\ running = {} /\ committed = {} /\ replaced = {}
  BY DEF Init
<1>2. \A r \in metadata : r.key = "version"
  BY DEF Init, Empty, Legacy, Row
<1>. QED
  BY <1>1, <1>2 DEF OptInv

(* Every step preserves the invariants.                                    *)
LEMMA NextPreserves == IndInv /\ OptInv /\ [Next]_vars => (IndInv /\ OptInv)'
<1> SUFFICES ASSUME IndInv, OptInv, [Next]_vars PROVE IndInv' /\ OptInv'
  OBVIOUS
<1>1. CASE Next
  <2>1. PICK c \in Clients :
           \/ CreateSteps(c) \/ ConnectSteps(c) \/ Disconnect(c) \/ Crash(c)
           \/ BeginUpdate(c) \/ CommitUpdate(c) \/ Remember(c)
    BY <1>1 DEF Next
  <2>2. CASE CreateSteps(c)
    BY <2>2, CreateCheckStep, InitCatalogStep, PopulateMetadataStep, PopulateRestStep,
       QuietSteps DEF CreateSteps
  <2>3. CASE ConnectSteps(c)
    <3>1. IndInv'
      BY <2>3, ReadVersionStep, AtomicUpgradeStep, UpgradeSchemaStep, UpgradeRowsStep,
         UpgradeVersionStep, LoadStep DEF ConnectSteps
    <3>2. OptInv'
      BY <2>3, QuietSteps, LoadOptions
    <3>. QED
      BY <3>1, <3>2
  <2>4. CASE Disconnect(c) \/ Crash(c)
    BY <2>4, LeaveStep, QuietSteps, DisconnectOptions
  <2>5. CASE BeginUpdate(c) \/ CommitUpdate(c) \/ Remember(c)
    BY <2>5, BeginUpdateStep, CommitUpdateStep, RememberStep, BeginOptions, CommitOptions,
       RememberOptions
  <2>. QED
    BY <2>1, <2>2, <2>3, <2>4, <2>5
<1>2. CASE UNCHANGED vars
  <2>1. IndInv'
    BY <1>2 DEF vars, tables, options, IndInv, Typed, CatalogHolds, OneUpgrade, DataHolds,
       ClientHolds, VersionIs, VersionRows, InUpgrade, UpgradedBy, NotYet, IsLegacy
  <2>2. UNCHANGED <<options, updates>> /\ \A d \in Clients : Connected(d)' <=> Connected(d)
    BY <1>2 DEF vars, Connected
  <2>3. \A u \in running : u.client \in Clients
    BY DEF IndInv, Typed, UpdateTyped
  <2>. QED
    BY <1>2, <2>1, <2>2, <2>3, OptionsUndisturbed DEF vars
<1>. QED
  BY <1>1, <1>2

-----------------------------------------------------------------------------
(* The theorems.                                                           *)

(* The invariant holds in every behaviour, whoever creates, upgrades,      *)
(* crashes and sets options when.                                          *)
THEOREM Invariance == Spec => [](IndInv /\ OptInv)
BY InitEstablishes, InitOptions, NextPreserves, PTL DEF Spec

(* At most one row for the version; options in known scopes; a client that *)
(* has no session has no options and no updates (TypeOK).                  *)
THEOREM TypeCorrect == Spec => []TypeOK
<1>1. IndInv /\ OptInv => TypeOK
  <2> SUFFICES ASSUME IndInv, OptInv PROVE TypeOK
    OBVIOUS
  <2>1. Cardinality(VersionRows) <= 1
    <3>1. CASE VersionRows = {}
      BY <3>1, FS_EmptySet
    <3>2. ASSUME NEW v \in 0 .. Latest + 1, VersionIs(v)
          PROVE  Cardinality(VersionRows) <= 1
      BY <3>2, FS_Singleton DEF VersionIs
    <3>. QED
      BY <3>1, <3>2 DEF IndInv, CatalogHolds
  <2>2. \A r \in metadata : r.key \in Keys /\ r.scope \in Scopes
    BY DEF IndInv, Typed, MetaRow
  <2>3. /\ \A c \in Clients : memory[c] # {} => Connected(c)
        /\ \A u \in running : Connected(u.client)
    BY DEF OptInv, UpdateHolds
  <2>. QED
    BY <2>1, <2>2, <2>3 DEF TypeOK, IndInv, Typed, Partitions
<1>. QED
  BY <1>1, Invariance, PTL

(* The data of an old catalog is upgraded exactly once, whoever upgrades   *)
(* it and whatever crashes, with and without transactional DDL.            *)
THEOREM UpgradedOnce == Spec => []DataUpgradedOnce
<1>1. IndInv => DataUpgradedOnce
  <2> SUFFICES ASSUME IndInv, Version \in Nat, IsLegacy
               PROVE  /\ Version >= V0_2 => partition = TheColumn
                      /\ Version < V0_2 /\ ddl => partition = PartitionIndex
                      /\ Version >= V0_4 => schema_versions = FirstVersions
    BY DEF DataUpgradedOnce
  <2>1. PICK v \in 0 .. Latest + 1 : VersionIs(v)
    BY DEF IndInv, CatalogHolds
  <2>2. Version = v
    BY <2>1, VersionFacts
  <2>. QED
    BY <2>1, <2>2 DEF IndInv, DataHolds
<1>. QED
  BY <1>1, Invariance, PTL

(* Where DDL is transactional no interrupted create or upgrade leaves the  *)
(* tables in another layout than the version says, or without a snapshot.  *)
THEOREM AllOrNothing == Spec => []NothingHalfDone
<1>1. IndInv => NothingHalfDone
  <2> SUFFICES ASSUME IndInv, ddl, exists
               PROVE  /\ Version \in Nat
                      /\ layout = {u \in Upgrades : u <= Version}
                      /\ snapshots # <<>>
    BY DEF NothingHalfDone
  <2>1. PICK v \in 0 .. Latest + 1 : VersionIs(v) /\ layout = UpTo(v) /\ DOMAIN snapshots # {}
    BY DEF IndInv, CatalogHolds
  <2>2. Version = v /\ v \in Nat
    BY <2>1, VersionFacts, ConstantFacts
  <2>3. snapshots # <<>>
    BY <2>1
  <2>. QED
    BY <2>1, <2>2, <2>3 DEF UpTo
<1>. QED
  BY <1>1, Invariance, PTL

(* No session ever works on a catalog that is not in the latest format.    *)
THEOREM LatestSessions == Spec => []SessionsAreLatest
<1>1. IndInv => SessionsAreLatest
  BY ConnectedFacts, VersionFacts DEF SessionsAreLatest
<1>. QED
  BY <1>1, Invariance, PTL

(* Updates of options take effect in their order, in the database and in   *)
(* the memory of every session, whatever updates overlap (OptionsInOrder). *)
THEOREM OptionsStayInOrder == Spec => []OptionsInOrder
<1>1. OptInv => OptionsInOrder
  BY DEF OptInv, OptionsInOrder
<1>. QED
  BY <1>1, Invariance, PTL
=============================================================================
