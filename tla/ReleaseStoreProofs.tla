------------------------- MODULE ReleaseStoreProofs -------------------------
(***************************************************************************)
(* What ReleaseStore promises, proved for every set of apps and images and *)
(* every number of release ids.                                            *)
(*                                                                         *)
(* Each invariant is inductive together with the type invariant.  A call   *)
(* of the store rewrites one row (MarkBuilt, MarkFailed, CreateRelease) or *)
(* the rows of one app (DeleteApp, SetLive); the lemmas below say which,   *)
(* row by row, so that no later proof opens an EXCEPT.                     *)
(***************************************************************************)
EXTENDS ReleaseStore, TLAPS

\* A row of the table is a record of Row, and no row is NoRow.
LEMMA RowAt ==
  ASSUME TypeOK, NEW i \in Ids, Exists(i)
  PROVE  /\ rows[i] \in Row
         /\ rows[i].app \in Apps /\ rows[i].version \in Ids
         /\ rows[i].image \in Images \cup {NoImage} /\ rows[i].status \in Statuses
BY DEF TypeOK, Exists, Row

\* What CreateRelease leaves in the table: one new row, where there was none.
LEMMA CreateReleaseRows ==
  ASSUME TypeOK, NEW a \in Apps, NEW image \in Images \cup {NoImage}, NEW i \in Ids,
         CreateRelease(a, image, i)
  PROVE  /\ ~Exists(i)
         /\ rows' \in [Ids -> Row \cup {NoRow}]
         /\ Exists(i)'
         /\ rows'[i] \in Row
         /\ rows'[i].app = a /\ rows'[i].image = image
         /\ rows'[i].status = IF image = NoImage THEN "building" ELSE "starting"
         /\ IsNextVersion(a, rows'[i].version)
         /\ \A j \in Ids \ {i} : rows'[j] = rows[j]
<1> DEFINE new(v) == [app |-> a, version |-> v, image |-> image,
                      status |-> IF image = NoImage THEN "building" ELSE "starting"]
<1>1. PICK v \in Ids : IsNextVersion(a, v) /\ rows' = [rows EXCEPT ![i] = new(v)]
  BY DEF CreateRelease
<1>2. new(v) \in Row
  BY DEF Row, Statuses
<1>3. ~Exists(i)
  BY DEF CreateRelease, IsNextId, Ids
<1>4. rows'[i] = new(v) /\ \A j \in Ids \ {i} : rows'[j] = rows[j]
  BY <1>1 DEF TypeOK
<1>5. rows' \in [Ids -> Row \cup {NoRow}]
  BY <1>1, <1>2 DEF TypeOK
<1>6. Exists(i)'
  BY <1>2, <1>4, NoRowAssumption DEF Exists
<1> HIDE DEF new
<1>7. /\ new(v).app = a /\ new(v).image = image /\ new(v).version = v
      /\ new(v).status = IF image = NoImage THEN "building" ELSE "starting"
  BY DEF new
<1>. QED
  BY <1>1, <1>2, <1>3, <1>4, <1>5, <1>6, <1>7

\* MarkBuilt: a building row gets its image and starts.
LEMMA MarkBuiltRows ==
  ASSUME TypeOK, NEW i \in Ids, NEW image \in Images \cup {NoImage}, MarkBuilt(i, image)
  PROVE  /\ Exists(i) /\ rows[i].status = "building" /\ image # NoImage
         /\ rows' \in [Ids -> Row \cup {NoRow}]
         /\ Exists(i)'
         /\ rows'[i].app = rows[i].app /\ rows'[i].version = rows[i].version
         /\ rows'[i].image = image /\ rows'[i].status = "starting"
         /\ \A j \in Ids \ {i} : rows'[j] = rows[j]
<1>1. Exists(i) /\ rows[i].status = "building" /\ image # NoImage
  BY DEF MarkBuilt, HasStatus
<1>2. rows[i] \in Row
  BY <1>1, RowAt
<1>3. /\ Built(rows[i], image) \in Row
      /\ Built(rows[i], image).app = rows[i].app /\ Built(rows[i], image).version = rows[i].version
      /\ Built(rows[i], image).image = image /\ Built(rows[i], image).status = "starting"
  BY <1>2 DEF Built, Row, Statuses
<1>4. rows' = [rows EXCEPT ![i] = Built(rows[i], image)]
  BY DEF MarkBuilt
<1>5. /\ rows'[i] = Built(rows[i], image) /\ rows' \in [Ids -> Row \cup {NoRow}]
      /\ \A j \in Ids \ {i} : rows'[j] = rows[j]
  BY <1>3, <1>4 DEF TypeOK
<1>6. Exists(i)'
  BY <1>3, <1>5, NoRowAssumption DEF Exists
<1>. QED
  BY <1>1, <1>3, <1>5, <1>6

\* MarkFailed: an open row ends.
LEMMA MarkFailedRows ==
  ASSUME TypeOK, NEW i \in Ids, MarkFailed(i)
  PROVE  /\ Exists(i) /\ rows[i].status \in {"building", "starting"}
         /\ rows' \in [Ids -> Row \cup {NoRow}]
         /\ Exists(i)'
         /\ rows'[i].app = rows[i].app /\ rows'[i].version = rows[i].version
         /\ rows'[i].image = rows[i].image /\ rows'[i].status = "failed"
         /\ \A j \in Ids \ {i} : rows'[j] = rows[j]
<1> DEFINE new == [rows[i] EXCEPT !.status = "failed"]
<1>1. Exists(i) /\ rows[i].status \in {"building", "starting"}
  BY DEF MarkFailed, HasStatus
<1>2. rows[i] \in Row
  BY <1>1, RowAt
<1>3. /\ new \in Row
      /\ new.app = rows[i].app /\ new.version = rows[i].version
      /\ new.image = rows[i].image /\ new.status = "failed"
  BY <1>2 DEF Row, Statuses
<1>4. rows' = [rows EXCEPT ![i] = new]
  BY DEF MarkFailed
<1> HIDE DEF new
<1>5. /\ rows'[i] = new /\ rows' \in [Ids -> Row \cup {NoRow}]
      /\ \A j \in Ids \ {i} : rows'[j] = rows[j]
  BY <1>3, <1>4 DEF TypeOK
<1>6. Exists(i)'
  BY <1>3, <1>5, NoRowAssumption DEF Exists
<1>. QED
  BY <1>1, <1>3, <1>5, <1>6

\* SetLive: the release goes live, the app's live one is superseded, and every
\* other row stays as it is.
LEMMA SetLiveRows ==
  ASSUME TypeOK, NEW a \in Apps, NEW i \in Ids, SetLive(a, i)
  PROVE  /\ Exists(i) /\ rows[i].app = a /\ rows[i].status = "starting"
         /\ rows' \in [Ids -> Row \cup {NoRow}]
         /\ \A j \in Ids : Exists(j)' <=> Exists(j)
         /\ \A j \in Ids : Exists(j) =>
              /\ rows'[j].app = rows[j].app /\ rows'[j].version = rows[j].version
              /\ rows'[j].image = rows[j].image
              /\ rows'[j].status =
                   IF j = i THEN "live"
                   ELSE IF rows[j].app = a /\ rows[j].status = "live" THEN "superseded"
                   ELSE rows[j].status
<1>1. Exists(i) /\ rows[i].app = a /\ rows[i].status = "starting"
  BY DEF SetLive, HasStatus
<1>2. rows' = LiveAndSuperseded(a, i)
  BY DEF SetLive
<1>3. ASSUME NEW j \in Ids, Exists(j)
      PROVE  /\ rows'[j] \in Row
             /\ rows'[j].app = rows[j].app /\ rows'[j].version = rows[j].version
             /\ rows'[j].image = rows[j].image
             /\ rows'[j].status =
                  IF j = i THEN "live"
                  ELSE IF rows[j].app = a /\ rows[j].status = "live" THEN "superseded"
                  ELSE rows[j].status
  <2>1. rows[j] \in Row
    BY <1>3, RowAt
  <2>2. CASE j = i
    <3>1. rows'[j] = [rows[j] EXCEPT !.status = "live"]
      BY <1>2, <2>2 DEF LiveAndSuperseded
    <3>. QED
      BY <2>1, <2>2, <3>1 DEF Row, Statuses
  <2>3. CASE j # i /\ rows[j].app = a /\ rows[j].status = "live"
    <3>1. rows'[j] = [rows[j] EXCEPT !.status = "superseded"]
      BY <1>2, <1>3, <2>3 DEF LiveAndSuperseded, RowsOf
    <3>. QED
      BY <2>1, <2>3, <3>1 DEF Row, Statuses
  <2>4. CASE j # i /\ ~(rows[j].app = a /\ rows[j].status = "live")
    <3>1. rows'[j] = rows[j]
      BY <1>2, <2>4 DEF LiveAndSuperseded, RowsOf
    <3>. QED
      BY <2>1, <2>4, <3>1
  <2>. QED
    BY <2>2, <2>3, <2>4
<1>4. ASSUME NEW j \in Ids, ~Exists(j)
      PROVE  rows'[j] = NoRow
  <2>1. j # i /\ j \notin RowsOf(a)
    BY <1>1, <1>4 DEF RowsOf
  <2>. QED
    BY <1>2, <1>4, <2>1 DEF LiveAndSuperseded, Exists
<1>5. rows' \in [Ids -> Row \cup {NoRow}]
  <2>1. DOMAIN rows' = Ids /\ rows' = [j \in Ids |-> rows'[j]]
    BY <1>2 DEF LiveAndSuperseded
  <2>2. \A j \in Ids : rows'[j] \in Row \cup {NoRow}
    BY <1>3, <1>4
  <2>. QED
    BY <2>1, <2>2
<1>6. \A j \in Ids : Exists(j)' <=> Exists(j)
  BY <1>3, <1>4, NoRowAssumption DEF Exists
<1>. QED
  BY <1>1, <1>3, <1>5, <1>6

\* DeleteApp: the rows of the app go, the others stay as they are.
LEMMA DeleteAppRows ==
  ASSUME TypeOK, NEW a \in Apps, DeleteApp(a)
  PROVE  /\ rows' \in [Ids -> Row \cup {NoRow}]
         /\ \A j \in Ids : Exists(j)' <=> Exists(j) /\ rows[j].app # a
         /\ \A j \in Ids : Exists(j)' => rows'[j] = rows[j]
BY DEF TypeOK, DeleteApp, RowsOf, Exists

-----------------------------------------------------------------------------
(* The invariants *)

LEMMA TypeStep == TypeOK /\ [Next]_storeVars => TypeOK'
<1> SUFFICES ASSUME TypeOK, [Next]_storeVars
             PROVE  TypeOK'
  OBVIOUS
<1>1. ASSUME NEW a \in Apps, CreateApp(a)
      PROVE  TypeOK'
  BY <1>1 DEF TypeOK, CreateApp
<1>2. ASSUME NEW a \in Apps, DeleteApp(a)
      PROVE  TypeOK'
  BY <1>2, DeleteAppRows DEF TypeOK, DeleteApp
<1>3. ASSUME NEW a \in Apps, NEW image \in Images \cup {NoImage}, NEW i \in Ids,
             CreateRelease(a, image, i)
      PROVE  TypeOK'
  BY <1>3, CreateReleaseRows DEF TypeOK, CreateRelease
<1>4. ASSUME NEW i \in Ids, NEW image \in Images \cup {NoImage}, MarkBuilt(i, image)
      PROVE  TypeOK'
  BY <1>4, MarkBuiltRows DEF TypeOK, MarkBuilt
<1>5. ASSUME NEW i \in Ids, MarkFailed(i)
      PROVE  TypeOK'
  BY <1>5, MarkFailedRows DEF TypeOK, MarkFailed
<1>6. ASSUME NEW a \in Apps, NEW i \in Ids, SetLive(a, i)
      PROVE  TypeOK'
  BY <1>6, SetLiveRows DEF TypeOK, SetLive
<1>7. CASE UNCHANGED storeVars
  BY <1>7 DEF TypeOK, storeVars
<1>. QED
  BY <1>1, <1>2, <1>3, <1>4, <1>5, <1>6, <1>7 DEF Next

\* The tables keep their types.
THEOREM TypeCorrect == Spec => []TypeOK
<1>1. Init => TypeOK
  BY DEF Init, TypeOK, NoLive
<1>. QED
  BY <1>1, TypeStep, PTL DEF Spec

LEMMA LivePointerStep ==
  TypeOK /\ TypeOK' /\ LivePointerAgrees /\ [Next]_storeVars => LivePointerAgrees'
<1> SUFFICES ASSUME TypeOK, TypeOK', LivePointerAgrees, [Next]_storeVars
             PROVE  LivePointerAgrees'
  OBVIOUS
<1> DEFINE Live(a, i) == Exists(i) /\ rows[i].app = a /\ rows[i].status = "live"
<1> DEFINE LiveRows(a) == {i \in RowsOf(a) : rows[i].status = "live"}
<1>n. \A i \in Ids : i # NoLive
  BY DEF Ids, NoLive
<1>0. ASSUME NEW a \in Apps, NEW i \in Ids
      PROVE  Live(a, i) <=> liveRelease[a] = i
  <2>1. LiveRows(a) = {liveRelease[a]} \ {NoLive}
    BY DEF LivePointerAgrees
  <2>2. i \in LiveRows(a) <=> Live(a, i)
    BY DEF RowsOf
  <2>. QED
    BY <1>n, <2>1, <2>2
<1> SUFFICES ASSUME NEW b \in Apps, NEW j \in Ids
             PROVE  Live(b, j)' <=> (liveRelease[b] = j)'
  <2>1. ASSUME NEW a \in Apps
        PROVE  LiveRows(a)' = {liveRelease'[a]} \ {NoLive}
    <3>1. liveRelease'[a] \in Ids \cup {NoLive}
      BY DEF TypeOK
    <3>2. ASSUME NEW i \in Ids
          PROVE  i \in LiveRows(a)' <=> liveRelease'[a] = i
      BY DEF RowsOf
    <3>3. \A i \in LiveRows(a)' : i \in Ids
      BY DEF RowsOf
    <3> HIDE DEF LiveRows
    <3>4. ASSUME NEW i \in LiveRows(a)'
          PROVE  i \in {liveRelease'[a]} \ {NoLive}
      BY <1>n, <3>2, <3>3, <3>4
    <3>5. ASSUME NEW i \in {liveRelease'[a]} \ {NoLive}
          PROVE  i \in LiveRows(a)'
      BY <3>1, <3>2, <3>5
    <3>. QED
      BY <3>4, <3>5
  <2>. QED
    BY <2>1 DEF LivePointerAgrees
<1>a. liveRelease \in [Apps -> Ids \cup {NoLive}]
  BY DEF TypeOK
<1>b. j # NoLive
  BY DEF Ids, NoLive
<1>1. ASSUME NEW a \in Apps, CreateApp(a)
      PROVE  Live(b, j)' <=> (liveRelease[b] = j)'
  BY <1>0, <1>1 DEF CreateApp, Exists
<1>2. ASSUME NEW a \in Apps, DeleteApp(a)
      PROVE  Live(b, j)' <=> (liveRelease[b] = j)'
  <2>1. liveRelease' = [liveRelease EXCEPT ![a] = NoLive]
    BY <1>2 DEF DeleteApp
  <2>2. CASE b = a
    <3>1. liveRelease'[b] = NoLive
      BY <1>a, <2>1, <2>2
    <3>2. ~Live(b, j)'
      BY <1>2, <2>2, DeleteAppRows
    <3>. QED
      BY <1>b, <3>1, <3>2
  <2>3. CASE b # a
    <3>1. liveRelease'[b] = liveRelease[b]
      BY <1>a, <2>1, <2>3
    <3>2. Live(b, j)' <=> Live(b, j)
      <4>1. Exists(j)' => rows'[j] = rows[j]
        BY <1>2, DeleteAppRows
      <4>2. Exists(j)' <=> Exists(j) /\ rows[j].app # a
        BY <1>2, DeleteAppRows
      <4>. QED
        BY <2>3, <4>1, <4>2
    <3>. QED
      BY <1>0, <3>1, <3>2
  <2>. QED
    BY <2>2, <2>3
<1>3. ASSUME NEW a \in Apps, NEW image \in Images \cup {NoImage}, NEW i \in Ids,
             CreateRelease(a, image, i)
      PROVE  Live(b, j)' <=> (liveRelease[b] = j)'
  <2>1. liveRelease' = liveRelease
    BY <1>3 DEF CreateRelease
  <2>2. CASE j = i
    BY <1>0, <1>3, <2>1, <2>2, CreateReleaseRows
  <2>3. CASE j # i
    BY <1>0, <1>3, <2>1, <2>3, CreateReleaseRows DEF Exists
  <2>. QED
    BY <2>2, <2>3
<1>4. ASSUME NEW i \in Ids, NEW image \in Images \cup {NoImage}, MarkBuilt(i, image)
      PROVE  Live(b, j)' <=> (liveRelease[b] = j)'
  <2>1. liveRelease' = liveRelease
    BY <1>4 DEF MarkBuilt
  <2>2. CASE j = i
    BY <1>0, <1>4, <2>1, <2>2, MarkBuiltRows
  <2>3. CASE j # i
    BY <1>0, <1>4, <2>1, <2>3, MarkBuiltRows DEF Exists
  <2>. QED
    BY <2>2, <2>3
<1>5. ASSUME NEW i \in Ids, MarkFailed(i)
      PROVE  Live(b, j)' <=> (liveRelease[b] = j)'
  <2>1. liveRelease' = liveRelease
    BY <1>5 DEF MarkFailed
  <2>2. CASE j = i
    BY <1>0, <1>5, <2>1, <2>2, MarkFailedRows
  <2>3. CASE j # i
    BY <1>0, <1>5, <2>1, <2>3, MarkFailedRows DEF Exists
  <2>. QED
    BY <2>2, <2>3
<1>6. ASSUME NEW a \in Apps, NEW i \in Ids, SetLive(a, i)
      PROVE  Live(b, j)' <=> (liveRelease[b] = j)'
  <2>1. liveRelease' = [liveRelease EXCEPT ![a] = i]
    BY <1>6 DEF SetLive
  <2>. QED
    BY <1>0, <1>6, <1>a, <2>1, SetLiveRows
<1>7. CASE UNCHANGED storeVars
  BY <1>0, <1>7 DEF storeVars, Exists
<1>. QED
  BY <1>1, <1>2, <1>3, <1>4, <1>5, <1>6, <1>7 DEF Next

\* No reader ever finds two live releases of an app, or a pointer to one that
\* is not live: SetLive's one transaction and the cascade of DeleteApp are
\* enough, whatever the order of the calls.
THEOREM LivePointerIsRight == Spec => []LivePointerAgrees
<1>1. Init => LivePointerAgrees
  BY DEF Init, LivePointerAgrees, RowsOf, Exists, NoLive
<1>. QED
  BY <1>1, LivePointerStep, TypeCorrect, PTL DEF Spec

\* What is starting, live or superseded can be run: it has an image.
THEOREM BuiltReleasesHaveImages == Spec => []BuiltHasImage
<1>1. Init => BuiltHasImage
  BY DEF Init, BuiltHasImage, HasStatus, Exists
<1>2. TypeOK /\ BuiltHasImage /\ [Next]_storeVars => BuiltHasImage'
  <2> SUFFICES ASSUME TypeOK, BuiltHasImage, [Next]_storeVars,
                      NEW j \in Ids, Exists(j)', (rows[j].status \in {"starting", "live", "superseded"})'
               PROVE  (rows[j].image # NoImage)'
    BY DEF BuiltHasImage, HasStatus
  <2>0. Exists(j) /\ rows[j].status \in {"starting", "live", "superseded"} => rows[j].image # NoImage
    BY DEF BuiltHasImage, HasStatus
  <2>1. ASSUME NEW a \in Apps, CreateApp(a)
        PROVE  (rows[j].image # NoImage)'
    BY <2>0, <2>1 DEF CreateApp, Exists
  <2>2. ASSUME NEW a \in Apps, DeleteApp(a)
        PROVE  (rows[j].image # NoImage)'
    BY <2>0, <2>2, DeleteAppRows
  <2>3. ASSUME NEW a \in Apps, NEW image \in Images \cup {NoImage}, NEW i \in Ids,
               CreateRelease(a, image, i)
        PROVE  (rows[j].image # NoImage)'
    <3>1. CASE j = i
      BY <2>3, <3>1, CreateReleaseRows
    <3>2. CASE j # i
      BY <2>0, <2>3, <3>2, CreateReleaseRows DEF Exists
    <3>. QED
      BY <3>1, <3>2
  <2>4. ASSUME NEW i \in Ids, NEW image \in Images \cup {NoImage}, MarkBuilt(i, image)
        PROVE  (rows[j].image # NoImage)'
    <3>1. CASE j = i
      BY <2>4, <3>1, MarkBuiltRows
    <3>2. CASE j # i
      BY <2>0, <2>4, <3>2, MarkBuiltRows DEF Exists
    <3>. QED
      BY <3>1, <3>2
  <2>5. ASSUME NEW i \in Ids, MarkFailed(i)
        PROVE  (rows[j].image # NoImage)'
    <3>1. CASE j = i
      BY <2>5, <3>1, MarkFailedRows
    <3>2. CASE j # i
      BY <2>0, <2>5, <3>2, MarkFailedRows DEF Exists
    <3>. QED
      BY <3>1, <3>2
  <2>6. ASSUME NEW a \in Apps, NEW i \in Ids, SetLive(a, i)
        PROVE  (rows[j].image # NoImage)'
    BY <2>0, <2>6, SetLiveRows
  <2>7. CASE UNCHANGED storeVars
    BY <2>0, <2>7 DEF storeVars, Exists
  <2>. QED
    BY <2>1, <2>2, <2>3, <2>4, <2>5, <2>6, <2>7 DEF Next
<1>. QED
  BY <1>1, <1>2, TypeCorrect, PTL DEF Spec

\* The versions of an app stay v1 .. vn in the order of their ids, although
\* ids of deleted rows come back: a new id is above every id in use.
THEOREM VersionsStayInOrder == Spec => []VersionsInOrder
<1> DEFINE Ordered == \A a \in Apps : \A i, j \in Ids :
             Exists(i) /\ Exists(j) /\ rows[i].app = a /\ rows[j].app = a /\ i < j
               => rows[i].version < rows[j].version
           Dense == \A a \in Apps : \A i \in Ids :
             Exists(i) /\ rows[i].app = a /\ rows[i].version > 1
               => \E j \in Ids : Exists(j) /\ rows[j].app = a /\ rows[j].version = rows[i].version - 1
<1>0. VersionsInOrder <=> Ordered /\ Dense
  BY DEF VersionsInOrder, RowsOf
<1>1. Init => Ordered /\ Dense
  BY DEF Init, Exists
<1>2. TypeOK /\ Ordered /\ Dense /\ [Next]_storeVars => Ordered' /\ Dense'
  <2> SUFFICES ASSUME TypeOK, Ordered, Dense, [Next]_storeVars
               PROVE  Ordered' /\ Dense'
    OBVIOUS
  <2>0. ASSUME \A j \in Ids : Exists(j)' <=> Exists(j),
               \A j \in Ids : Exists(j) =>
                 rows'[j].app = rows[j].app /\ rows'[j].version = rows[j].version
        PROVE  Ordered' /\ Dense'
    BY <2>0
  <2>1. ASSUME NEW a \in Apps, CreateApp(a)
        PROVE  Ordered' /\ Dense'
    BY <2>0, <2>1 DEF CreateApp, Exists
  <2>2. ASSUME NEW a \in Apps, DeleteApp(a)
        PROVE  Ordered' /\ Dense'
    BY <2>2, DeleteAppRows
  <2>3. ASSUME NEW a \in Apps, NEW image \in Images \cup {NoImage}, NEW i \in Ids,
               CreateRelease(a, image, i)
        PROVE  Ordered' /\ Dense'
    <3>1. /\ ~Exists(i) /\ Exists(i)' /\ rows'[i].app = a
          /\ \A j \in Ids \ {i} : rows'[j] = rows[j]
          /\ IsNextVersion(a, rows'[i].version)
      BY <2>3, CreateReleaseRows
    <3>2. \A j \in Ids \ {i} : Exists(j)' <=> Exists(j)
      BY <3>1 DEF Exists
    <3>3. /\ \A j \in Ids : Exists(j) /\ rows[j].app = a => rows[j].version < rows'[i].version
          /\ rows'[i].version > 1 =>
               \E j \in Ids : Exists(j) /\ rows[j].app = a /\ rows[j].version = rows'[i].version - 1
      BY <3>1 DEF IsNextVersion, RowsOf
    <3>4. \A j \in Ids : Exists(j) => j < i
      BY <2>3 DEF CreateRelease, IsNextId
    <3>5. Ordered'
      <4> SUFFICES ASSUME NEW b \in Apps, NEW k \in Ids, NEW l \in Ids, k < l,
                          Exists(k)', Exists(l)', rows'[k].app = b, rows'[l].app = b
                   PROVE  rows'[k].version < rows'[l].version
        OBVIOUS
      <4>1. k # i
        BY <3>2, <3>4 DEF Ids
      <4>2. CASE l = i
        BY <3>1, <3>2, <3>3, <4>1, <4>2
      <4>3. CASE l # i
        BY <3>1, <3>2, <4>1, <4>3
      <4>. QED
        BY <4>2, <4>3
    <3>6. Dense'
      <4> SUFFICES ASSUME NEW b \in Apps, NEW k \in Ids, Exists(k)', rows'[k].app = b, rows'[k].version > 1
                   PROVE  \E l \in Ids : Exists(l)' /\ rows'[l].app = b /\ rows'[l].version = rows'[k].version - 1
        OBVIOUS
      <4>1. PICK l \in Ids : Exists(l) /\ rows[l].app = b /\ rows[l].version = rows'[k].version - 1
        <5>1. CASE k = i
          BY <3>1, <3>3, <5>1
        <5>2. CASE k # i
          BY <3>1, <3>2, <5>2
        <5>. QED
          BY <5>1, <5>2
      <4>2. l # i
        BY <3>1, <4>1
      <4>. QED
        BY <3>1, <3>2, <4>1, <4>2
    <3>. QED
      BY <3>5, <3>6
  <2>4. ASSUME NEW i \in Ids, NEW image \in Images \cup {NoImage}, MarkBuilt(i, image)
        PROVE  Ordered' /\ Dense'
    BY <2>0, <2>4, MarkBuiltRows DEF Exists
  <2>5. ASSUME NEW i \in Ids, MarkFailed(i)
        PROVE  Ordered' /\ Dense'
    BY <2>0, <2>5, MarkFailedRows DEF Exists
  <2>6. ASSUME NEW a \in Apps, NEW i \in Ids, SetLive(a, i)
        PROVE  Ordered' /\ Dense'
    BY <2>0, <2>6, SetLiveRows
  <2>7. CASE UNCHANGED storeVars
    BY <2>0, <2>7 DEF storeVars, Exists
  <2>. QED
    BY <2>1, <2>2, <2>3, <2>4, <2>5, <2>6, <2>7 DEF Next
<1>. QED
  BY <1>0, <1>1, <1>2, TypeCorrect, PTL DEF Spec

-----------------------------------------------------------------------------
(* What a step may never do *)

\* No call rewrites history: failed and superseded are terminal, a row never
\* changes its app or version, and only the build writes its image.
THEOREM HistoryIsKept == Spec => HistoryIsNeverRewritten
<1>1. TypeOK /\ [Next]_storeVars => [RowMoves]_storeVars
  <2> SUFFICES ASSUME TypeOK, Next
               PROVE  RowMoves
    OBVIOUS
  <2> SUFFICES ASSUME NEW j \in Ids, Exists(j), Exists(j)'
               PROVE  /\ rows'[j].app = rows[j].app /\ rows'[j].version = rows[j].version
                      /\ rows'[j].image # rows[j].image =>
                           rows[j].status = "building" /\ rows'[j].status = "starting"
                      /\ rows'[j].status # rows[j].status => <<rows[j].status, rows'[j].status>> \in Moves
    BY DEF RowMoves
  <2> DEFINE Moved == /\ rows'[j].app = rows[j].app /\ rows'[j].version = rows[j].version
                      /\ rows'[j].image # rows[j].image =>
                           rows[j].status = "building" /\ rows'[j].status = "starting"
                      /\ rows'[j].status # rows[j].status => <<rows[j].status, rows'[j].status>> \in Moves
  <2>0. ASSUME rows'[j] = rows[j]
        PROVE  Moved
    BY <2>0
  <2>1. ASSUME NEW a \in Apps, CreateApp(a)
        PROVE  Moved
    BY <2>0, <2>1 DEF CreateApp
  <2>2. ASSUME NEW a \in Apps, DeleteApp(a)
        PROVE  Moved
    BY <2>0, <2>2, DeleteAppRows
  <2>3. ASSUME NEW a \in Apps, NEW image \in Images \cup {NoImage}, NEW i \in Ids,
               CreateRelease(a, image, i)
        PROVE  Moved
    BY <2>0, <2>3, CreateReleaseRows
  <2>4. ASSUME NEW i \in Ids, NEW image \in Images \cup {NoImage}, MarkBuilt(i, image)
        PROVE  Moved
    BY <2>0, <2>4, MarkBuiltRows DEF Moves
  <2>5. ASSUME NEW i \in Ids, MarkFailed(i)
        PROVE  Moved
    BY <2>0, <2>5, MarkFailedRows DEF Moves
  <2>6. ASSUME NEW a \in Apps, NEW i \in Ids, SetLive(a, i)
        PROVE  Moved
    BY <2>6, SetLiveRows DEF Moves
  <2>. QED
    BY <2>1, <2>2, <2>3, <2>4, <2>5, <2>6 DEF Next
<1>. QED
  BY <1>1, TypeCorrect, PTL DEF Spec, HistoryIsNeverRewritten

\* An app that has gone live has a live release until it is deleted.
THEOREM LiveIsNeverLost == Spec => NeverWithoutLive
<1>1. TypeOK /\ [Next]_storeVars => [StaysLive]_storeVars
  <2> SUFFICES ASSUME TypeOK, Next, NEW b \in Apps, liveRelease[b] # NoLive, b \in apps'
               PROVE  liveRelease'[b] # NoLive
    BY DEF StaysLive
  <2>1. ASSUME NEW a \in Apps, DeleteApp(a)
        PROVE  liveRelease'[b] # NoLive
    BY <2>1 DEF DeleteApp, TypeOK
  <2>2. ASSUME NEW a \in Apps, NEW i \in Ids, SetLive(a, i)
        PROVE  liveRelease'[b] # NoLive
    BY <2>2 DEF SetLive, TypeOK, Ids, NoLive
  <2>3. ASSUME UNCHANGED liveRelease
        PROVE  liveRelease'[b] # NoLive
    BY <2>3
  <2>. QED
    BY <2>1, <2>2, <2>3 DEF Next, CreateApp, CreateRelease, MarkBuilt, MarkFailed
<1>. QED
  BY <1>1, TypeCorrect, PTL DEF Spec, NeverWithoutLive

\* Referential integrity: a release is an app's that exists (0002_releases.sql:3,
\* the foreign key of CreateRelease and the cascade of DeleteApp).
RowsHaveApps == \A i \in Ids : Exists(i) => rows[i].app \in apps

LEMMA RowsHaveAppsStep == TypeOK /\ RowsHaveApps /\ [Next]_storeVars => RowsHaveApps'
<1> SUFFICES ASSUME TypeOK, RowsHaveApps, [Next]_storeVars, NEW j \in Ids, Exists(j)'
             PROVE  rows'[j].app \in apps'
  BY DEF RowsHaveApps
<1>0. Exists(j) => rows[j].app \in apps
  BY DEF RowsHaveApps
<1>1. ASSUME NEW a \in Apps, CreateApp(a) PROVE rows'[j].app \in apps'
  BY <1>0, <1>1 DEF CreateApp, Exists
<1>2. ASSUME NEW a \in Apps, DeleteApp(a) PROVE rows'[j].app \in apps'
  BY <1>0, <1>2, DeleteAppRows DEF DeleteApp
<1>3. ASSUME NEW a \in Apps, NEW image \in Images \cup {NoImage}, NEW i \in Ids, CreateRelease(a, image, i)
      PROVE  rows'[j].app \in apps'
  <2>0. a \in apps' /\ apps' = apps
    BY <1>3 DEF CreateRelease
  <2>1. CASE j = i
    <3>1. rows'[i].app = a
      BY <1>3, CreateReleaseRows
    <3> QED  BY <2>0, <2>1, <3>1
  <2>2. CASE j # i
    BY <1>0, <1>3, <2>2, CreateReleaseRows DEF CreateRelease, Exists
  <2> QED  BY <2>1, <2>2
<1>4. ASSUME NEW i \in Ids, NEW image \in Images \cup {NoImage}, MarkBuilt(i, image) PROVE rows'[j].app \in apps'
  <2>1. CASE j = i
    BY <1>0, <1>4, <2>1, MarkBuiltRows DEF MarkBuilt
  <2>2. CASE j # i
    BY <1>0, <1>4, <2>2, MarkBuiltRows DEF MarkBuilt, Exists
  <2> QED  BY <2>1, <2>2
<1>5. ASSUME NEW i \in Ids, MarkFailed(i) PROVE rows'[j].app \in apps'
  <2>1. CASE j = i
    <3>1. Exists(i) /\ rows'[i].app = rows[i].app
      BY <1>5, MarkFailedRows
    <3> QED  BY <1>0, <1>5, <2>1, <3>1 DEF MarkFailed
  <2>2. CASE j # i
    BY <1>0, <1>5, <2>2, MarkFailedRows DEF MarkFailed, Exists
  <2> QED  BY <2>1, <2>2
<1>6. ASSUME NEW a \in Apps, NEW i \in Ids, SetLive(a, i) PROVE rows'[j].app \in apps'
  <2>1. Exists(j) /\ rows'[j].app = rows[j].app
    BY <1>6, SetLiveRows
  <2> QED  BY <1>0, <1>6, <2>1 DEF SetLive
<1>7. CASE UNCHANGED storeVars
  BY <1>0, <1>7 DEF storeVars, Exists
<1> QED  BY <1>1, <1>2, <1>3, <1>4, <1>5, <1>6, <1>7 DEF Next

\* No release outlives its app, so that an app that gets the id of a deleted one
\* starts without a history.
THEOREM ReleasesHaveApps == Spec => []RowsHaveApps
<1>1. Init => RowsHaveApps
  BY DEF Init, RowsHaveApps, Exists
<1>. QED
  BY <1>1, RowsHaveAppsStep, TypeCorrect, PTL DEF Spec

=============================================================================
