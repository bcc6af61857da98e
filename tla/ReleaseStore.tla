---------------------------- MODULE ReleaseStore ----------------------------
(***************************************************************************)
(* The apps and releases tables of internal/store and the status machine   *)
(* of a release:                                                           *)
(*                                                                         *)
(*      building --> starting --> live --> superseded                      *)
(*          |            |                                                 *)
(*          +------------+------> failed                                   *)
(*                                                                         *)
(* One action is one call of the Go API that changes a row.  The database  *)
(* has one connection and every call is one statement or one transaction,  *)
(* so a call is atomic; a call that returns an error changes nothing and   *)
(* is not an action.  An app is its name (the code passes app.ID, the id   *)
(* of the one row with that name); config, manifest, commit and note of a  *)
(* release are left out, they never decide a move.                         *)
(***************************************************************************)
EXTENDS Naturals, FiniteSets

CONSTANTS
  Apps,       \* the app names
  Images,     \* what a build can produce
  NoImage,    \* the image column of a release that is not built: ''
  NoRow,      \* what a release id without a row maps to
  MaxRelease  \* bound: the largest release id

Ids      == 1 .. MaxRelease
NoLive   == 0   \* a NULL live_release_id
Statuses == {"building", "starting", "live", "failed", "superseded"}
Row      == [app: Apps, version: Ids, image: Images \cup {NoImage}, status: Statuses]

ASSUME MaxReleaseAssumption == MaxRelease \in Nat \ {0}
ASSUME NoImageAssumption    == NoImage \notin Images
ASSUME NoRowAssumption      == NoRow \notin Row

VARIABLES
  apps,        \* the apps that have a row
  rows,        \* the releases table: id -> row, or NoRow
  liveRelease  \* apps.live_release_id, NoLive when NULL or when there is no app

storeVars == <<apps, rows, liveRelease>>

Init ==
  /\ apps = {}
  /\ rows = [i \in Ids |-> NoRow]
  /\ liveRelease = [a \in Apps |-> NoLive]

-----------------------------------------------------------------------------
(* Reads *)

Exists(i)    == rows[i] # NoRow
RowsOf(a)    == {i \in Ids : Exists(i) /\ rows[i].app = a}
HasStatus(i, S) == Exists(i) /\ rows[i].status \in S
OpenReleases == {i \in Ids : HasStatus(i, {"building", "starting"})}

\* INTEGER PRIMARY KEY without AUTOINCREMENT: the id after the largest in use,
\* so the ids of deleted rows come back.
IsNextId(i) ==
  /\ \A j \in Ids : Exists(j) => j < i
  /\ i > 1 => Exists(i - 1)

\* COALESCE(MAX(version), 0) + 1 over the app's rows.  Mutant: over all rows.
NextVersionGlobally(a, v) ==
  /\ \A i \in Ids : Exists(i) => rows[i].version < v
  /\ v > 1 => \E i \in Ids : Exists(i) /\ rows[i].version = v - 1

IsNextVersion(a, v) ==
  /\ \A i \in RowsOf(a) : rows[i].version < v
  /\ v > 1 => \E i \in RowsOf(a) : rows[i].version = v - 1

-----------------------------------------------------------------------------
(* Calls *)

CreateApp(a) ==
  /\ a \notin apps
  /\ apps' = apps \cup {a}
  /\ UNCHANGED <<rows, liveRelease>>

\* ON DELETE CASCADE takes the app's releases with it.
DeleteApp(a) ==
  /\ a \in apps
  /\ apps' = apps \ {a}
  /\ rows' = [i \in Ids |-> IF i \in RowsOf(a) THEN NoRow ELSE rows[i]]
  /\ liveRelease' = [liveRelease EXCEPT ![a] = NoLive]

CreateRelease(a, image, i) ==
  /\ a \in apps   \* the foreign key
  /\ IsNextId(i)
  /\ \E v \in Ids :
       /\ IsNextVersion(a, v)
       /\ rows' = [rows EXCEPT ![i] =
            [app |-> a, version |-> v, image |-> image,
             status |-> IF image = NoImage THEN "building" ELSE "starting"]]
  /\ UNCHANGED <<apps, liveRelease>>

Built(row, image) == [row EXCEPT !.status = "starting", !.image = image]

MarkBuilt(i, image) ==
  /\ image # NoImage
  /\ HasStatus(i, {"building"})
  /\ rows' = [rows EXCEPT ![i] = Built(@, image)]
  /\ UNCHANGED <<apps, liveRelease>>

MarkFailed(i) ==
  /\ HasStatus(i, {"building", "starting"})
  /\ rows' = [rows EXCEPT ![i].status = "failed"]
  /\ UNCHANGED <<apps, liveRelease>>

\* What SetLive's two updates leave in the table.  Mutant: only the first.
LiveOnly(a, i) == [rows EXCEPT ![i].status = "live"]

\* Mutant: the second UPDATE does not look at the status.
LiveAndAllSuperseded(a, i) ==
  [j \in Ids |->
    IF j = i THEN [rows[j] EXCEPT !.status = "live"]
    ELSE IF j \in RowsOf(a) THEN [rows[j] EXCEPT !.status = "superseded"] ELSE rows[j]]

LiveAndSuperseded(a, i) ==
  [j \in Ids |->
    IF j = i THEN [rows[j] EXCEPT !.status = "live"]
    ELSE IF j \in RowsOf(a) /\ rows[j].status = "live"
         THEN [rows[j] EXCEPT !.status = "superseded"]
         ELSE rows[j]]

\* One transaction: the release live, the one it replaces superseded, and the
\* app's pointer moved.
SetLive(a, i) ==
  /\ HasStatus(i, {"starting"})
  /\ rows[i].app = a
  /\ rows' = LiveAndSuperseded(a, i)
  /\ liveRelease' = [liveRelease EXCEPT ![a] = i]
  /\ UNCHANGED apps

Next ==
  \/ \E a \in Apps : CreateApp(a) \/ DeleteApp(a)
  \/ \E a \in Apps, image \in Images \cup {NoImage}, i \in Ids : CreateRelease(a, image, i)
  \/ \E i \in Ids, image \in Images \cup {NoImage} : MarkBuilt(i, image)
  \/ \E i \in Ids : MarkFailed(i)
  \/ \E a \in Apps, i \in Ids : SetLive(a, i)

Spec == Init /\ [][Next]_storeVars

-----------------------------------------------------------------------------
(* Properties *)

\* The type invariant of the two tables.
TypeOK ==
  /\ apps \subseteq Apps
  /\ rows \in [Ids -> Row \cup {NoRow}]
  /\ liveRelease \in [Apps -> Ids \cup {NoLive}]

\* A reader never sees two live releases of an app, nor a pointer to a row
\* that is not the live one: the rows with status live are exactly the one
\* live_release_id names (SetLive, releases.go:231-260, and the cascade of
\* DeleteApp).
LivePointerAgrees ==
  \A a \in Apps : {i \in RowsOf(a) : rows[i].status = "live"} = {liveRelease[a]} \ {NoLive}

\* A release leaves building only with an image: what is starting, live or
\* superseded can be started, restarted, redeployed or rolled back to.
BuiltHasImage ==
  \A i \in Ids : HasStatus(i, {"starting", "live", "superseded"}) => rows[i].image # NoImage

\* The versions of an app are v1 .. vn, each once, in the order of their ids,
\* whatever other apps were deleted in between and whichever ids were reused.
VersionsInOrder ==
  \A a \in Apps :
    /\ \A i, j \in RowsOf(a) : i < j => rows[i].version < rows[j].version
    /\ \A i \in RowsOf(a) : rows[i].version > 1 =>
         \E j \in RowsOf(a) : rows[j].version = rows[i].version - 1

Moves == {<<"building", "starting">>, <<"building", "failed">>, <<"starting", "live">>,
          <<"starting", "failed">>, <<"live", "superseded">>}

\* A step of the history of one release: app and version never change, the
\* image only with the build, and the status only along the diagram, so failed
\* and superseded are terminal (releases.go:14-26).
RowMoves ==
  \A i \in Ids : Exists(i) /\ Exists(i)' =>
    LET old == rows[i]  new == rows'[i] IN
      /\ new.app = old.app /\ new.version = old.version
      /\ new.image # old.image => old.status = "building" /\ new.status = "starting"
      /\ new.status # old.status => <<old.status, new.status>> \in Moves

HistoryIsNeverRewritten == [][RowMoves]_storeVars

\* Once an app has gone live, a reader always finds a live release for it,
\* until the app is deleted.
StaysLive ==
  \A a \in Apps : liveRelease[a] # NoLive /\ a \in apps' => liveRelease'[a] # NoLive

NeverWithoutLive == [][StaysLive]_storeVars

=============================================================================
