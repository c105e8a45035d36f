-------------------------------- MODULE ListPages --------------------------------
(***************************************************************************)
(* The lists of sources and of jobs, which a client of the API reads page  *)
(* by page while rows come and go.  Each page is one SQL statement.        *)
(***************************************************************************)
EXTENDS Integers, Sequences, FiniteSets, SequencesExt, Ordering

CONSTANTS
  MaxRows,     \* bounds the rows of a table
  Priorities,  \* priorities of jobs
  ListSize     \* the page_size of the client, at most 200

ASSUME ListsAssumption ==
  /\ MaxRows \in Nat /\ ListSize \in Nat \ {0} /\ Priorities \subseteq Int

VARIABLES
  rows,     \* the rows ever made, in the order of creation: id, a job's priority, still there?
  listing   \* the client: what it lists, the cursor, the ids it got; history: the rows at
            \* its start

listVars == <<rows, listing>>

Tables == {"sources", "jobs"}
Ids == 1..MaxRows

--------------------------------------------------------------------------------
\* An id is random, so it says nothing about the order of creation.
InsertRow ==
  /\ \E id \in Ids, p \in Priorities :
       /\ \A i \in DOMAIN rows : rows[i].id # id
       /\ listing.table = "sources" => p = 0
       /\ rows' = Append(rows, [id |-> id, priority |-> p, here |-> TRUE])
  /\ UNCHANGED listing

\* Jobs are never deleted.
DeleteRow ==
  /\ listing.table = "sources"
  /\ \E i \in DOMAIN rows : rows[i].here /\ rows' = [rows EXCEPT ![i].here = FALSE]
  /\ UNCHANGED listing

Present == {i \in DOMAIN rows : rows[i].here}
PresentIds == {rows[i].id : i \in Present}

\* ListSources: created_at DESC.  ListJobs: priority DESC, created_at ASC.
Precedes(i, j) ==
  IF listing.table = "sources" THEN i > j
  ELSE \/ rows[i].priority > rows[j].priority
       \/ rows[i].priority = rows[j].priority /\ i < j

\* The cursor is compared with the id, not with what orders the rows.
Beyond(id, cursor) == id > cursor

Page(cursor) ==
  LET match == InOrder({i \in Present : Beyond(rows[i].id, cursor)}, Precedes)
      size == IF Len(match) < ListSize THEN Len(match) ELSE ListSize
  IN [k \in 1..size |-> rows[match[k]].id]

StartListing ==
  /\ listing.pc = "idle"
  /\ listing' = [listing EXCEPT !.pc = "pages", !.there = PresentIds]
  /\ UNCHANGED rows

\* A full page comes with a cursor, and the client goes on with it.
ListPage ==
  /\ listing.pc = "pages"
  /\ LET page == Page(listing.cursor)
         full == Len(page) = ListSize
     IN listing' = [listing EXCEPT
          !.got = @ \o page,
          !.pc = IF full THEN "pages" ELSE "done",
          !.cursor = IF full THEN Last(page) ELSE @]
  /\ UNCHANGED rows

--------------------------------------------------------------------------------
ListsInit ==
  /\ rows = <<>>
  /\ \E t \in Tables :
       listing = [pc |-> "idle", table |-> t, cursor |-> 0, got |-> <<>>, there |-> {}]

ListsNext == InsertRow \/ DeleteRow \/ StartListing \/ ListPage

ListsSpec == ListsInit /\ [][ListsNext]_listVars

--------------------------------------------------------------------------------
(* Properties                                                              *)

ListRow == [id : Ids, priority : Priorities, here : BOOLEAN]

ListsTypeOK ==
  /\ rows \in Seq(ListRow)
  /\ listing \in [pc : {"idle", "pages", "done"}, table : Tables, cursor : 0..MaxRows,
                  got : Seq(Ids), there : SUBSET Ids]

\* Cursor pagination gives consistent results when new rows are inserted during
\* paging: a client that has gone through the pages has every row that was there
\* from its first request to its last, and none twice.
PagesConsistent ==
  listing.pc = "done" =>
    /\ IsInjective(listing.got)
    /\ \A id \in listing.there : id \in PresentIds => id \in ToSet(listing.got)

================================================================================
