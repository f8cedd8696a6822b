---------------------------- MODULE RelationStore ---------------------------
(***************************************************************************)
(* What a user of the database sees: tables with columns and a bag of      *)
(* rows, changed by statements of one transaction at a time, which take    *)
(* effect together when it commits, or not at all.  There are no indexes,  *)
(* pages or copies, and a restart changes nothing.  A store that does not  *)
(* check rows takes one that does not fit, and promises nothing for the    *)
(* rows of that table from then on.                                        *)
(***************************************************************************)
EXTENDS Bags, Sequences, FiniteSets

CONSTANTS
  TableRef,  \* names of tables
  Undefined, \* the rows of a table that nothing is promised for
  NoView

VARIABLES
  store,     \* the committed tables
  view,      \* the tables as the open transaction sees them, or NoView
  checked    \* are rows checked?

vars == <<store, view, checked>>

(* A row has one value of the right type for each column. *)
Fits(row, cols) ==
  /\ DOMAIN row = DOMAIN cols
  /\ \A i \in DOMAIN cols : row[i].type = cols[i].type

WellTyped(table) ==
  table.rows # Undefined => \A row \in BagToSet(table.rows) : Fits(row, table.cols)

Init == store = [t \in {} |-> {}] /\ view = NoView /\ checked \in BOOLEAN

Begin == view = NoView /\ view' = store /\ UNCHANGED <<store, checked>>

CreateTable(old, new, t) == t \notin DOMAIN old /\ new[t].rows = EmptyBag

(* Rows are added, and all others stay. *)
Insert(old, new, t) ==
  /\ t \in DOMAIN old /\ new[t].cols = old[t].cols
  /\ \/ /\ Undefined \notin {old[t].rows, new[t].rows}
        /\ old[t].rows \sqsubseteq new[t].rows
     \/ /\ checked => old[t].rows = Undefined
        /\ new[t].rows = Undefined

(* One column of some of the rows is set to one value. *)
Update(old, new, t) ==
  /\ t \in DOMAIN old /\ new[t].cols = old[t].cols
  /\ Undefined \notin {old[t].rows, new[t].rows}
  /\ \E sel \in SUBSET BagToSet(old[t].rows), i \in DOMAIN old[t].cols :
       \E row \in BagToSet(new[t].rows) :
         new[t].rows = BagOfAll(LAMBDA r : IF r \in sel THEN [r EXCEPT ![i] = row[i]] ELSE r,
                                old[t].rows)

(* A statement of the open transaction changes one table. *)
Statement(old, new) ==
  \E t \in TableRef \cap DOMAIN new :
    /\ DOMAIN new = DOMAIN old \cup {t}
    /\ \A u \in DOMAIN old \ {t} : new[u] = old[u]
    /\ WellTyped(new[t])
    /\ CreateTable(old, new, t) \/ Insert(old, new, t) \/ Update(old, new, t)

Run ==
  /\ view # NoView /\ view' # NoView
  /\ \E old \in {view}, new \in {view'} : Statement(old, new)
  /\ UNCHANGED <<store, checked>>

Commit == view # NoView /\ store' = view /\ view' = NoView /\ UNCHANGED checked

Abort == view # NoView /\ view' = NoView /\ UNCHANGED <<store, checked>>

Next == Begin \/ Run \/ Commit \/ Abort

Spec == Init /\ [][Next]_vars
=============================================================================
