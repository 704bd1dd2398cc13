------------------------------ MODULE SourceRows ------------------------------
(***************************************************************************)
(* The rows of sources and targets between the service and the database:   *)
(* which columns an insert writes and what the others hold, and how the    *)
(* two queries of a page share one list of conditions.                     *)
(***************************************************************************)
EXTENDS Naturals, Sequences

-----------------------------------------------------------------------------
(* Inserts.  A row is a function from columns to values; "zero" is the     *)
(* zero value of Go, be it NULL, an empty string, 0 or false.              *)

(* Infer writes the columns without default and those whose value is not   *)
(* zero; a whitelist writes what it lists.                                 *)
Infer(row, withoutDefault) == withoutDefault \cup {c \in DOMAIN row : row[c] # "zero"}

Inserted(row, written, default) ==
  [c \in DOMAIN row |-> IF c \in written THEN row[c] ELSE default[c]]

(* The columns of a target that the request decides, of the NOT NULL ones. *)
TargetDefaults ==
  [values |-> "none", is_active |-> "true", priority |-> "zero", label |-> "zero", crawl_interval_minutes |-> "eleven"]
TargetColumnsWithoutDefault == {"values"}

TargetRow(opt) ==
  [values |-> "given", is_active |-> "zero", priority |-> opt.priority,
   label |-> opt.label, crawl_interval_minutes |-> opt.interval]

InsertedTarget(opt) ==
  Inserted(TargetRow(opt),
           {"values", "is_active", "priority"}
             \cup {c \in {"label", "crawl_interval_minutes"} : TargetRow(opt)[c] # "zero"},
           TargetDefaults)

(* A source is PENDING with an empty configuration when nothing is given.  *)
SourceDefaults ==
  [name |-> "none", status |-> "PENDING", config |-> "empty", description |-> "zero", crawl_mode |-> "zero"]
SourceColumnsWithoutDefault == {"name"}

SourceRow(opt) ==
  [name |-> "given", status |-> "PENDING", config |-> IF opt.config = "zero" THEN "empty" ELSE opt.config,
   description |-> opt.description, crawl_mode |-> opt.mode]

InsertedSource(opt) ==
  Inserted(SourceRow(opt), Infer(SourceRow(opt), SourceColumnsWithoutDefault), SourceDefaults)

-----------------------------------------------------------------------------
(* A page.  Its conditions are appended one by one to a slice; then one    *)
(* goroutine counts with them and another appends limit, offset and order. *)
(* A slice whose capacity is enough is appended to in place.               *)

(* The slice after n appends: its capacity doubles when it is full.        *)
Capacity(n) == CHOOSE c \in {1, 2, 4, 8} : n <= c /\ \A d \in {1, 2, 4, 8} : n <= d => c <= d

Conditions(filters) == filters + 1
(* Mutant of SpareOfGetQuery: the slice is allocated for all conditions.   *)
SpareOfEight(filters) == 8 - Conditions(filters)
SpareOfGetQuery(filters) == Capacity(Conditions(filters)) - Conditions(filters)

(* Limit, offset and order are three, the table and "not deleted" two.     *)
CountAppends == 2
PageAppends == 3
ShareSlots(filters) ==
  CountAppends <= SpareOfGetQuery(filters) /\ PageAppends <= SpareOfGetQuery(filters)

(* With shared slots each goroutine may see what the other wrote: a query  *)
(* PostgreSQL refuses, a page without its offset, or half of a value.      *)
PageOutcomes(filters) ==
  {"right"} \cup (IF ShareSlots(filters) THEN {"refused", "first page", "torn"} ELSE {})
=============================================================================
