----------------------------- MODULE TenantScope -----------------------------
(***************************************************************************)
(* Tenant isolation of the database boundary (infrastructure/database.py,  *)
(* rls.py, tenant_session.py and core/tenancy.py).                         *)
(*                                                                         *)
(* Units of work share a pool of connections.  A tenant transaction binds  *)
(* the Organization as a setting local to the transaction, reads it back   *)
(* and works; the row policy compares every row with the setting.  A unit  *)
(* of work commits, rolls back or loses its connection at any point.       *)
(***************************************************************************)
EXTENDS Naturals, FiniteSets, Common

CONSTANTS Tenants,         \* Organizations
          Units,           \* concurrent units of work
          Pool,            \* pooled connections
          MaxRows          \* bound on rows of one Organization

ASSUME ScopeNames == None \notin Tenants

VARIABLES setting,     \* connection -> organization and principal setting
          unit,        \* unit -> its state
          rows,        \* committed rows: tenant -> number
          foreign      \* history: a unit saw or wrote a row of another tenant

scopeVars == <<setting, unit, rows, foreign>>

NoSetting == [organization |-> None, principal |-> None]
IdleUnit == [pc |-> "idle", kind |-> None, tenant |-> None, conn |-> None, wrote |-> 0]
Kinds == {"system", "tenant", "principal"}

ScopeInit ==
  /\ setting = [p \in Pool |-> NoSetting]
  /\ unit = [u \in Units |-> IdleUnit]
  /\ rows = [t \in Tenants |-> 1]
  /\ foreign = FALSE

InUse == {unit[u].conn : u \in Units}

\* session(), begin(): a free connection, with whatever settings it carries.
BeginUnit(u, kind, t, p) ==
  /\ unit[u].pc = "idle" /\ p \notin InUse
  /\ unit' = [unit EXCEPT ![u] = [pc |-> IF kind = "system" THEN "work" ELSE "bind",
                                  kind |-> kind, tenant |-> t, conn |-> p, wrote |-> 0]]
  /\ UNCHANGED <<setting, rows, foreign>>

\* set_config(..., is_local => true), and the read that confirms it.
BindScope(u) ==
  LET w == unit[u] IN
  /\ w.pc = "bind"
  /\ setting' = [setting EXCEPT ![w.conn] =
       IF w.kind = "tenant" THEN [@ EXCEPT !.organization = w.tenant]
                            ELSE [@ EXCEPT !.principal = w.tenant]]
  /\ unit' = [unit EXCEPT ![u].pc = "work"]
  /\ UNCHANGED <<rows, foreign>>

\* tenant_predicate: no setting means no row.
Visible(p) == {t \in Tenants : setting[p].organization = t}

\* Any statement of the work: it sees the visible rows and may insert one.
Statement(u) ==
  LET w == unit[u] IN
  /\ w.pc = "work"
  /\ foreign' = (foreign \/ (w.kind # "tenant" /\ Visible(w.conn) # {})
                         \/ (w.kind = "tenant" /\ Visible(w.conn) # {w.tenant}))
  /\ \/ /\ w.kind = "tenant" /\ w.tenant \in Visible(w.conn) /\ w.wrote = 0
        /\ rows[w.tenant] < MaxRows
        /\ unit' = [unit EXCEPT ![u].wrote = 1]
     \/ UNCHANGED unit
  /\ UNCHANGED <<setting, rows>>

Bug_EndOfTransaction(p) == setting[p]
\* A setting that is local to a transaction disappears with it.
EndOfTransaction(p) == NoSetting

Returned(u) ==
  /\ setting' = [setting EXCEPT ![unit[u].conn] = EndOfTransaction(unit[u].conn)]
  /\ unit' = [unit EXCEPT ![u] = IdleUnit]

Commit(u) ==
  /\ unit[u].pc = "work"
  /\ rows' = IF unit[u].wrote = 1 THEN [rows EXCEPT ![unit[u].tenant] = @ + 1] ELSE rows
  /\ Returned(u)
  /\ UNCHANGED foreign

\* An exception anywhere, the failed confirmation of the setting included.
Rollback(u) ==
  /\ unit[u].pc \in {"bind", "work"}
  /\ Returned(u)
  /\ UNCHANGED <<rows, foreign>>

\* The connection is lost; the pool replaces it with a fresh one.
LoseConnection(u) ==
  /\ unit[u].pc \in {"bind", "work"}
  /\ setting' = [setting EXCEPT ![unit[u].conn] = NoSetting]
  /\ unit' = [unit EXCEPT ![u] = IdleUnit]
  /\ UNCHANGED <<rows, foreign>>

ScopeNext ==
  \E u \in Units :
    \/ \E kind \in Kinds, t \in Tenants, p \in Pool : BeginUnit(u, kind, t, p)
    \/ BindScope(u) \/ Statement(u) \/ Commit(u) \/ Rollback(u) \/ LoseConnection(u)

ScopeSpec == ScopeInit /\ [][ScopeNext]_scopeVars

-----------------------------------------------------------------------------
(* A unit of work sees the rows of its own Organization and no others, and a   *)
(* unit without a tenant sees none, whichever pooled connection it was given   *)
(* and however the one before it ended (infrastructure/database.py             *)
(* tenant_transaction, rls.py tenant_predicate).                               *)
ScopeHolds == ~foreign
=============================================================================
