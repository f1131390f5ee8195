-------------------------- MODULE TenantScopeProofs --------------------------
(* Tenant isolation holds for any pool, any number of units of work and any    *)
(* set of Organizations.                                                       *)
EXTENDS TenantScope, TLAPS

SettingRow == [organization: Tenants \cup {None}, principal: Tenants \cup {None}]
UnitRow == [pc: {"idle", "bind", "work"}, kind: Kinds \cup {None}, tenant: Tenants \cup {None},
            conn: Pool \cup {None}, wrote: {0, 1}]

ScopeTypeOK ==
  /\ setting \in [Pool -> SettingRow] /\ unit \in [Units -> UnitRow]
  /\ foreign = FALSE

Begun(u) == unit[u].pc # "idle"

(* The inductive invariant: a connection has one user, it carries settings     *)
(* only while its user works, and then the Organization of its user or none.   *)
Exclusive == \A u, v \in Units : u # v /\ Begun(u) /\ Begun(v) => unit[u].conn # unit[v].conn
Connected == \A u \in Units : Begun(u) => unit[u].conn \in Pool /\ unit[u].tenant \in Tenants
Clean == \A p \in Pool :
           (\A u \in Units : unit[u].pc = "work" => unit[u].conn # p) => setting[p] = NoSetting
Bound == \A u \in Units : unit[u].pc = "work" =>
           setting[unit[u].conn].organization = IF unit[u].kind = "tenant" THEN unit[u].tenant ELSE None
ScopeIInv == ScopeTypeOK /\ Exclusive /\ Connected /\ Clean /\ Bound

LEMMA InitScope == ScopeInit => ScopeIInv
  BY DEF ScopeInit, ScopeIInv, ScopeTypeOK, Exclusive, Connected, Clean, Bound, Begun, NoSetting,
         IdleUnit, SettingRow, UnitRow

\* A unit takes a connection that nobody uses, which therefore carries nothing.
LEMMA BeginScope ==
  ASSUME ScopeIInv, NEW u \in Units, NEW kind \in Kinds, NEW t \in Tenants, NEW p \in Pool,
         BeginUnit(u, kind, t, p)
  PROVE  ScopeIInv'
  <1>1. unit'[u].pc = (IF kind = "system" THEN "work" ELSE "bind")
        /\ unit'[u].kind = kind /\ unit'[u].tenant = t /\ unit'[u].conn = p
        /\ unit' \in [Units -> UnitRow] /\ \A v \in Units \ {u} : unit'[v] = unit[v]
    BY DEF ScopeIInv, ScopeTypeOK, BeginUnit, UnitRow, Kinds
  <1>2. setting' = setting /\ unit[u].pc = "idle" /\ \A v \in Units : unit[v].conn # p
    BY DEF BeginUnit, InUse
  <1>3. ScopeTypeOK'
    BY <1>1 DEF ScopeIInv, ScopeTypeOK, BeginUnit
  <1>4. setting[p] = NoSetting
    BY <1>2 DEF ScopeIInv, Clean
  <1>5. Exclusive' /\ Connected'
    BY <1>1, <1>2 DEF ScopeIInv, Exclusive, Connected, Begun
  <1>6. Clean'
    <2> SUFFICES ASSUME NEW q \in Pool,
                        \A v \in Units : unit'[v].pc = "work" => unit'[v].conn # q
                 PROVE  setting[q] = NoSetting
      BY <1>2 DEF Clean
    <2>1. \A v \in Units : unit[v].pc = "work" => unit[v].conn # q
      BY <1>1, <1>2
    <2> QED BY <2>1 DEF ScopeIInv, Clean
  <1>7. Bound'
    <2> SUFFICES ASSUME NEW v \in Units, unit'[v].pc = "work"
                 PROVE  setting[unit'[v].conn].organization =
                          IF unit'[v].kind = "tenant" THEN unit'[v].tenant ELSE None
      BY <1>2 DEF Bound
    <2>1. CASE v = u
      BY <1>1, <1>4, <2>1 DEF NoSetting
    <2>2. CASE v # u
      BY <1>1, <2>2 DEF ScopeIInv, Bound
    <2> QED BY <2>1, <2>2
  <1> QED BY <1>3, <1>5, <1>6, <1>7 DEF ScopeIInv

\* The setting is written into a clean connection of the unit's own.
LEMMA BindStep ==
  ASSUME ScopeIInv, NEW u \in Units, BindScope(u) PROVE ScopeIInv'
  <1> DEFINE c == unit[u].conn
  <1>1. c \in Pool /\ unit[u].tenant \in Tenants /\ unit[u].pc = "bind"
    BY DEF ScopeIInv, Connected, Begun, BindScope
  <1>2. \A v \in Units : unit[v].pc = "work" => unit[v].conn # c
    BY <1>1 DEF ScopeIInv, Exclusive, Begun
  <1>3. setting[c] = NoSetting
    BY <1>1, <1>2 DEF ScopeIInv, Clean
  <1>4. setting' = [setting EXCEPT ![c] =
          IF unit[u].kind = "tenant" THEN [@ EXCEPT !.organization = unit[u].tenant]
                                     ELSE [@ EXCEPT !.principal = unit[u].tenant]]
        /\ unit' = [unit EXCEPT ![u].pc = "work"] /\ UNCHANGED <<rows, foreign>>
    BY DEF BindScope
  <1>5. setting'[c] \in SettingRow
        /\ setting'[c].organization = IF unit[u].kind = "tenant" THEN unit[u].tenant ELSE None
    BY <1>1, <1>3, <1>4 DEF NoSetting, SettingRow, ScopeIInv, ScopeTypeOK
  <1>6. setting' \in [Pool -> SettingRow] /\ \A q \in Pool \ {c} : setting'[q] = setting[q]
    BY <1>1, <1>4, <1>5 DEF ScopeIInv, ScopeTypeOK
  <1>7. unit' \in [Units -> UnitRow] /\ unit'[u].pc = "work"
        /\ \A v \in Units : /\ v # u => unit'[v] = unit[v]
                            /\ unit'[v].conn = unit[v].conn /\ unit'[v].kind = unit[v].kind
                            /\ unit'[v].tenant = unit[v].tenant
    BY <1>4 DEF ScopeIInv, ScopeTypeOK, UnitRow
  <1>8. ScopeTypeOK'
    BY <1>4, <1>6, <1>7 DEF ScopeIInv, ScopeTypeOK
  <1>9. Exclusive' /\ Connected'
    BY <1>1, <1>7 DEF ScopeIInv, Exclusive, Connected, Begun
  <1>10. Clean'
    <2> SUFFICES ASSUME NEW q \in Pool,
                        \A v \in Units : unit'[v].pc = "work" => unit'[v].conn # q
                 PROVE  setting'[q] = NoSetting
      BY DEF Clean
    <2>1. q # c /\ \A v \in Units : unit[v].pc = "work" => unit[v].conn # q
      BY <1>1, <1>7
    <2> QED BY <1>6, <2>1 DEF ScopeIInv, Clean
  <1>11. Bound'
    <2> SUFFICES ASSUME NEW v \in Units, unit'[v].pc = "work"
                 PROVE  setting'[unit'[v].conn].organization =
                          IF unit'[v].kind = "tenant" THEN unit'[v].tenant ELSE None
      BY DEF Bound
    <2>1. CASE v = u
      BY <1>5, <1>7, <2>1
    <2>2. CASE v # u
      <3>1. unit[v].pc = "work" /\ unit[v].conn \in Pool \ {c}
        BY <1>2, <1>7, <2>2 DEF ScopeIInv, Connected, Begun
      <3> QED BY <1>6, <1>7, <2>2, <3>1 DEF ScopeIInv, Bound
    <2> QED BY <2>1, <2>2
  <1> QED BY <1>8, <1>9, <1>10, <1>11 DEF ScopeIInv

\* A statement sees the rows of the unit's Organization, or none.
LEMMA StatementScope ==
  ASSUME ScopeIInv, NEW u \in Units, Statement(u) PROVE ScopeIInv'
  <1> DEFINE w == unit[u]
  <1>1. w.pc = "work" /\ w.conn \in Pool /\ w.tenant \in Tenants
    BY DEF ScopeIInv, Connected, Begun, Statement
  <1>2. w.kind = "tenant" => Visible(w.conn) = {w.tenant}
    BY <1>1 DEF ScopeIInv, Bound, Visible
  <1>3. w.kind # "tenant" => Visible(w.conn) = {}
    BY <1>1, ScopeNames DEF ScopeIInv, Bound, Visible
  <1>4. foreign' = FALSE
    BY <1>2, <1>3 DEF Statement, ScopeIInv, ScopeTypeOK
  <1>5. UNCHANGED <<setting, rows>>
    BY DEF Statement
  <1>6. unit' \in [Units -> UnitRow]
        /\ \A v \in Units : /\ unit'[v].pc = unit[v].pc /\ unit'[v].conn = unit[v].conn
                            /\ unit'[v].kind = unit[v].kind /\ unit'[v].tenant = unit[v].tenant
    <2>1. CASE unit' = [unit EXCEPT ![u].wrote = 1]
      BY <2>1 DEF ScopeIInv, ScopeTypeOK, UnitRow
    <2>2. CASE unit' = unit
      BY <2>2 DEF ScopeIInv, ScopeTypeOK
    <2> QED BY <2>1, <2>2 DEF Statement
  <1>7. ScopeTypeOK'
    BY <1>4, <1>5, <1>6 DEF ScopeIInv, ScopeTypeOK
  <1>8. Exclusive' /\ Connected' /\ Clean' /\ Bound'
    BY <1>5, <1>6 DEF ScopeIInv, Exclusive, Connected, Clean, Bound, Begun
  <1> QED BY <1>7, <1>8 DEF ScopeIInv

\* However a unit ends, its connection goes back without settings.
LEMMA EndScope ==
  ASSUME ScopeIInv, NEW u \in Units, unit[u].pc \in {"bind", "work"},
         setting' = [setting EXCEPT ![unit[u].conn] = NoSetting],
         unit' = [unit EXCEPT ![u] = IdleUnit],
         foreign' = foreign
  PROVE  ScopeIInv'
  <1> DEFINE c == unit[u].conn
  <1>1. c \in Pool /\ \A v \in Units \ {u} : Begun(v) => unit[v].conn # c
    BY DEF ScopeIInv, Exclusive, Connected, Begun
  <1>2. unit' \in [Units -> UnitRow] /\ unit'[u].pc = "idle"
        /\ \A v \in Units \ {u} : unit'[v] = unit[v]
    BY DEF ScopeIInv, ScopeTypeOK, UnitRow, IdleUnit
  <1>3. setting' \in [Pool -> SettingRow] /\ setting'[c] = NoSetting
        /\ \A q \in Pool \ {c} : setting'[q] = setting[q]
    BY <1>1 DEF ScopeIInv, ScopeTypeOK, SettingRow, NoSetting
  <1>4. ScopeTypeOK'
    BY <1>2, <1>3 DEF ScopeIInv, ScopeTypeOK
  <1>5. Exclusive' /\ Connected'
    BY <1>2 DEF ScopeIInv, Exclusive, Connected, Begun
  <1>6. Clean'
    <2> SUFFICES ASSUME NEW q \in Pool \ {c},
                        \A v \in Units : unit'[v].pc = "work" => unit'[v].conn # q
                 PROVE  setting'[q] = NoSetting
      BY <1>3 DEF Clean
    <2>1. \A v \in Units : unit[v].pc = "work" => unit[v].conn # q
      BY <1>2
    <2> QED BY <1>3, <2>1 DEF ScopeIInv, Clean
  <1>7. Bound'
    <2> SUFFICES ASSUME NEW v \in Units, unit'[v].pc = "work"
                 PROVE  setting'[unit'[v].conn].organization =
                          IF unit'[v].kind = "tenant" THEN unit'[v].tenant ELSE None
      BY DEF Bound
    <2>1. v # u /\ unit'[v] = unit[v]
      BY <1>2
    <2>2. unit[v].conn \in Pool \ {c}
      BY <1>1, <2>1 DEF ScopeIInv, Connected, Begun
    <2> QED BY <1>3, <2>1, <2>2 DEF ScopeIInv, Bound
  <1> QED BY <1>4, <1>5, <1>6, <1>7 DEF ScopeIInv

LEMMA NextScope == ScopeIInv /\ [ScopeNext]_scopeVars => ScopeIInv'
  <1> SUFFICES ASSUME ScopeIInv, [ScopeNext]_scopeVars PROVE ScopeIInv'
    OBVIOUS
  <1>1. CASE UNCHANGED scopeVars
    BY <1>1 DEF scopeVars, ScopeIInv, ScopeTypeOK, Exclusive, Connected, Clean, Bound, Begun
  <1>2. ASSUME NEW u \in Units, Commit(u) \/ Rollback(u) \/ LoseConnection(u) PROVE ScopeIInv'
    BY <1>2, EndScope DEF Commit, Rollback, LoseConnection, Returned, EndOfTransaction
  <1> QED BY <1>1, <1>2, BeginScope, BindStep, StatementScope DEF ScopeNext

(* No unit of work ever sees or writes a row of another Organization, and one  *)
(* without a tenant sees none, whatever the pool and however the units before  *)
(* it ended (infrastructure/database.py tenant_transaction, rls.py).           *)
THEOREM Isolation == ScopeSpec => []ScopeHolds
  <1>1. ScopeIInv => ScopeHolds
    BY DEF ScopeIInv, ScopeTypeOK, ScopeHolds
  <1> QED BY <1>1, InitScope, NextScope, PTL DEF ScopeSpec
=============================================================================
