------------------------------ MODULE Dashboard ------------------------------
(***************************************************************************)
(* What the dashboard counts in a period, and what the lists of deals and  *)
(* leads show to whom, over any history of deals that are opened, moved,   *)
(* handed over, patched and deleted, of stages that are renamed or turned  *)
(* cold, and of leads and the accounts made of them.  Each widget is a     *)
(* query of its own; all of them, and the list behind a tile, are meant to *)
(* agree.                                                                  *)
(*                                                                         *)
(* Requests come one after the other here (their races are the subject of  *)
(* DealPipeline and LeadConversion), each at a moment of its own.  Stages  *)
(* nobody was ever in, tiers' edits and the owners' of leads are left out: *)
(* no query relates two of their states.  Sums of values are, too: they    *)
(* run over the rows that are counted.  So are search, sort and the        *)
(* filters on source, status, tier and account.                            *)
(***************************************************************************)
EXTENDS Integers, FiniteSets

CONSTANTS
  Deal, Lead,     (* ids of deals and of leads                             *)
  User,           (* users, who own deals and leads                        *)
  DealsViewAll,   (* users with deals.view_all                             *)
  LeadsViewAll,   (* users with leads.view_all                             *)
  Stage,          (* deal stages, of any number of companies               *)
  FirstStages,    (* their rows at the beginning                           *)
  StageRows,      (* the rows edits of stages leave in this instance       *)
  Tier, TierOf,   (* tiers, and the one of each deal, if any               *)
  DealRows,       (* the rows requests leave in this instance              *)
  MaxTime,        (* bound: moments                                        *)
  DayLength,      (* moments of a day                                      *)
  Null            (* no row, no owner, no tier, no stage                   *)

Time == 0..MaxTime
Day(t) == t \div DayLength

(* name: Closed Won, Closed Lost or any other; cold: is_cold.              *)
StageRow == [name : {"won", "lost", "open"}, cold : BOOLEAN]

(* cold: a cold_reason is recorded; at: created_at.                        *)
DealFields == [stage : Stage, owner : User, cold : BOOLEAN]
DealRow == [stage : Stage, owner : User, cold : BOOLEAN, at : Time]
LeadRow == [owner : User \cup {Null}, at : Time, converted : BOOLEAN]
MoveRow == [deal : Deal, from : Stage \cup {Null}, to : Stage, at : Time]

(* An account with a source_lead_id, and its created_at.                   *)
AccountRow == [lead : Lead, at : Time]

ASSUME DashboardAssumption ==
  /\ FirstStages \in [Stage -> StageRow] /\ StageRows \subseteq StageRow
  /\ DealsViewAll \cup LeadsViewAll \subseteq User
  /\ TierOf \in [Deal -> Tier \cup {Null}]
  /\ DealRows \subseteq DealFields
  /\ MaxTime \in Nat /\ DayLength \in Nat \ {0}
  /\ Null \notin Tier \cup User \cup Stage \cup Time \cup DealRow \cup LeadRow

VARIABLES
  time,      (* the moment of the last request                             *)
  stages,    (* deal_stages table                                          *)
  deals,     (* deals table                                                *)
  moves,     (* deal_stage_history table                                   *)
  leads,     (* leads table                                                *)
  accounts,  (* the accounts made of leads                                 *)
  unchecked  (* ghost: deals that a request without the cold-reason check  *)
             (* wrote, whose history it wrote, or whose stage was edited   *)

dashboardVars == <<time, stages, deals, moves, leads, accounts, unchecked>>

DashboardTypeOK ==
  /\ time \in Time
  /\ stages \in [Stage -> StageRow]
  /\ deals \in [Deal -> DealRow \cup {Null}]
  /\ moves \subseteq MoveRow
  /\ leads \in [Lead -> LeadRow \cup {Null}]
  /\ accounts \subseteq AccountRow
  /\ unchecked \subseteq Deal

DashboardInit ==
  /\ time = 0
  /\ stages = FirstStages
  /\ deals = [d \in Deal |-> Null]
  /\ moves = {}
  /\ leads = [l \in Lead |-> Null]
  /\ accounts = {}
  /\ unchecked = {}
-----------------------------------------------------------------------------
Stored(table) == {x \in DOMAIN table : table[x] # Null}

Pass == time < MaxTime /\ time' = time + 1

(* _get_deal_or_raise                                                      *)
MayOpenDeal(u, d) ==
  d \in Stored(deals) /\ (u \in DealsViewAll \/ deals[d].owner = u)

(* _check_lead_access: also everybody for a lead nobody owns.              *)
MayOpenLead(u, l) ==
  l \in Stored(leads) /\ (u \in LeadsViewAll \/ leads[l].owner \in {u, Null})

(* is_terminal_stage and its parts                                         *)
Won == {s \in Stage : stages[s].name = "won"}
ColdOrLost == {s \in Stage : stages[s].cold \/ stages[s].name = "lost"}
Terminal == ColdOrLost \cup Won

(* A deal is written; a new stage leaves a history row, whichever door the *)
(* move came through.                                                      *)
WriteDeal(d, row, from, created) ==
  /\ Pass
  /\ deals' = [deals EXCEPT ![d] = [stage |-> row.stage, owner |-> row.owner,
                                    cold |-> row.cold, at |-> created]]
  /\ moves' = IF row.stage = from THEN moves
              ELSE moves \cup {[deal |-> d, from |-> from, to |-> row.stage, at |-> time']}
  /\ UNCHANGED <<stages, leads, accounts>>

(* Nothing happens for a while.                                            *)
PassTime == Pass /\ UNCHANGED <<stages, deals, moves, leads, accounts, unchecked>>

(* create_deal and its first history row                                   *)
OpenDeal(d, row) ==
  /\ d \notin Stored(deals)
  /\ row.stage \in ColdOrLost => row.cold
  /\ WriteDeal(d, row, Null, time')
  /\ unchecked' = unchecked \ {d}

(* update_deal                                                             *)
UpdateDeal(u, d, row) ==
  /\ MayOpenDeal(u, d)
  /\ row.stage \in ColdOrLost => row.cold
  /\ WriteDeal(d, row, deals[d].stage, deals[d].at)
  /\ UNCHANGED unchecked

(* generic_patch of a deal's stage_id, cold_reason or owner_id: whoever    *)
(* holds the permission, and without the check.                            *)
PatchDeal(d, row) ==
  /\ d \in Stored(deals)
  /\ Cardinality({f \in {"stage", "owner", "cold"} : row[f] # deals[d][f]}) = 1
  /\ WriteDeal(d, row, deals[d].stage, deals[d].at)
  /\ unchecked' = IF row.owner = deals[d].owner THEN unchecked \cup {d} ELSE unchecked

(* generic_patch of a history row's deal_id, from_stage_id or to_stage_id; *)
(* a created_at in the request is no timestamp to the database.            *)
PatchMove(m, row) ==
  /\ row.at = m.at /\ row.deal \in Stored(deals)
  /\ Cardinality({f \in {"deal", "from", "to"} : row[f] # m[f]}) = 1
  /\ Pass
  /\ moves' = (moves \ {m}) \cup {row}
  /\ unchecked' = unchecked \cup {m.deal, row.deal}
  /\ UNCHANGED <<stages, deals, leads, accounts>>

(* update_deal_stage, and generic_patch of a stage's name or is_cold, with *)
(* deals in the stage or not                                               *)
UpdateStage(s, row) ==
  /\ row # stages[s]
  /\ Pass
  /\ stages' = [stages EXCEPT ![s] = row]
  /\ unchecked' = unchecked \cup {d \in Stored(deals) : deals[d].stage = s}
  /\ UNCHANGED <<deals, moves, leads, accounts>>

(* delete_deal                                                             *)
DropDeal(u, d) ==
  /\ MayOpenDeal(u, d)
  /\ Pass
  /\ deals' = [deals EXCEPT ![d] = Null]
  /\ moves' = {m \in moves : m.deal # d}
  /\ UNCHANGED <<stages, leads, accounts, unchecked>>

EnterLead(l, o) ==
  /\ l \notin Stored(leads)
  /\ Pass
  /\ leads' = [leads EXCEPT ![l] = [owner |-> o, at |-> time', converted |-> FALSE]]
  /\ UNCHANGED <<stages, deals, moves, accounts, unchecked>>

(* convert_lead_to_account                                                 *)
ConvertToAccount(u, l) ==
  /\ MayOpenLead(u, l) /\ ~leads[l].converted
  /\ Pass
  /\ leads' = [leads EXCEPT ![l].converted = TRUE]
  /\ accounts' = accounts \cup {[lead |-> l, at |-> time']}
  /\ UNCHANGED <<stages, deals, moves, unchecked>>

(* Two conversions that overlap: both found the lead unconverted.          *)
ConvertTwice(u, v, l) ==
  /\ MayOpenLead(u, l) /\ MayOpenLead(v, l) /\ ~leads[l].converted
  /\ time + 2 <= MaxTime /\ time' = time + 2
  /\ leads' = [leads EXCEPT ![l].converted = TRUE]
  /\ accounts' = accounts \cup {[lead |-> l, at |-> time + 1], [lead |-> l, at |-> time']}
  /\ UNCHANGED <<stages, deals, moves, unchecked>>

(* delete_account; the lead stays converted.                               *)
DropAccount(a) ==
  /\ Pass
  /\ accounts' = accounts \ {a}
  /\ UNCHANGED <<stages, deals, moves, leads, unchecked>>

(* delete_lead, which the foreign key of an account refuses                *)
DropLead(u, l) ==
  /\ MayOpenLead(u, l)
  /\ \A a \in accounts : a.lead # l
  /\ Pass
  /\ leads' = [leads EXCEPT ![l] = Null]
  /\ UNCHANGED <<stages, deals, moves, accounts, unchecked>>

DashboardNext ==
  \/ PassTime
  \/ \E d \in Deal, row \in DealRows :
       \/ OpenDeal(d, row)
       \/ \E u \in User : UpdateDeal(u, d, row)
       \/ PatchDeal(d, row)
  \/ \E m \in moves, row \in MoveRow : PatchMove(m, row)
  \/ \E s \in Stage, row \in StageRows : UpdateStage(s, row)
  \/ \E u \in User, d \in Deal : DropDeal(u, d)
  \/ \E l \in Lead, o \in User \cup {Null} : EnterLead(l, o)
  \/ \E u \in User, l \in Lead :
       \/ ConvertToAccount(u, l)
       \/ \E v \in User : ConvertTwice(u, v, l)
       \/ DropLead(u, l)
  \/ \E a \in accounts : DropAccount(a)

DashboardSpec == DashboardInit /\ [][DashboardNext]_dashboardVars
-----------------------------------------------------------------------------
(* Periods                                                                 *)

(* _period_bounds: the period, and the one of the same length before it;   *)
(* this_week and this_month are periods that end today.                    *)
PeriodBounds(lo, hi) ==
  LET length == hi - lo + 1
      prevHi == lo - 1
  IN  [lo |-> lo, hi |-> hi, prevLo |-> prevHi - (length - 1), prevHi |-> prevHi]

(* created_at >= lo and created_at < hi + one day, dates as midnights      *)
Within(t, lo, hi) == t >= lo * DayLength /\ t < (hi + 1) * DayLength

(* mutant of EntriesCounted: any entry into the stage, not the latest      *)
EntriesAny(d) ==
  {m \in moves : m.deal = d /\ m.to = deals[d].stage}

(* _latest_entry_into_current_stage                                        *)
EntriesCounted(d) ==
  LET entries == {m \in moves : m.deal = d /\ m.to = deals[d].stage}
  IN  {m \in entries : \A n \in entries : n.at <= m.at}

(* entered_current_stage_in                                                *)
EnteredIn(d, lo, hi) == \E m \in EntriesCounted(d) : Within(m.at, lo, hi)

Entered(lo, hi) == {d \in Stored(deals) : EnteredIn(d, lo, hi)}
-----------------------------------------------------------------------------
(* Widgets                                                                 *)

(* get_funnel and get_leaderboard: a bar for every stage, one for every    *)
(* owner of a won deal.                                                    *)
Funnel(lo, hi) ==
  [s \in Stage |-> Cardinality({d \in Entered(lo, hi) : deals[d].stage = s})]
Leaderboard(lo, hi) ==
  LET won == {d \in Entered(lo, hi) : deals[d].stage \in Won}
  IN  [o \in {deals[d].owner : d \in won} |-> Cardinality({d \in won : deals[d].owner = o})]

(* get_deal_distribution: deals without a tier are "Unassigned".           *)
Distribution(lo, hi) ==
  [t \in Tier \cup {Null} |-> Cardinality({d \in Entered(lo, hi) : TierOf[d] = t})]

(* _count_deals_in_pipeline, _count_deals_closed                           *)
DealsInPipeline(lo, hi) ==
  Cardinality({d \in Stored(deals) : deals[d].stage \notin Terminal /\ EnteredIn(d, lo, hi)})
DealsClosed(lo, hi) ==
  Cardinality({d \in Stored(deals) : deals[d].stage \in Won /\ EnteredIn(d, lo, hi)})

(* get_drop_off_reasons: a row for each lost deal that has a reason, with  *)
(* the stage it was lost from and when, by the outer join of the latest    *)
(* move into the stage: a deal without one is dated by its creation.       *)
LostRows(d) ==
  IF EntriesCounted(d) = {}
  THEN {[deal |-> d, lostFrom |-> Null, at |-> deals[d].at]}
  ELSE {[deal |-> d, lostFrom |-> m.from, at |-> m.at] : m \in EntriesCounted(d)}

DropOff(lo, hi) ==
  LET lost == {d \in Stored(deals) : deals[d].cold /\ deals[d].stage \in ColdOrLost}
  IN  {r \in UNION {LostRows(d) : d \in lost} : Within(r.at, lo, hi)}

(* _count_leads, _count_leads_converted                                    *)
LeadsGenerated(lo, hi) ==
  Cardinality({l \in Stored(leads) : Within(leads[l].at, lo, hi)})
LeadsToAccounts(lo, hi) ==
  Cardinality({a \in accounts : Within(a.at, lo, hi)})

(* get_conversion_trend: both counts for each bucket of days that has any. *)
Trend(lo, hi, days) ==
  LET bucket(t) == Day(t) \div days
      made == {l \in Stored(leads) : Within(leads[l].at, lo, hi)}
      turned == {a \in accounts : Within(a.at, lo, hi)}
  IN  [b \in {bucket(leads[l].at) : l \in made} \cup {bucket(a.at) : a \in turned} |->
         [created |-> Cardinality({l \in made : bucket(leads[l].at) = b}),
          converted |-> Cardinality({a \in turned : bucket(a.at) = b})]]
-----------------------------------------------------------------------------
(* Lists                                                                   *)

(* _deal_filters; owner Null: no such filter.                              *)
DealFilter(u, owner, d, state) ==
  LET wanted == IF u \in DealsViewAll THEN owner ELSE u
  IN  /\ wanted # Null => deals[d].owner = wanted
      /\ state = "open" => deals[d].stage \notin Terminal
      /\ state = "closed" => deals[d].stage \in Terminal

ListDeals(u, state) == {d \in Stored(deals) : DealFilter(u, Null, d, state)}

(* list_deals with date_field=closed_at                                    *)
ListDealsIn(u, state, lo, hi) ==
  {d \in Stored(deals) : DealFilter(u, Null, d, state) /\ EnteredIn(d, lo, hi)}

(* list_deals_board: a column for every stage that has a deal to show.     *)
Board(u) ==
  LET shown == {d \in Stored(deals) : DealFilter(u, Null, d, "all")}
  IN  [s \in {deals[d].stage : d \in shown} |-> {d \in shown : deals[d].stage = s}]

(* mutant of ListLeads: without the leads nobody owns                      *)
ListLeadsOwned(u) ==
  {l \in Stored(leads) : ~leads[l].converted
                         /\ (u \in LeadsViewAll \/ leads[l].owner = u)}

(* list_leads and export_leads                                             *)
ListLeads(u) ==
  {l \in Stored(leads) : ~leads[l].converted
                         /\ (u \in LeadsViewAll \/ leads[l].owner \in {u, Null})}
-----------------------------------------------------------------------------
(* Properties                                                              *)

(* The sum of the bars of a chart: as many units as the bars are long.     *)
Total(f) == Cardinality(UNION {{x} \X (1..f[x]) : x \in DOMAIN f})
Days == 0..Day(time)

(* Every widget counts the same deals: in any period the tiles are sums of *)
(* bars of the funnel, the leaderboard adds up to the deals won and the    *)
(* distribution to the list behind it, the trend adds up to the tiles of   *)
(* leads, a lost deal is listed once at most, and unless a request without *)
(* the check touched it, exactly when a bar counts it; and a deal counts   *)
(* in one of two consecutive periods, never in both.                       *)
WidgetsAgree ==
  \A lo \in Days, hi \in Days : lo <= hi =>
    LET funnel == Funnel(lo, hi)
        p == PeriodBounds(lo, hi)
        lost == DropOff(lo, hi)
    IN  /\ DealsInPipeline(lo, hi) = Total([s \in Stage \ Terminal |-> funnel[s]])
        /\ DealsClosed(lo, hi) = Total([s \in Won |-> funnel[s]])
        /\ DealsClosed(lo, hi) = Total(Leaderboard(lo, hi))
        /\ \A r, q \in lost : r.deal = q.deal => r = q
        /\ \A d \in Stored(deals) \ unchecked :
             (\E r \in lost : r.deal = d)
               <=> d \in Entered(lo, hi) /\ deals[d].stage \in ColdOrLost
        /\ \A u \in DealsViewAll :
             /\ Cardinality(ListDealsIn(u, "all", lo, hi)) = Total(Distribution(lo, hi))
             /\ Cardinality(ListDealsIn(u, "open", lo, hi)) = DealsInPipeline(lo, hi)
        /\ \A days \in 1..2 :
             LET trend == Trend(lo, hi, days)
             IN  /\ Total([b \in DOMAIN trend |-> trend[b].created]) = LeadsGenerated(lo, hi)
                 /\ Total([b \in DOMAIN trend |-> trend[b].converted]) = LeadsToAccounts(lo, hi)
        /\ Entered(p.lo, p.hi) \cap Entered(p.prevLo, p.prevHi) = {}
        /\ Entered(p.lo, p.hi) \cup Entered(p.prevLo, p.prevHi) = Entered(p.prevLo, p.hi)

(* A list holds what its reader may open: every deal of the list and of    *)
(* the board, in the column of its stage and no other; and every lead that *)
(* is not converted.                                                       *)
ListsMatchAccess ==
  \A u \in User :
    LET openable == {d \in Deal : MayOpenDeal(u, d)}
    IN  /\ ListDeals(u, "all") = openable
        /\ ListDeals(u, "open") \cup ListDeals(u, "closed") = openable
        /\ ListDeals(u, "open") \cap ListDeals(u, "closed") = {}
        /\ UNION {Board(u)[s] : s \in DOMAIN Board(u)} = openable
        /\ \A s \in DOMAIN Board(u) : Board(u)[s] # {}
        /\ ListLeads(u) = {l \in Lead : MayOpenLead(u, l) /\ ~leads[l].converted}
=============================================================================
