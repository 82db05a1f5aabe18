------------------------------ MODULE MCMetrics ------------------------------
(* Six workloads: a click after its install, with revenue and corrected spend; *)
(* a session; a replayed click and spend in another currency; revenue without  *)
(* a rate; a deep link and postbacks; two revenues that round to nothing.      *)
EXTENDS Metrics

Blank == [id |-> 0, event |-> "click", at |-> 0, received |-> 0, installation |-> None,
          click |-> "none", replayed |-> FALSE, campaign |-> "A", amount |-> 0, unit |-> 10,
          currency |-> "USD", valid |-> TRUE, bucket |-> None]
click == [Blank EXCEPT !.id = 1, !.click = "c", !.received = 1]
replayed == [click EXCEPT !.replayed = TRUE]
lateClick == [click EXCEPT !.received = 3]
install == [Blank EXCEPT !.id = 2, !.event = "install", !.at = 1, !.received = 1,
                         !.installation = "X", !.click = "c"]
other == [install EXCEPT !.id = 3, !.at = 1, !.received = 2, !.installation = "Y",
                         !.click = "d", !.campaign = "B"]
session == [Blank EXCEPT !.id = 4, !.event = "session_start", !.at = 3, !.received = 3, !.installation = "X"]
revenue == [Blank EXCEPT !.id = 5, !.event = "ad_revenue", !.at = 2, !.received = 2,
                         !.installation = "X", !.amount = 15]
small == [revenue EXCEPT !.amount = 5]
small2 == [small EXCEPT !.id = 6, !.at = 1, !.received = 3]
foreign == [revenue EXCEPT !.id = 7, !.installation = "Y", !.currency = "EUR"]
open == [Blank EXCEPT !.id = 8, !.event = "deep_link_open", !.at = 1, !.received = 1, !.installation = "X"]
postback == [Blank EXCEPT !.id = 9, !.event = "skan_postback", !.received = 1, !.bucket = "fine:1"]
lost == [postback EXCEPT !.id = 10, !.valid = FALSE, !.received = 2]

spend == [id |-> 1, dims |-> "k", date |-> 0, campaign |-> "A", as_of |-> 1, spend |-> 4, unit |-> 1, currency |-> "USD"]
respend == [spend EXCEPT !.id = 2, !.as_of = 2, !.spend = 8]
nextDay == [spend EXCEPT !.id = 3, !.date = 1, !.spend = 2]
foreignSpend == [spend EXCEPT !.id = 4, !.dims = "l", !.campaign = "B", !.currency = "EUR"]
MCWorkloads ==
    {[records |-> {lateClick, install, revenue}, reports |-> {{spend, nextDay}, {respend}}],
     [records |-> {click, install, session, other}, reports |-> {}],
     [records |-> {replayed, install, other}, reports |-> {{foreignSpend}}],
     [records |-> {install, other, foreign}, reports |-> {}],
     [records |-> {open, postback, lost}, reports |-> {}],
     [records |-> {install, small, small2}, reports |-> {{spend}}]}

Cohorts(calculation, day) ==
    [calculation |-> calculation, window |-> "elapsed", day |-> day, zone |-> 0,
     policy |-> "gross", event |-> None]
Daily(event) ==
    [calculation |-> "event_count", window |-> "calendar_day", day |-> 0, zone |-> 0,
     policy |-> "gross", event |-> event]
CohortNames == {"d0_revenue", "d0_roas", "cohort_ltv_d1_usd", "retention_d1", "cohort_install_count", "net_install_count"}
DailyNames == {"daily_install_count", "daily_install_count_net", "daily_deep_link_opens_by_status"}
MCDefinitions ==
    [name \in CohortNames \cup DailyNames \cup AggregateNames \cup {"daily_click_count"} |->
        CASE name = "d0_revenue" -> Cohorts("revenue_sum", 0)
          [] name = "d0_roas" -> Cohorts("revenue_over_cost", 0)
          [] name = "cohort_ltv_d1_usd" -> Cohorts("revenue_over_cohort", 1)
          [] name = "retention_d1" -> Cohorts("active_installations_over_cohort", 1)
          [] name = "cohort_install_count" -> Cohorts("cohort_size", 0)
          [] name = "net_install_count" -> [Cohorts("cohort_size", 0) EXCEPT !.policy = "net"]
          [] name = "daily_click_count" -> Daily("click")
          [] name = "daily_install_count" -> Daily("install")
          [] name = "daily_install_count_net" -> [Daily("install") EXCEPT !.policy = "net", !.zone = 1]
          [] name = "daily_deep_link_opens_by_status" -> Daily("deep_link_open")
          [] OTHER -> Daily("skan_postback")]

Ask(names) ==
    [names |-> names, campaign |-> None, cohort_date |-> NoDate, metric_date |-> NoDate, status |-> None,
     bucket |-> None, watermark |-> 2, privacy |-> "before"]
CohortAsk == [Ask(CohortNames) EXCEPT !.cohort_date = 0]
InstallAsk == [Ask(DailyNames) EXCEPT !.metric_date = 0, !.status = "non_organic"]
MCEvaluations ==
    {[CohortAsk EXCEPT !.cohort_date = NoDate],
     [CohortAsk EXCEPT !.privacy = "after", !.watermark = 3],
     [CohortAsk EXCEPT !.campaign = "A", !.status = "non_organic", !.watermark = 3],
     InstallAsk, [InstallAsk EXCEPT !.status = "unattributed", !.privacy = "after", !.watermark = 1],
     [InstallAsk EXCEPT !.status = None, !.names = @ \cup {"daily_click_count"}, !.campaign = "A"],
     [Ask({"skan_attributed_installs"}) EXCEPT !.metric_date = 0, !.watermark = 1],
     [Ask({"skan_conversion_value_distribution"}) EXCEPT !.metric_date = 0, !.bucket = "fine:1"]}
MCRates == [c \in {"USD"} |-> 1]
=============================================================================
