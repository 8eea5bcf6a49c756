------------------------------- MODULE MCServers -------------------------------
(* MCPages and IngestionTask for TLC: the statements on the task table, which *)
(* the servers and the workers issue in any order.  They share no rows with   *)
(* the pages: a behaviour has them or the steps of MCPages, by `focus`.       *)
EXTENDS MCPages, IngestionTask

serversVars == <<pagesVars, taskVars>>

(* A behaviour of statements has no account, pad or answer *)
NoPages ==
  /\ AccountsInit /\ PadsInit /\ CallsInit /\ NoAnswer
  /\ user[SeedUser] = Nothing /\ focus = "statements"

ServersInit == InitTasks /\ (Init \/ NoPages)

ServersNext ==
  \/ Next /\ UNCHANGED taskVars
  \/ focus = "statements" /\ NextTasks /\ UNCHANGED pagesVars

ServersSpec == ServersInit /\ [][ServersNext]_serversVars
=============================================================================
