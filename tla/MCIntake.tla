------------------------------ MODULE MCIntake ------------------------------
(* Intake for TLC.                                                         *)
EXTENDS Intake

FiveClasses ==
  <<CustomerIoCampaignSignupQ, FetchQ, GambitCampaignSignupRelayQ,
    QuasarCustomerIoEmailActivityQ, QuasarCustomerIoEmailUnsubscribedQ>>

\* The run takes five handlers and five queues; the table of all thirteen
\* queues against all fourteen handlers needs no behaviours: each handler's
\* route matches the routes of just the queues it is meant for.
ASSUME AllRoutesReach ==
  \A h \in AllHandlers :
    {c.name : c \in {d \in ToSet(AllClasses) :
                       \E route \in ToSet(d.routes) : Matches(route, h.route)}}
      = MeantFor[h.name]
=============================================================================
