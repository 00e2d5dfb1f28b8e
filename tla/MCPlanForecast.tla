--------------------------- MODULE MCPlanForecast ---------------------------
EXTENDS PlanForecast

MCTasks == 1..3
MCMilestones == {"m1", "m2"}
MCMilestoneOf == <<"m1", "m1", "m2">>
MCTarget == [m \in MCMilestones |-> IF m = "m1" THEN 4 ELSE 3]

\* The third task is Critical by itself and is placed before the others
F(n) == [mvp_necessity |-> n, deadline_urgency |-> n, user_value |-> n,
         risk_reduction |-> n, user_preference |-> n]
MCFactors == <<F(40), F(40), F(100)>>
MCStreams == <<{"ui"}, {"ui", "api"}, {"api"}>>

\* Every wrong dependency and every wrong pair of them (0 is no task), the two
\* circles through all three tasks, a circle behind a good dependency; none, some
\* one and all three good ones.  Other good pairs come about by an edit.
Ends == {<<1, 2>>, <<2, 3>>, <<1, 3>>, <<2, 1>>, <<3, 1>>, <<2, 2>>, <<0, 1>>, <<3, 0>>}
Lists ==
  {<<>>, <<<<1, 2>>, <<2, 3>>, <<3, 1>>>>, <<<<3, 2>>, <<2, 1>>, <<1, 3>>>>,
   <<<<1, 2>>, <<2, 3>>, <<3, 2>>>>, <<<<1, 2>>, <<1, 3>>, <<2, 3>>>>}
  \cup {<<e>> : e \in Ends \ {<<1, 3>>, <<3, 1>>}}
  \cup {p \in {<<e, f>> : e, f \in Ends} :
          4 * p[1][1] + p[1][2] <= 4 * p[2][1] + p[2][2] /\ GraphError(MCTasks, p) # None}
MCCandidates ==
  [list : Lists, effort : {<<4, 12, 8>>}]

\* Weekdays, a shorter week of the project's own with two tasks a day and a
\* holiday, and a calendar that ends
Own(hours, to, parallel) ==
  [hours |-> [d \in 0..6 |-> IF d \in 0..4 THEN hours ELSE 0], holidays |-> {1},
   from |-> None, to |-> to, parallel |-> parallel]
Set(deadline, weekly, team, cal) ==
  [start |-> 0, deadline |-> deadline, weekly |-> weekly, team |-> team, calendar |-> cal]
MCProjects ==
  {Set(3, 40, 1, None), Set(None, 60, 2, Own(8, None, 2)), Set(5, 40, 1, Own(8, 3, 2))}
MCOverrides == {[task |-> 2, effort |-> 4, weekly |-> 40], [task |-> 3, effort |-> 16, weekly |-> 20]}
=============================================================================
