---------------------------- MODULE MCAmmitJudge ----------------------------
EXTENDS AmmitJudge

CONSTANTS r1, r2, s1, s2, s3, quiet

MCRuns  == {r1, r2}
MCNames == {s1, s2, s3, quiet}

\* The actions of limits.example.yml and the defaults of the source; where
\* both only warn, one that does more.
MCAction ==
  [run |-> "stop_run", usd |-> "warn", turn_tokens |-> "warn",
   session_turns |-> "warn", spin |-> "restart_worker", retry_wait |-> "approve_report",
   turns |-> "warn", turn |-> "retry_session", request |-> "retry_session",
   item |-> "warn", phase |-> "stop_phase", laps |-> "stop_branch",
   session_age |-> "stop_run", phase_min |-> "stop_run", session |-> "retry_session"]

X(r, rule, name) == [run |-> r, rule |-> rule, name |-> name]
\* Two runs, each with names of its own: every rule, beside one that reads
\* other names of the run, that closes it, or that closes the other run.
Whole   == {X(r1, rule, Nobody) : rule \in {"ticket", "run", "usd", "turns", "turn"}}
Single  == {X(r1, rule, s1) : rule \in {"turn_tokens", "session_turns", "spin", "retry_wait", "turn", "request",
                                        "phase", "laps", "session_age", "phase_min", "session"}}
Odd     == {X(r1, "item", quiet), X(r1, "request", quiet), X(r1, "turns", Twice)}
Beside  == {X(r1, "session_turns", s2), X(r1, "request", s2), X(r1, "session", s2),
            X(r2, "turn", s3)}
MCPlans == (Whole \cup Single \cup Odd) \X Beside

\* What CommandsReachTheirOwn is proved from.
ASSUME PointedAssumption == Pointed
=============================================================================
