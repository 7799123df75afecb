-------------------------- MODULE MCHealthMonitor --------------------------
EXTENDS HealthMonitor

Usual ==
    [found |-> TRUE, enabled |-> TRUE, checks |-> <<"field">>,
     sinks |-> <<"webhook", "github_issue">>, onlyOnFailure |-> TRUE,
     targeted |-> TRUE, failRun |-> TRUE]
MCConfigs ==
    {Usual,
     [Usual EXCEPT !.checks = <<"status", "field">>, !.sinks = <<"file">>],
     [Usual EXCEPT !.sinks = <<"github_issue", "stdout">>, !.onlyOnFailure = FALSE,
                   !.failRun = FALSE],
     [Usual EXCEPT !.checks = <<"error status">>, !.targeted = FALSE,
                   !.sinks = <<"github_issue", "file", "unknown">>],
     [Usual EXCEPT !.checks = <<"status", "no url">>],
     [Usual EXCEPT !.found = FALSE],
     [Usual EXCEPT !.enabled = FALSE]}
=============================================================================
