---------------------------- MODULE MCExecutor ----------------------------
(* A small instance of the executor over the capability engine for TLC:    *)
(* a plan with a plain and a destructive step, another plan, and requests  *)
(* that are granted, too wide, of half a use, or without an envelope.  The *)
(* two counters are written like 1 and 11 and the steps' ids are "s" and   *)
(* "s1", so that identifiers can meet; one file is called "execute" and    *)
(* one "read".                                                             *)
EXTENDS Executor, TLC

CONSTANTS p1, p2, s1, s2, s3, a, up, dot, exe, rd, wr, del, mem

MCPlans == {p1, p2}
MCSteps == {s1, s2, s3}
MCPaths == {a, up, dot, exe, rd}
MCDigest == (p1 :> "d") @@ (p2 :> "e")
MCText == (s1 :> <<"s">>) @@ (s2 :> <<"s", "1">>) @@ (s3 :> <<"s">>)
MCNumeral == <<<<"1">>, <<"1", "1">>>>
MCLower == ("READ" :> rd) @@ ("WRITE" :> wr) @@ ("DELETE" :> del) @@ ("EXECUTE" :> exe)
MCPlanSteps == (p1 :> {s1, s2}) @@ (p2 :> {s3})
MCStepFiles == (s1 :> {a, up}) @@ (s2 :> {dot}) @@ (s3 :> {a, up, exe})
MCStepLimits == (s1 :> NoLimits) @@ (s2 :> (mem :> 4)) @@ (s3 :> NoLimits)
MCCeiling == mem :> 3
MCFloor == mem :> 1

Req(plan, step, paths, ops, uses, limits) ==
    [plan |-> plan, stepId |-> step, paths |-> paths, operations |-> ops,
     uses |-> uses, expiresAtUnix |-> 1, limits |-> limits,
     approverNamed |-> TRUE, grantedAtUnix |-> 0, approvalExpiresAtUnix |-> 1]

MCRequests ==
    { Req(p1, s1, <<a>>, <<"READ", "WRITE">>, 2, NoLimits),
      Req(p1, s1, <<a>>, <<"WRITE">>, 3, NoLimits),          \* a use and a half
      Req(p1, s1, <<up>>, <<"WRITE">>, 2, NoLimits),         \* leaves the workspace
      Req(p1, s1, <<rd>>, <<"WRITE">>, 2, NoLimits),         \* not a file of the step
      Req(p1, s1, <<a>>, <<"RENAME">>, 2, NoLimits),         \* not an operation
      Req(p1, s2, <<dot>>, <<"EXECUTE">>, 2, mem :> 3),
      Req(p1, s2, <<dot>>, <<"EXECUTE">>, 2, mem :> 4),      \* over the ceiling
      Req(p1, s2, <<dot>>, <<"EXECUTE">>, 2, NoLimits),      \* no envelope
      Req(p2, s3, <<a, exe>>, <<"WRITE">>, 2, NoLimits),     \* a file named execute
      [Req(p2, s3, <<a>>, <<"WRITE">>, 2, NoLimits) EXCEPT !.expiresAtUnix = 2] }

Act(kind, path, name) == [kind |-> kind, path |-> path, name |-> name]

MCJobs ==
    { [plan |-> p1, actions |-> <<Act("WRITE", a, ""), Act("EXECUTE", dot, "t")>>,
       wholeWorkspace |-> TRUE, sandboxEnabled |-> TRUE, diffMustTouch |-> {a},
       expectedToPass |-> {}, expectedToFail |-> {}] }
============================================================================
