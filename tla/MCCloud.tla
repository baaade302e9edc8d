-------------------------------- MODULE MCCloud --------------------------------
(***************************************************************************)
(* Each mix is a set of operations that interfere, and the past they need. *)
(***************************************************************************)
EXTENDS CloudService

CONSTANTS e1, e2, e3, p1, p2, s1, s2

Mix(operations, past, emails, passwords, requests) ==
  [operations |-> operations, past |-> past, emails |-> emails, passwords |-> passwords, requests |-> requests]

MCMixes ==
  {Mix({}, "empty", {}, {}, 0),
   Mix({"login", "verify", "reset"}, "resetting", {e1}, {p1, p2}, 3),
   Mix({"login", "requestReset", "reset"}, "registered", {e1}, {p1, p2}, 3),
   Mix({"login", "verify", "guess"}, "registered", {e1}, {p1}, 4),
   Mix({"login", "verify", "verifyCode"}, "mailed", {e1}, {p1}, 3),
   Mix({"login", "verify", "legacyCode", "verifyCode"}, "unlinked", {e1}, {p1}, 3),
   Mix({"login", "verify", "enroll"}, "proven", {e1}, {p1}, 3),
   Mix({"login", "legacyCode", "verifyCode", "guess"}, "orphan", {e1}, {p1}, 3),
   Mix({"legacyCode", "verifyCode", "enrollmentCode", "verifyEnrollment", "enroll"}, "legacy", {e1}, {p1, p2}, 5),
   Mix({"enrollmentCode", "verifyEnrollment", "enroll", "guess", "wait"}, "empty", {e1}, {p1, p2}, 4),
   Mix({"enroll", "requestReset", "reset", "browserStart", "browserApprove", "browserPoll"}, "proven", {e1}, {p1}, 4),
   Mix({"login", "verify", "completeChange", "hosted"}, "changing", {e1, e2}, {p1}, 3),
   Mix({"requestReset", "reset", "completeChange"}, "changing", {e1}, {p1}, 4),
   Mix({"changeEmail", "completeChange", "hosted"}, "registered", {e2}, {p1}, 4),
   Mix({"changeEmail", "completeChange", "wait"}, "registered", {e2}, {p1}, 3),
   Mix({"login", "verify", "verifyCode"}, "moved", {e2}, {p1}, 3),
   Mix({"verifyCode", "enroll"}, "moved", {e2}, {p1}, 3),
   Mix({"changeEmail", "completeChange"}, "reserved", {e1, e2}, {p1}, 3),
   Mix({"login", "verify", "completeChange", "hosted"}, "crossed", {e3}, {p1}, 3),
   Mix({"browserStart", "browserApprove", "browserPoll", "browserCancel", "requestReset", "reset", "signout"},
       "registered", {e1}, {p1}, 5)}

Ask(operations, old, jobs) == [operations |-> operations, old |-> old, jobs |-> jobs]

MCAsked ==
  {Ask({}, {}, 0),
   Ask({"checkout"}, {}, 3),
   Ask({"checkout", "event", "change"}, {}, 2),
   Ask({"event", "change"}, {s1}, 3),
   Ask({"event", "account", "change", "refund"}, {s1}, 2),
   Ask({"event", "account"}, {s1, s2}, 2)}

MCNoMix     == {Mix({}, "empty", {}, {}, 0)}
MCCheckouts == {Ask({"checkout"}, {}, 2)}
===============================================================================
