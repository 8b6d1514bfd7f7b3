----------------------------- MODULE MCAdmission -----------------------------
(* Admission on small instances.                                           *)
EXTENDS Admission

Config(scene, sessions, others, maxStreams, routing, dynamic, warm) ==
  [scene |-> scene, sessions |-> sessions, others |-> others, maxStreams |-> maxStreams,
   routing |-> routing, dynamic |-> dynamic, ttl |-> IF dynamic THEN 1 ELSE 0,
   calls |-> IF dynamic THEN {CHOOSE c \in Calls : TRUE} ELSE Calls,
   dcsf |-> ~dynamic, warm |-> warm]

(* Calls at the thresholds of admission: one fits and two are a crowd, for *)
(* sessions and then for streams, nobody is let in, one is a crowd; then   *)
(* with the NullDialer and with workers that come and go.                  *)
MCConfigs ==
  {Config("fleet", 0, 0, 0, FALSE, FALSE, FALSE),
   Config("watch", 0, 0, 0, TRUE, FALSE, FALSE),
   Config("calls", 17, 35, 40, TRUE, FALSE, FALSE),
   Config("calls", 0, 37, 40, TRUE, FALSE, FALSE),
   Config("calls", 19, 0, 40, TRUE, FALSE, FALSE),
   Config("calls", 0, 9, 10, TRUE, FALSE, TRUE),
   Config("calls", 0, 0, 0, FALSE, FALSE, FALSE),
   Config("calls", 0, 0, 40, TRUE, TRUE, TRUE)}

Worker(languages, tasks, max, gpu) ==
  [languages |-> languages, tasks |-> tasks, max |-> max, gpu |-> gpu]

MCStatic == Worker({}, {}, 0, 0)

MCWorkers == {MCStatic, Worker({"vi"}, {}, 2, 0), Worker({"*"}, {"stt"}, 0, 50)}

MCRequests == {[language |-> "vi", task |-> t] : t \in {"stt", "translate"}}
=============================================================================
