------------------------- MODULE MCServiceConsumer -------------------------
(* Two messages: two jobs, or one job that is delivered twice.  The jobs are  *)
(* one of two tasks with two delays, one behind the delay switch, and one     *)
(* with its own success statuses whose delays are too long and not usable.    *)
EXTENDS ServiceConsumer

AJob(n, ds, q, c) == [tasks |-> n, delays |-> ds, queue |-> q, custom |-> c, mode |-> "SEQ"]

MCJobs == {AJob(2, <<1, 2>>, "service", FALSE),
           AJob(1, <<1>>, "delayed", FALSE),
           AJob(1, <<3, 0, 1>>, "wms", TRUE)}

OneJob == {AJob(2, <<1, 1>>, "service", FALSE)}
=============================================================================
