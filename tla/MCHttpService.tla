----------------------------- MODULE MCHttpService -----------------------------
(* Every step of main may fail, as may reads and writes.                   *)
EXTENDS HttpService

MCFaults == {"load", "postgres", "minio", "kafka", "rabbit", "handlers", "listen",
             "jobs", "reads", "writes"}
=============================================================================
