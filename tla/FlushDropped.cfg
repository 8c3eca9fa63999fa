\* The answers of a gRPC worker, one by one.
SPECIFICATION ChatSpec
INVARIANT FlushedTextIsDelivered
\* Every behaviour is one answer.
CHECK_DEADLOCK FALSE
