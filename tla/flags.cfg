\* The functions whose checks do what their messages say.
SPECIFICATION Spec
CONSTANTS
  Op = {"open", "open_permission", "permission", "map_flags", "epoll_modify", "mq_open_create", "mq_setattr"}
  Text <- MCText
INVARIANTS TypeOK MessagesKept SaysWhatItMeans
CHECK_DEADLOCK FALSE
