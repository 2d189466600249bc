----------------------------- MODULE MCRpuRpmsg -----------------------------
(***************************************************************************)
(* Settings for RpuRpmsg.                                                  *)
(***************************************************************************)
EXTENDS RpuRpmsg

CONSTANTS c1, c2

\* Firmware that makes its control device in time, and two channels.
TwoChannels == [firmware |-> {"rpmsg"}, service |-> [c \in Chans |-> c], prefix |-> {},
    chans |-> {c1, c2}, may_fail |-> {"setup"}, max_changes |-> 4, max_epts |-> 8]

\* Two channels of one service, and a channel whose name starts another's.
OneService == [TwoChannels EXCEPT !.service = [c \in Chans |-> c1],
    !.may_fail = {}, !.max_changes = 3]
StartsWith == [OneService EXCEPT !.service = [c \in Chans |-> c],
    !.prefix = {<<c1, c2>>}]

\* All kinds of firmware, which may refuse to stop.
AllKinds == [TwoChannels EXCEPT !.firmware = {"rpmsg", "late", "plain"},
    !.chans = {c1}, !.may_fail = {"stop"}, !.max_changes = 3, !.max_epts = 3]

AllSettings == {TwoChannels, OneService, StartsWith, AllKinds}
=============================================================================
