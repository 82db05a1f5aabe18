----------------------------- MODULE MCSdkInbox -----------------------------
(* Instances of SdkInbox for TLC: the bodies senders may post.             *)
EXTENDS SdkInbox

\* One record of a body.  token: an install with an AdServices token;
\* inWindow: a click within seven days before the install.
MCRecord(event, kind, payload, click, token, inWindow) ==
    [event |-> event, kind |-> kind, payload |-> payload,
     click |-> click, token |-> token, inWindow |-> inWindow]

MCInstall == MCRecord("e_install", "install", "p1", "c1", TRUE, FALSE)
MCSecondInstall == MCRecord("e_install2", "install", "p1", NoClick, FALSE, FALSE)
MCCustom == MCRecord("e_custom", "custom", "p1", NoClick, FALSE, FALSE)
MCCustomChanged == MCRecord("e_custom", "custom", "p2", NoClick, FALSE, FALSE)
MCWithdraw == MCRecord("e_withdraw", "withdrawal", "p1", NoClick, FALSE, FALSE)
MCClick == MCRecord("e_click", "click", "p1", "c1", FALSE, TRUE)
MCExpiredClick == MCRecord("e_click2", "click", "p1", "c1", FALSE, FALSE)
MCInvalid == MCRecord("e_custom", "schema_invalid", "p3", NoClick, FALSE, FALSE)

MCSdk(recs) == [inst |-> "i1", recs |-> recs]
MCRedirector(recs) == [inst |-> NoInstallation, recs |-> recs]

\* Installs, their click, resends and the events around them.
MCAttributionBodies ==
    {MCSdk(<<MCInstall>>), MCSdk(<<MCInstall, MCCustom>>),
     MCRedirector(<<MCClick>>), MCRedirector(<<MCExpiredClick>>)}

\* Bodies that fail the drain they are in, two installs of one installation, and
\* withdrawals among events of the same installation.
MCFailureBodies ==
    {MCSdk(<<MCInstall>>), MCSdk(<<MCSecondInstall, MCInvalid>>),
     MCSdk(<<MCWithdraw, MCCustom>>), MCSdk(<<MCCustom>>), MCSdk(<<MCCustomChanged, MCWithdraw>>)}

\* The bodies meet the assumption under which AcceptedIsLogical is proved.
ASSUME MCResent == EventsAreResent
=============================================================================
