----------------------------- MODULE MCRedirect -----------------------------
(***************************************************************************)
(* The profile and its lookups (Profile), and a redirect, which starts     *)
(* from the outbound that a lookup found (Redirect), side by side: in a    *)
(* behaviour one of them takes its steps and the other stands still, the   *)
(* redirect at its end.                                                    *)
(***************************************************************************)
EXTENDS Redirect, Profile

VARIABLE component

MCOutbound == {"o1", "o2"}
\* No hint at all, and every way a request is handled.
HintSets == {{}, {"NOTCP"}, {"OOB", "MOVE"}, {"STRIP", "TLS1_3"}, {"OTHER"}}
\* No fallback, or a chain; the names under one rule, or one of them under another or
\* under none; an entry of Nose with the outbound of its rule, of another, or without.
MCProfiles ==
  {[Hint |-> h, Fallback |-> f, rule |-> r, ipRule |-> "o1",
    Nose |-> {[Name |-> "d2", Interface |-> "o2"]}] :
     h \in [MCOutbound -> HintSets],
     f \in {[o1 |-> Nil, o2 |-> Nil], [o1 |-> "o2", o2 |-> Nil]},
     r \in {[d1 |-> "o1", d2 |-> "o1"], [d1 |-> "o1", d2 |-> "o2"]}}
  \cup {[Hint |-> [o1 |-> {"OTHER"}, o2 |-> {}], Fallback |-> [o1 |-> Nil, o2 |-> Nil],
         rule |-> [d1 |-> "o1", d2 |-> x], ipRule |-> Nil,
         Nose |-> {[Name |-> d, Interface |-> Nil] : d \in {"d1", "d2"}}] : x \in {"o2", Nil}}
\* Prefixes of three bits, and one that is too long.
MCLengths == {0, 1, 2, 4, 8}

RedirectStill ==
  /\ config = CHOOSE c \in Profiles : TRUE
  /\ pc = "done" /\ client = FALSE
  /\ byName = FALSE /\ domain = Nil /\ lie = Nil /\ outbound = Nil /\ hello = Nil /\ given = FALSE
  /\ retry = Retries /\ conn = 0 /\ info = FALSE /\ dialed = 0 /\ open = {}
  /\ kept = FALSE /\ copies = [x \in Directions |-> "none"] /\ errch = 0
  /\ ended = {} /\ left = {}

MCInit ==
  /\ ProfileInit
  /\ \/ component = "redirect" /\ RedirectInit
     \/ component = "profile" /\ RedirectStill

MCNext ==
  /\ UNCHANGED component
  /\ \/ component = "redirect" /\ RedirectNext /\ UNCHANGED profileVars
     \/ component = "profile" /\ ProfileNext /\ UNCHANGED redirectVars

MCSpec == MCInit /\ [][MCNext]_<<component, redirectVars, profileVars>> /\ Fairness
=============================================================================
