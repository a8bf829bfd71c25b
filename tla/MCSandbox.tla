------------------------------ MODULE MCSandbox ------------------------------
(* The scenario "Single computer" up to the VM's host: a computer without  *)
(* apps on a link of the root, and a device plugged into its bus.  The     *)
(* other scenario is a link, and the test a bridge, as in stress.rs.  An   *)
(* NPC or an empty computer can be added.                                  *)
EXTENDS Panels

CONSTANTS top, a, b, c, k, l, m, o

MCUses ==
    {{"build", "clock", "browse"}, {"clock", "alerts", "open"}, {"open", "add", "remove"},
     {"adding", "add"}, {"add", "browse"}, {"adding", "browse", "open"},
     {"browse", "open", "remove", "logic"}, {"build", "open", "adding"}}

MCNames == {"world", "pc", "wifi", "ipc"}

Empty == [services |-> <<>>, apps |-> <<>>]

SingleComputer ==
    <<[is |-> "link", at |-> "world", name |-> "wifi", links |-> <<>>],
      [is |-> "computer", at |-> "world", name |-> "pc", links |-> <<"wifi">>, spec |-> Empty],
      [is |-> "device", at |-> "pc", name |-> "wifi", links |-> <<"ipc">>, kind |-> "gateway"]>>

Street ==
    <<[is |-> "link", at |-> "world", name |-> "wifi", links |-> <<>>],
      [is |-> "device", at |-> "world", name |-> "pc", links |-> <<"wifi">>, kind |-> "beacon"]>>

Bridge ==
    <<[is |-> "link", at |-> "world", name |-> "wifi", links |-> <<>>],
      [is |-> "link", at |-> "world", name |-> "ipc", links |-> <<>>],
      [is |-> "device", at |-> "world", name |-> "pc", links |-> <<"wifi", "ipc">>, kind |-> "bridge"],
      [is |-> "npc", at |-> "world", name |-> "wifi", links |-> <<"ipc">>,
       spec |-> [day |-> 2, schedule |-> <<0>>, lines |-> 1]]>>

MCPlans == {SingleComputer, Street}
MCTests == {Bridge}

MCOrders ==
    {[template |-> "npc", spec |-> [day |-> 2, schedule |-> <<0>>, lines |-> 1]],
     [template |-> "computer", spec |-> Empty]}
==============================================================================
