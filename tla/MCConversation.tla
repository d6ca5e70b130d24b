--------------------------- MODULE MCConversation ---------------------------
(* Channels of capacity one, in four setups. Chat: two messages and a ping, so *)
(* that the second message waits in a full channel and a ping and a message    *)
(* take the slot from each other. Restarts: two panics, so that up to three    *)
(* read loops share the input of two messages. Network: Telegram, whose sends  *)
(* fail, with a recorder that fails and a panic. Dormant: nobody reads the     *)
(* outbound channel, and of two pings the second gets stuck on it. All but the *)
(* first may be shut down at any moment.                                       *)
EXTENDS Conversation

Chat == [transport |-> "cli", recorderFails |-> FALSE,
         msgs |-> 2, pings |-> 1, panics |-> 0, drained |-> FALSE]
Restarts == [transport |-> "cli", recorderFails |-> FALSE,
             msgs |-> 2, pings |-> 0, panics |-> 2, drained |-> TRUE]
Network == [transport |-> "telegram", recorderFails |-> TRUE,
            msgs |-> 1, pings |-> 1, panics |-> 1, drained |-> TRUE]
Dormant == [transport |-> "dormant", recorderFails |-> FALSE,
            msgs |-> 0, pings |-> 2, panics |-> 0, drained |-> TRUE]

MCSetups == {Chat, Restarts, Network, Dormant}
==============================================================================
