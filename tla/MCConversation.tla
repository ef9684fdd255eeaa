--------------------------- MODULE MCConversation ---------------------------
EXTENDS Conversation, TLC

CONSTANTS staff, factory

\* Both write; only one may read everything.
MCRole == (staff :> "ADMIN") @@ (factory :> "FACTORY_MANAGER")
=============================================================================
