------------------------------ MODULE MCDelivery ------------------------------
EXTENDS Delivery

\* Ids of the outbox are numbers.
MCEvents == 1..2
=============================================================================
