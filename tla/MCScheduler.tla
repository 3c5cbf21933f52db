---------------------------- MODULE MCScheduler ----------------------------
\* The ways a sketch divides the two levels between its contexts.
EXTENDS Scheduler

\* Low priority events come from main and its callbacks, high priority ones
\* from interrupts and the callbacks that run in them.
OwnLevel == {<<"main", LOW>>, <<"isr", HIGH>>}

\* setup() and loop() schedule at both levels, interrupts at none.
MainOnly == {<<"main", LOW>>, <<"main", HIGH>>}

=============================================================================
