----------------------------- MODULE MCAccounts -----------------------------
\* Constant values with which TLC checks Accounts, and beside it the queue
\* through which its links are mailed: each behaviour is of one of the two.
EXTENDS Accounts, AuthMailQueue, TLC

Symmetry == Permutations(Email) \cup Permutations(Password) \cup Permutations(Handle)
            \cup Permutations(Request)

Init == AccountsInit /\ MailInit

Next ==
    \/ AccountsNext /\ UNCHANGED mailVars /\ MailInit
    \/ MailNext /\ UNCHANGED accountVars /\ AccountsInit

Spec == Init /\ [][Next]_<<accountVars, mailVars>>
============================================================================
