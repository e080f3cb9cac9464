--------------------------- MODULE MCAppSettings ---------------------------
(* A form that turns signing in on, one that turns it off, and one with    *)
(* blanks; a configuration exported where a password was set. *)
EXTENDS AppSettings, TLC
CONSTANTS s1, s2

Form(mode, username, password, sso, claude, fields) ==
    [mode |-> mode, username |-> username, password |-> password, sso |-> sso,
     claude |-> claude, claudeFields |-> fields]
MCForms == {Form("password", TRUE, TRUE, FALSE, TRUE, TRUE),
            Form("sso", FALSE, FALSE, TRUE, FALSE, FALSE),
            Form("password", FALSE, FALSE, FALSE, TRUE, FALSE)}
MCFiles == {Form("password", TRUE, FALSE, FALSE, TRUE, TRUE)}
MCSymmetry == Permutations(Savers)
=============================================================================
