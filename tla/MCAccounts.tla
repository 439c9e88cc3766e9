----------------------------- MODULE MCAccounts -----------------------------
(***************************************************************************)
(* Instances of Sessions, PhoneCodes and Registration for TLC.  They share *)
(* no state here, so a behaviour is one of one of them.                    *)
(***************************************************************************)
EXTENDS Sessions, TLC

CONSTANTS
    Contact,   \* phone numbers, e-mail addresses
    Identity,  \* one-time codes, Google identities
    User, Parts

VARIABLES part,
    otp, pending, owner, phoneReq, broken,
    users, waiting, used, signup, latest

P == INSTANCE PhoneCodes WITH req <- phoneReq, Phone <- Contact, Code <- Identity
R == INSTANCE Registration WITH req <- signup, Email <- Contact, Sub <- Identity

ASSUME SignupConstants == P!PhoneCodesConstants /\ R!RegistrationConstants

phoneVars  == <<otp, pending, owner, phoneReq, broken>>
signupVars == <<users, waiting, used, signup, latest>>

all == <<part, vars, phoneVars, signupVars>>

MCInit == Init /\ P!Init /\ R!Init /\ part \in Parts

MCNext ==
    /\ UNCHANGED part
    /\ \/ part = "sessions" /\ Next /\ UNCHANGED <<phoneVars, signupVars>>
       \/ part = "phone" /\ P!Next /\ UNCHANGED <<vars, signupVars>>
       \/ part = "signup" /\ R!Next /\ UNCHANGED <<vars, phoneVars>>

MCSpec == MCInit /\ [][MCNext]_all

Symmetry ==
    Permutations(Req) \cup Permutations(Token)
        \cup Permutations(Contact) \cup Permutations(Identity)

\* PhoneCodes: the types, and a phone has one live code.
LiveCodeIsOne == part = "phone" => P!TypeOK /\ P!OneLiveCode

\* Registration: the types, and an account has the password its token stands for.
PasswordIsRedeemed == part = "signup" => R!TypeOK /\ R!RedeemedPassword

\* Registration: a Google sign-in that met a conflict ends in an account.
ConflictsResolved == part = "signup" => R!ConflictIsResolved

=============================================================================
