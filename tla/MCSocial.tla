------------------------------ MODULE MCSocial -------------------------------
EXTENDS Social

MCOwn   == NewIdAdv(1, 1, 1, IndividualType)
MCUsers == {NewIdAdv(2, 1, 1, IndividualType)}
MCClan  == NewIdAdv(3, 0, 1, ClanType)
=============================================================================
