------------------------------ MODULE MCStore ------------------------------
EXTENDS Store
MCCatalogue == <<"E130">>
=============================================================================
