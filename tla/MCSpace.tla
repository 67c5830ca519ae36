------------------------------ MODULE MCSpace ------------------------------
EXTENDS AddressSpace

\* One network driver.
MCDevices == {<<6, 2>>}
=============================================================================
